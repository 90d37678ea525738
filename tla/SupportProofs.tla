---------------------------- MODULE SupportProofs ----------------------------
(***************************************************************************)
(* Theorems about the small modules, for every value of their constants:   *)
(* the window sends on time, the catalogue is monotone, the live test      *)
(* leaves nothing behind, a code asked for reaches the app, media stay     *)
(* with their campaign, alerts keep to their policy, and the spelling of a *)
(* phone does not matter.                                                  *)
(***************************************************************************)
EXTENDS SendingWindow, RechargePackages, LiveTest, MediaAdoption, Realtime, Alerts, PhoneNumbers, SequenceTheorems, TLAPS

-----------------------------------------------------------------------------
(* SendingWindow *)

\* The offset of every area code is a whole number of hours.
LEMMA OffsetType == \A area \in Nat : OffsetFor(area) \in Int
BY DEF OffsetFor, Hour

\* The hour of a moment is a whole hour of the day, not after the moment and less than an hour before it.
LEMMA HourBounds ==
    ASSUME NEW t \in Int
    PROVE  /\ MinuteOf(t) \in Int
           /\ 0 <= MinuteOf(t)
           /\ MinuteOf(t) <= 1439
           /\ HourOf(t) \in Int
           /\ HourOf(t) <= MinuteOf(t)
           /\ MinuteOf(t) < HourOf(t) + 60
<1>1. MinuteOf(t) \in 0 .. 1439
  BY DEF MinuteOf, Day, Hour
<1>2. /\ MinuteOf(t) \div 60 \in 0 .. 23
      /\ 60 * (MinuteOf(t) \div 60) <= MinuteOf(t)
      /\ MinuteOf(t) < 60 * (MinuteOf(t) \div 60) + 60
  BY SMTT(30), <1>1
<1>3. HourOf(t) = (MinuteOf(t) \div 60) * 60
  BY DEF HourOf, Hour
<1> QED
  BY SMTT(30), <1>1, <1>2, <1>3

\* The hour is one of the twenty-four.
LEMMA WholeHour ==
    ASSUME NEW t \in Int
    PROVE  \E h \in 0 .. 23 : HourOf(t) = 60 * h
<1>1. MinuteOf(t) \in 0 .. 1439
  BY DEF MinuteOf, Day, Hour
<1>2. MinuteOf(t) \div 60 \in 0 .. 23
  BY <1>1
<1>3. HourOf(t) = 60 * (MinuteOf(t) \div 60)
  BY <1>2 DEF HourOf, Hour
<1> QED
  BY <1>2, <1>3

\* Whole hours keep the order of the moments they are the hours of.
LEMMA HourMonotone ==
    ASSUME NEW s \in Int, NEW t \in Int, MinuteOf(s) <= MinuteOf(t)
    PROVE  HourOf(s) <= HourOf(t)
<1>1. PICK g \in 0 .. 23 : HourOf(s) = 60 * g
  BY WholeHour
<1>2. PICK h \in 0 .. 23 : HourOf(t) = 60 * h
  BY WholeHour
<1>3. HourOf(s) <= MinuteOf(s) /\ MinuteOf(s) \in Int
  BY HourBounds
<1>4. MinuteOf(t) < HourOf(t) + 60 /\ MinuteOf(t) \in Int
  BY HourBounds
<1>5. 60 * g < 60 * h + 60
  BY <1>1, <1>2, <1>3, <1>4
<1> QED
  BY <1>1, <1>2, <1>5

\* Before a whole hour of the day, the hour of a moment is before it too, and at it, is it.
LEMMA HourAgainst ==
    ASSUME NEW t \in Int, NEW n \in 0 .. 23
    PROVE  /\ MinuteOf(t) = 60 * n => HourOf(t) = 60 * n
           /\ HourOf(t) < 60 * n => MinuteOf(t) < 60 * n
<1>1. PICK h \in 0 .. 23 : HourOf(t) = 60 * h
  BY WholeHour
<1>2. HourOf(t) <= MinuteOf(t) /\ MinuteOf(t) < HourOf(t) + 60 /\ MinuteOf(t) \in Int
  BY HourBounds
<1> QED
  BY <1>1, <1>2

\* Within one day the minutes count up with the moments.
LEMMA SameDay ==
    ASSUME NEW x \in Int, NEW v \in Int, NEW k \in {0, 1},
           x - MinuteOf(x) + 1440 * k <= v, v < x - MinuteOf(x) + 1440 * k + 1440
    PROVE  MinuteOf(v) = v - (x - MinuteOf(x) + 1440 * k)
BY DEF MinuteOf, Day, Hour

\* Outside a regular window, the time to its next opening ends at the first minute inside it.
LEMMA NextOpening ==
    ASSUME window \in [opens : 0 .. 23 * Hour, closes : Hour .. Day], Regular,
           NEW area \in Nat, NEW t \in Int, ~IsWithin(area, t)
    PROVE  /\ UntilNextWindow(area, t) \in Nat
           /\ IsWithin(area, t + UntilNextWindow(area, t))
           /\ \A v \in t .. t + UntilNextWindow(area, t) - 1 : ~IsWithin(area, v)
<1> DEFINE o == OffsetFor(area)
           x == t + o
           k == IF PastTheEnd(x) THEN 1 ELSE 0
           opens == window.opens
           closes == window.closes
           wait == opens + 1440 * k - MinuteOf(x)
<1>1. o \in Int /\ x \in Int /\ x = t + o
  BY OffsetType
<1>2. opens \in 0 .. 1380 /\ closes \in 60 .. 1440 /\ opens % 60 = 0 /\ opens < closes
  BY DEF Regular, Hour, Day
<1>3. \A v \in Int : IsWithin(area, v) <=> HourOf(v + o) >= opens /\ HourOf(v + o) < closes
  BY DEF IsWithin
<1>4. k \in {0, 1} /\ (k = 1 <=> HourOf(x) >= closes)
  BY DEF PastTheEnd
<1>5. OpeningFor(x) = x - MinuteOf(x) + (opens \div 60) * 60 + (IF PastTheEnd(x) THEN 1440 ELSE 0)
  <2> HIDE DEF x
  <2> QED
    BY SMTT(30) DEF OpeningFor, Hour, Day
<1>6. UntilNextWindow(area, t) = IF OpeningFor(x) - x < 0 THEN 0 ELSE OpeningFor(x) - x
  BY DEF UntilNextWindow
<1>7. /\ (opens \div 60) * 60 = opens /\ opens = 60 * (opens \div 60)
      /\ opens \div 60 \in 0 .. 23
  BY SMTT(30), <1>2
<1>8. OpeningFor(x) - x = wait
  <2>1. MinuteOf(x) \in Int
    BY <1>1, HourBounds
  <2>2. OpeningFor(x) = x - MinuteOf(x) + opens + 1440 * k
    BY <2>1, <1>1, <1>2, <1>5, <1>7
  <2> HIDE DEF x, k, opens
  <2> QED
    BY <2>1, <2>2, <1>1, <1>2, <1>4
<1> HIDE DEF o, x, k, opens, closes
<1> PICK n \in 0 .. 23 : opens = 60 * n
  BY <1>7
<1>9. MinuteOf(x) \in Int /\ 0 <= MinuteOf(x) /\ MinuteOf(x) <= 1439 /\ HourOf(x) \in Int /\ HourOf(x) <= MinuteOf(x)
  BY <1>1, HourBounds
<1>10. HourOf(x) < closes => HourOf(x) < opens /\ MinuteOf(x) < opens
  <2>1. ~(HourOf(x) >= opens /\ HourOf(x) < closes)
    BY <1>1, <1>3
  <2>2. HourOf(x) < opens => MinuteOf(x) < opens
    BY <1>1, <1>2, HourAgainst
  <2> QED
    BY <2>1, <2>2, <1>2, <1>9
<1>11. wait \in Nat /\ wait > 0
  BY <1>2, <1>4, <1>9, <1>10
<1>12. UntilNextWindow(area, t) = wait
  BY <1>6, <1>8, <1>11
<1>13. IsWithin(area, t + wait)
  <2>1. t + wait \in Int /\ (t + wait) + o = x - MinuteOf(x) + 1440 * k + opens
    BY <1>1, <1>2, <1>4, <1>9
  <2>2. MinuteOf(x - MinuteOf(x) + 1440 * k + opens) = opens
    <3> DEFINE u == x - MinuteOf(x) + 1440 * k + opens
    <3>1. /\ u \in Int /\ x - MinuteOf(x) + 1440 * k <= u /\ u < x - MinuteOf(x) + 1440 * k + 1440
          /\ u - (x - MinuteOf(x) + 1440 * k) = opens
      BY <1>1, <1>2, <1>4, <1>9
    <3> HIDE DEF u
    <3>2. MinuteOf(u) = opens
      BY <3>1, <1>1, <1>4, SameDay
    <3> QED
      BY <3>2 DEF u
  <2>3. HourOf((t + wait) + o) = opens
    <3> DEFINE u == (t + wait) + o
    <3>1. u \in Int /\ MinuteOf(u) = opens
      BY <1>1, <1>2, <1>4, <1>9, <2>1, <2>2
    <3> HIDE DEF u
    <3>2. HourOf(u) = opens
      BY <3>1, <1>2, HourAgainst
    <3> QED
      BY <3>2 DEF u
  <2> QED
    BY <2>1, <2>3, <1>2, <1>3
<1>14. ASSUME NEW v \in t .. t + wait - 1
       PROVE  ~IsWithin(area, v)
  <2> DEFINE y == v + o
  <2>1. v \in Int /\ y \in Int /\ x <= y /\ y < x - MinuteOf(x) + 1440 * k + opens
    BY <1>1, <1>2, <1>4, <1>9, <1>11
  <2>2. IsWithin(area, v) <=> HourOf(y) >= opens /\ HourOf(y) < closes
    BY <2>1, <1>3
  <2> HIDE DEF y
  <2>3. MinuteOf(y) \in Int /\ 0 <= MinuteOf(y) /\ MinuteOf(y) <= 1439 /\ HourOf(y) \in Int /\ HourOf(y) <= MinuteOf(y)
    BY <2>1, HourBounds
  <2>4. CASE k = 1 /\ y < x - MinuteOf(x) + 1440
    <3>1. MinuteOf(y) = y - (x - MinuteOf(x) + 1440 * 0)
      BY <2>1, <2>4, <1>1, <1>9, SameDay
    <3>2. MinuteOf(x) <= MinuteOf(y)
      BY <3>1, <2>1, <1>1, <1>9
    <3>3. HourOf(y) >= HourOf(x)
      BY <3>2, <2>1, <1>1, HourMonotone
    <3> QED
      BY <3>3, <2>2, <2>3, <2>4, <1>2, <1>4, <1>9
  <2>5. CASE ~(k = 1 /\ y < x - MinuteOf(x) + 1440)
    <3>1. x - MinuteOf(x) + 1440 * k <= y /\ y < x - MinuteOf(x) + 1440 * k + 1440
      BY <2>1, <2>5, <1>1, <1>2, <1>4, <1>9
    <3>2. MinuteOf(y) = y - (x - MinuteOf(x) + 1440 * k)
      BY <3>1, <2>1, <1>1, <1>4, SameDay
    <3>3. MinuteOf(y) < opens
      BY <3>2, <2>1, <1>1, <1>2, <1>4, <1>9
    <3> QED
      BY <3>3, <2>2, <2>3, <1>2
  <2> QED
    BY <2>4, <2>5
<1> QED
  BY <1>11, <1>12, <1>13, <1>14

-----------------------------------------------------------------------------
(* The specification *)

\* A job pauses where the look at the clock found its window open.
PausesInside == job.state = "pausing" => IsWithin(job.area, looked) /\ clock = looked

WindowInv == WindowTypeOK /\ PausesInside /\ LeavesSoonAfter /\ (Regular => DueAtOpening)

\* Every wait is a natural number of minutes, also with irregular hours.
LEMMA WaitType ==
    ASSUME WindowTypeOK, NEW area \in Nat, NEW t \in Int
    PROVE  UntilNextWindow(area, t) \in Nat
<1> DEFINE x == t + OffsetFor(area)
<1>1. x \in Int
  BY OffsetType
<1> HIDE DEF x
<1>2. MinuteOf(x) \in Int
  BY <1>1, HourBounds
<1>3. window.opens \in 0 .. 1380
  BY DEF WindowTypeOK, Hour, Day
<1>4. window.opens \div 60 \in Int
  BY SMTT(30), <1>3
<1>5. OpeningFor(x) - x \in Int
  BY <1>1, <1>2, <1>4 DEF OpeningFor, Hour, Day
<1>6. UntilNextWindow(area, t) = IF IsWithin(area, t) \/ OpeningFor(x) - x < 0 THEN 0 ELSE OpeningFor(x) - x
  BY DEF UntilNextWindow, x
<1> QED
  BY <1>5, <1>6

\* Every pause is between the bounds of the session's age, or the lower one when they are in the wrong order.
LEMMA PauseBounds ==
    ASSUME WindowTypeOK, NEW pause \in Pauses(job.age)
    PROVE  /\ pause \in Nat
           /\ pause >= Patience.least
           /\ Patience.least <= Patience.most => pause <= Patience.most
BY WindowAssumption DEF WindowTypeOK, Pauses, Patience

\* The initial state.
LEMMA WindowInit_Inv == WindowInit => WindowInv
BY DEF WindowInit, WindowInv, WindowTypeOK, PausesInside, LeavesSoonAfter, DueAtOpening, Hour, Day

\* Every step keeps the invariant.
LEMMA WindowNext_Inv == WindowInv /\ [WindowNext]_windowVars => WindowInv'
<1> SUFFICES ASSUME WindowInv, [WindowNext]_windowVars
             PROVE  WindowInv'
  OBVIOUS
<1> USE DEF WindowInv
<1>1. ASSUME NEW t \in Arrivals, NEW area \in Areas, NEW age \in Ages, NEW opens \in Openings,
             NEW closes \in Closings, Arrive(t, area, age, opens, closes)
      PROVE  WindowInv'
  <2>1. job'.state = "waiting"
    BY <1>1 DEF Arrive
  <2>2. WindowTypeOK'
    BY <1>1, WindowAssumption DEF Arrive, WindowTypeOK
  <2> QED
    BY <2>1, <2>2 DEF PausesInside, LeavesSoonAfter, DueAtOpening
<1>2. CASE Postpone
  <2> DEFINE wait == UntilNextWindow(job.area, clock)
  <2>1. wait \in Nat
    BY WaitType DEF WindowTypeOK
  <2>2. /\ window' = window /\ job'.state = "postponed" /\ job'.area = job.area
        /\ looked' = clock /\ clock' = clock + wait
    BY <1>2 DEF Postpone, WindowTypeOK
  <2>3. WindowTypeOK'
    BY <1>2, <2>1, <2>2 DEF Postpone, WindowTypeOK
  <2>4. Regular => DueAtOpening'
    <3> SUFFICES ASSUME Regular PROVE DueAtOpening'
      OBVIOUS
    <3>1. /\ IsWithin(job.area, clock + wait)
          /\ \A v \in clock .. clock + wait - 1 : ~IsWithin(job.area, v)
      BY <1>2, NextOpening DEF Postpone, WindowTypeOK
    <3> HIDE DEF wait
    <3>2. IsWithin(job.area, clock)'
      BY Zenon, <2>2, <3>1 DEF IsWithin
    <3>3. ASSUME NEW v \in (looked .. clock - 1)'
          PROVE  ~IsWithin(job.area, v)'
      <4>1. v \in clock .. clock + wait - 1
        <5>1. clock \in Int /\ wait \in Int /\ looked' = clock /\ clock' = clock + wait
          BY <2>1, <2>2 DEF WindowTypeOK
        <5> QED
          BY <5>1
      <4> QED
        BY Zenon, <2>2, <3>1, <4>1 DEF IsWithin
    <3> QED
      BY <3>2, <3>3 DEF DueAtOpening
  <2>5. Regular' => Regular
    BY <2>2 DEF Regular
  <2> QED
    BY <2>2, <2>3, <2>4, <2>5 DEF PausesInside, LeavesSoonAfter
<1>3. ASSUME NEW late \in Lateness, TakeUp(late)
      PROVE  WindowInv'
  <2>1. job'.state = "waiting"
    BY <1>3 DEF TakeUp, WindowTypeOK
  <2>2. WindowTypeOK'
    BY <1>3, WindowAssumption DEF TakeUp, WindowTypeOK
  <2> QED
    BY <2>1, <2>2 DEF PausesInside, LeavesSoonAfter, DueAtOpening
<1>4. CASE Pause
  <2>1. job'.state = "pausing" /\ job'.area = job.area /\ window' = window /\ looked' = clock /\ clock' = clock
    BY <1>4 DEF Pause, WindowTypeOK
  <2>2. WindowTypeOK'
    BY <1>4 DEF Pause, WindowTypeOK
  <2>3. PausesInside'
    BY <1>4, <2>1 DEF Pause, PausesInside, IsWithin
  <2> QED
    BY <2>1, <2>2, <2>3 DEF LeavesSoonAfter, DueAtOpening
<1>5. ASSUME NEW pause \in Pauses(job.age), Send(pause)
      PROVE  WindowInv'
  <2>1. /\ job'.state = "sent" /\ job'.area = job.area /\ job'.age = job.age
        /\ window' = window /\ looked' = looked /\ clock' = looked + pause
    BY <1>5 DEF Send, WindowTypeOK, PausesInside
  <2>2. pause \in Nat /\ pause >= Patience.least /\ (Patience.least <= Patience.most => pause <= Patience.most)
    BY PauseBounds
  <2>3. WindowTypeOK'
    BY <1>5, <2>2 DEF Send, WindowTypeOK
  <2>4. LeavesSoonAfter'
    <3>1. IsWithin(job.area, looked)'
      BY <1>5, <2>1 DEF Send, PausesInside, IsWithin
    <3>2. Patience' = Patience
      BY <2>1 DEF Patience
    <3>3. clock' - looked' = pause
      BY <2>1, <2>2 DEF WindowTypeOK
    <3> QED
      BY <3>1, <3>2, <3>3, <2>2 DEF LeavesSoonAfter
  <2> QED
    BY <2>1, <2>3, <2>4 DEF PausesInside, DueAtOpening
<1>6. CASE UNCHANGED windowVars
  BY <1>6 DEF windowVars, WindowTypeOK, PausesInside, LeavesSoonAfter, Patience, Regular, DueAtOpening, IsWithin
<1> QED
  BY <1>1, <1>2, <1>3, <1>4, <1>5, <1>6 DEF WindowNext

\* The clock, the job and the window keep their types (timezone.service.ts, anti-ban-delay.service.ts).
THEOREM WindowTypeCorrect == WindowSpec => []WindowTypeOK
<1>1. WindowInv => WindowTypeOK
  BY DEF WindowInv
<1> QED
  BY <1>1, WindowInit_Inv, WindowNext_Inv, PTL DEF WindowSpec

\* With regular hours a postponed job is due at exactly the next opening of the contact's window, and a
\* message trails the look at the clock that let it go by the pause alone, for all hours and area codes.
THEOREM SendsOnTime == WindowSpec => []SentOnTime
<1>1. WindowInv => SentOnTime
  BY DEF WindowInv, SentOnTime
<1> QED
  BY <1>1, WindowInit_Inv, WindowNext_Inv, PTL DEF WindowSpec

-----------------------------------------------------------------------------
(* RechargePackages *)

\* A package is one of the fixed ones, or a custom one.
Custom(p) == \E amount \in Nat : MayBeCustom(amount) /\ p = CustomPackage(amount)
Offered(p) == p \in FixedPackages \/ Custom(p)

\* The request before the first found nothing.
PackagesInv ==
    /\ offer = NoPackage \/ Offered(offer)
    /\ before = NoPackage \/ Offered(before)
    /\ before # NoPackage => offer # NoPackage

\* Credits of an amount with a bonus.
Credits(amount, bonus) == (amount * (100 + bonus)) \div 1000

\* The brackets cover every amount, and their bonuses go up.
LEMMA BonusType == ASSUME NEW m \in Nat PROVE BonusForAmount(m) \in {10, 20, 35, 50, 65}
BY DEF BonusForAmount

LEMMA BonusMonotone ==
    ASSUME NEW m \in Nat, NEW n \in Nat, m <= n
    PROVE  BonusForAmount(m) <= BonusForAmount(n)
BY DEF BonusForAmount

\* More money with no less bonus is never fewer credits.
LEMMA CreditsMonotone ==
    ASSUME NEW m \in Nat, NEW n \in Nat, m <= n,
           NEW a \in {10, 20, 35, 50, 65}, NEW b \in {10, 20, 35, 50, 65}, a <= b
    PROVE  Credits(m, a) <= Credits(n, b) /\ Credits(m, a) \in Nat
<1>1. m * (100 + a) <= n * (100 + b) /\ m * (100 + a) \in Nat /\ n * (100 + b) \in Nat
  OBVIOUS
<1>2. ASSUME NEW x \in Nat, NEW y \in Nat, x <= y
      PROVE  x \div 1000 <= y \div 1000 /\ x \div 1000 \in Nat
  BY <1>2
<1> QED
  BY <1>1, <1>2 DEF Credits

\* A fixed package is the one a custom amount of its price would give.
LEMMA FixedIsCustom == \A p \in FixedPackages : Custom(p)
<1>1. \A m \in {2000, 5000, 10000, 30000, 50000} : m \in Nat /\ MayBeCustom(m)
  BY DEF MayBeCustom
<1>2. /\ CustomPackage(2000) = [amount |-> 2000, credits |-> 220, bonus |-> 10]
      /\ CustomPackage(5000) = [amount |-> 5000, credits |-> 600, bonus |-> 20]
      /\ CustomPackage(10000) = [amount |-> 10000, credits |-> 1350, bonus |-> 35]
      /\ CustomPackage(30000) = [amount |-> 30000, credits |-> 4500, bonus |-> 50]
      /\ CustomPackage(50000) = [amount |-> 50000, credits |-> 8250, bonus |-> 65]
  BY DEF CustomPackage, BonusForAmount
<1>3. \A p \in FixedPackages : \E m \in {2000, 5000, 10000, 30000, 50000} : p = CustomPackage(m)
  BY <1>2 DEF FixedPackages
<1> QED
  BY <1>1, <1>3 DEF Custom

\* Of two packages, the dearer gives no less; two of one amount are one.
LEMMA OfferedMonotone ==
    ASSUME NEW p, NEW q, Custom(p), Custom(q), p.amount <= q.amount
    PROVE  /\ p.credits <= q.credits /\ p.bonus <= q.bonus
           /\ p.amount = q.amount => p = q
<1>1. PICK m \in Nat : MayBeCustom(m) /\ p = CustomPackage(m)
  BY DEF Custom
<1>2. PICK n \in Nat : MayBeCustom(n) /\ q = CustomPackage(n)
  BY DEF Custom
<1>3. /\ p.amount = m /\ p.credits = Credits(m, BonusForAmount(m)) /\ p.bonus = BonusForAmount(m)
      /\ q.amount = n /\ q.credits = Credits(n, BonusForAmount(n)) /\ q.bonus = BonusForAmount(n)
  BY <1>1, <1>2 DEF CustomPackage, Credits
<1>4. m \in Nat /\ n \in Nat /\ m <= n
  BY <1>3
<1>5. BonusForAmount(m) <= BonusForAmount(n)
  BY <1>4, BonusMonotone
<1>6. BonusForAmount(m) \in {10, 20, 35, 50, 65} /\ BonusForAmount(n) \in {10, 20, 35, 50, 65}
  BY <1>4, BonusType
<1>7. Credits(m, BonusForAmount(m)) <= Credits(n, BonusForAmount(n))
  BY SMTT(30), <1>4, <1>5, <1>6, CreditsMonotone
<1>8. m = n => p = q
  BY <1>1, <1>2
<1> QED
  BY <1>3, <1>5, <1>7, <1>8

-----------------------------------------------------------------------------
LEMMA Packages_Init == PackagesInit => PackagesInv
BY DEF PackagesInit, PackagesInv

\* No package the catalogue offers is the empty one.
LEMMA OfferedIsOne == \A p : Custom(p) => p # NoPackage /\ p.amount \in Nat /\ p.credits \in Nat /\ p.bonus \in Nat
<1> SUFFICES ASSUME NEW p, Custom(p)
             PROVE  p # NoPackage /\ p.amount \in Nat /\ p.credits \in Nat /\ p.bonus \in Nat
  OBVIOUS
<1>1. PICK m \in Nat : MayBeCustom(m) /\ p = CustomPackage(m)
  BY DEF Custom
<1>2. p.amount = m /\ p.credits = Credits(m, BonusForAmount(m)) /\ p.bonus = BonusForAmount(m)
  BY <1>1 DEF CustomPackage, Credits
<1>3. NoPackage.amount = 0
  BY DEF NoPackage
<1>4. m \in Nat /\ m # 0
  BY <1>1 DEF MayBeCustom
<1>5. BonusForAmount(m) \in {10, 20, 35, 50, 65}
  BY BonusType
<1>6. Credits(m, BonusForAmount(m)) \in Nat /\ BonusForAmount(m) \in Nat
  BY SMTT(30), <1>5, CreditsMonotone
<1>7. p.amount # NoPackage.amount
  BY <1>2, <1>3, <1>4
<1> QED
  BY <1>2, <1>4, <1>6, <1>7

LEMMA Packages_Next == PackagesInv /\ [PackagesNext]_packageVars => PackagesInv'
<1> SUFFICES ASSUME PackagesInv, [PackagesNext]_packageVars
             PROVE  PackagesInv'
  OBVIOUS
<1>1. ASSUME NEW p \in FixedPackages, FindFixed(p)
      PROVE  PackagesInv'
  <2>1. p # NoPackage /\ Offered(p)
    BY FixedIsCustom, OfferedIsOne DEF Offered
  <2> QED
    BY <1>1, <2>1 DEF FindFixed, PackagesInv
<1>2. ASSUME NEW amount \in Amounts, FindCustom(amount)
      PROVE  PackagesInv'
  <2>1. Custom(CustomPackage(amount))
    BY <1>2, AmountsAssumption DEF FindCustom, Custom
  <2>2. CustomPackage(amount) # NoPackage
    BY <2>1, OfferedIsOne
  <2> QED
    BY <1>2, <2>1, <2>2 DEF FindCustom, PackagesInv, Offered
<1>3. CASE UNCHANGED packageVars
  BY <1>3 DEF packageVars, PackagesInv
<1> QED
  BY <1>1, <1>2, <1>3 DEF PackagesNext

\* Of two packages, fixed or custom, whatever their amounts, the dearer one never gives fewer credits nor a
\* smaller bonus, and a custom amount equal to a fixed price gives the fixed package (recharge-packages.ts).
THEOREM CatalogueIsMonotone == PackagesSpec => []CreditsFollowCatalogue
<1>1. PackagesInv => CreditsFollowCatalogue
  <2> SUFFICES ASSUME PackagesInv, before.amount <= offer.amount
               PROVE  /\ before.credits <= offer.credits /\ before.bonus <= offer.bonus
                      /\ before.amount = offer.amount => before = offer
    BY DEF CreditsFollowCatalogue
  <2>1. \A p : Offered(p) => Custom(p)
    BY FixedIsCustom DEF Offered
  <2>2. CASE before = NoPackage
    <3>1. before.amount = 0 /\ before.credits = 0 /\ before.bonus = 0
      BY <2>2 DEF NoPackage
    <3>2. CASE offer = NoPackage
      BY <2>2, <3>1, <3>2
    <3>3. CASE Custom(offer)
      <4>1. offer.amount \in Nat /\ offer.credits \in Nat /\ offer.bonus \in Nat
        BY <3>3, OfferedIsOne
      <4>2. offer.amount # 0
        BY <3>3 DEF Custom, CustomPackage, MayBeCustom
      <4> QED
        BY <3>1, <4>1, <4>2
    <3> QED
      BY <3>2, <3>3, <2>1 DEF PackagesInv
  <2>3. CASE before # NoPackage
    <3>1. Custom(before) /\ Custom(offer)
      BY <2>1, <2>3 DEF PackagesInv
    <3> QED
      BY <3>1, OfferedMonotone
  <2> QED
    BY <2>2, <2>3
<1> QED
  BY <1>1, Packages_Init, Packages_Next, PTL DEF PackagesSpec
-----------------------------------------------------------------------------
(* LiveTest *)

\* How far the test has come, and what it has left open by then.
TestInv ==
    /\ step \in {"fetching", "building"} => socket = "none" /\ ~listening /\ ~timing /\ ~settled
    /\ step = "testing" => socket = "open" /\ listening /\ timing /\ ~settled
    /\ step \in {"ending", "done"} => answer = first /\ socket # "open" /\ ~listening /\ ~timing
    /\ step \in {"fetching", "building", "testing", "ending", "done"}

\* Whatever the socket reports, and whenever the timer fires, the test answers with what
\* happened first and leaves no socket, listener or timer (finish of
\* whatsapp-diagnostics.service.ts): the closing it causes itself finds no listener.
THEOREM TestLeavesNothing == TestSpec => []TestEndsClean
<1>1. TestInit => TestInv
  BY DEF TestInit, TestInv
<1>2. TestInv /\ [TestNext]_testVars => TestInv'
  <2> SUFFICES ASSUME TestInv, [TestNext]_testVars PROVE TestInv'
    OBVIOUS
  <2> USE DEF TestInv
  <2>1. ASSUME NEW cause, FailEarly(cause) PROVE TestInv'
    BY <2>1 DEF FailEarly
  <2>2. CASE Fetched \/ Open
    BY <2>2 DEF Fetched, Open
  <2>3. CASE TimeOut
    BY <2>3 DEF TimeOut, Finish
  <2>4. ASSUME NEW what, Report(what) PROVE TestInv'
    BY <2>4 DEF Report, Finish
  <2>5. ASSUME NEW reported \in BOOLEAN, EndReports(reported) PROVE TestInv'
    BY <2>5 DEF EndReports
  <2>6. CASE Answered \/ UNCHANGED testVars
    BY <2>6 DEF Answered, testVars
  <2> QED
    BY <2>1, <2>2, <2>3, <2>4, <2>5, <2>6 DEF TestNext
<1>3. TestInv => TestEndsClean
  BY DEF TestInv, TestEndsClean
<1> QED
  BY <1>1, <1>2, <1>3, PTL DEF TestSpec

-----------------------------------------------------------------------------
(* Realtime *)

RealtimeTypeInv ==
    /\ current \in Sockets \cup {NoLink} /\ connecting \in Sockets \cup {NoLink}
    /\ asked \in Sockets \cup {NoLink}
    /\ link \in [Sockets -> {"none", "dialing", "open", "joined", "refused", "down", "gone"}]
    /\ handshake \in [Sockets -> {"none", "pending", "done", "failed"}]
    /\ caller \in [Callers -> [pc : {"idle", "token", "waiting"}, sock : Sockets \cup {NoLink}]]
    /\ \A c \in Callers : caller[c].pc = "waiting" => caller[c].sock \in Sockets
    /\ registered \in BOOLEAN /\ deaf \in BOOLEAN

\* There is one socket at a time; a handshake in progress is pending; whoever goes on
\* after a handshake that succeeded does so while its socket is in the room; and the
\* listener is on the socket there is, unless the app is deaf.
ChannelInv ==
    /\ \A s \in Sockets : link[s] \notin {"none", "gone"} => s = current
    /\ connecting # NoLink => handshake[connecting] = "pending"
    /\ \A c \in Resuming : handshake[caller[c].sock] = "done" => link[caller[c].sock] = "joined"
    /\ registered /\ ~deaf => hearing = current
    /\ asked # NoLink => registered
    /\ asked # NoLink /\ waited /\ ~deaf => link[asked] = "joined" /\ hearing = asked

LEMMA ChannelInit == RealtimeInit => RealtimeTypeInv /\ ChannelInv
<1> SUFFICES ASSUME RealtimeInit PROVE RealtimeTypeInv /\ ChannelInv
  OBVIOUS
<1>1. NoLink \notin Sockets
  BY RealtimeAssumption DEF NoLink, Sockets
<1>2. caller \in [Callers -> [pc : {"idle", "token", "waiting"}, sock : Sockets \cup {NoLink}]]
      /\ \A c \in Callers : caller[c].pc # "waiting"
  BY DEF RealtimeInit, Call
<1>3. RealtimeTypeInv
  BY <1>2 DEF RealtimeInit, RealtimeTypeInv
<1>4. ChannelInv
  BY <1>2 DEF RealtimeInit, ChannelInv, Resuming
<1> QED
  BY <1>3, <1>4

\* A call that ends with listeners, and perhaps with the request: after a handshake that
\* succeeded the socket is in the room and the listener is on it.
LEMMA ProceedKeeps ==
    ASSUME RealtimeTypeInv, ChannelInv, NEW c \in Callers, NEW after \in BOOLEAN, Proceed(c, after),
           UNCHANGED <<current, connecting, link, handshake>>,
           after => current # NoLink /\ link[current] = "joined"
    PROVE  RealtimeTypeInv' /\ ChannelInv'
<1>0. NoLink \notin Sockets
  BY DEF NoLink, Sockets
<1>1. caller' = [caller EXCEPT ![c] = Call("idle", NoLink)] /\ caller'[c].pc = "idle"
  BY DEF Proceed, RealtimeTypeInv, Call
<1>2. /\ caller' \in [Callers -> [pc : {"idle", "token", "waiting"}, sock : Sockets \cup {NoLink}]]
      /\ \A d \in Callers : caller'[d].pc = "waiting" => caller'[d] = caller[d]
  BY <1>1 DEF RealtimeTypeInv, Call
<1>3. \A d \in Callers : caller'[d].pc = "waiting" => caller'[d].sock \in Sockets
  BY <1>2 DEF RealtimeTypeInv
<1>4. Resuming' \subseteq Resuming /\ \A d \in Resuming' : caller'[d] = caller[d]
  BY <1>2 DEF Resuming
<1>5. \/ c = "campanhas" /\ UNCHANGED <<registered, hearing, deaf>>
      \/ c # "campanhas" /\ Register
  BY DEF Proceed
<1>6. \/ c = "toque" /\ asked' = current /\ waited' = after
      \/ c # "toque" /\ UNCHANGED <<asked, waited>>
  BY DEF Proceed
<1>7. registered' \in BOOLEAN /\ deaf' \in BOOLEAN
  BY <1>5 DEF Register, RealtimeTypeInv
<1>8. RealtimeTypeInv'
  BY <1>2, <1>3, <1>6, <1>7 DEF RealtimeTypeInv
<1>9. registered' /\ ~deaf' => hearing' = current /\ ~deaf
  BY <1>5 DEF Register, ChannelInv
<1>10. asked' # NoLink => registered'
  BY <1>5, <1>6 DEF Register, ChannelInv
<1>11. asked' # NoLink /\ waited' /\ ~deaf' => link[asked'] = "joined" /\ hearing' = asked'
  <2>1. CASE c = "toque"
    BY <1>6, <1>9, <1>10, <2>1
  <2>2. CASE c # "toque"
    <3>1. asked # NoLink => hearing' = hearing /\ (~deaf' => ~deaf)
      BY <1>5 DEF Register, ChannelInv
    <3> QED
      BY <1>6, <2>2, <3>1 DEF ChannelInv
  <2> QED
    BY <2>1, <2>2
<1>12. \A d \in Resuming' : handshake'[caller'[d].sock] = "done" => link'[caller'[d].sock] = "joined"
  BY <1>4 DEF ChannelInv
<1>13. /\ \A s \in Sockets : link'[s] \notin {"none", "gone"} => s = current'
       /\ connecting' # NoLink => handshake'[connecting'] = "pending"
  BY DEF ChannelInv
<1>14. /\ registered' /\ ~deaf' => hearing' = current'
       /\ asked' # NoLink /\ waited' /\ ~deaf' => link'[asked'] = "joined" /\ hearing' = asked'
  BY <1>9, <1>11
<1> QED
  BY <1>8, <1>10, <1>12, <1>13, <1>14 DEF ChannelInv

\* The request of the user, up to its first await.
LEMMA AskKeeps ==
    ASSUME RealtimeTypeInv, ChannelInv, AskForCode
    PROVE  RealtimeTypeInv' /\ ChannelInv'
<1>0. /\ Resuming = {} /\ "toque" \in Callers /\ UNCHANGED <<signedIn, current, connecting, link, handshake, drops>>
      /\ NoLink \notin Sockets
  BY DEF AskForCode, Callers, NoLink, Sockets
<1>1. CASE Connected(current)
  <2>1. Proceed("toque", FALSE)
    BY <1>1 DEF AskForCode
  <2> QED
    BY <1>0, <2>1, ProceedKeeps
<1>2. CASE ~ Connected(current)
  <2>1. /\ UNCHANGED <<registered, hearing, deaf, asked, waited>>
        /\ \/ connecting # NoLink /\ caller' = [caller EXCEPT !["toque"] = Call("waiting", connecting)]
           \/ connecting = NoLink /\ caller' = [caller EXCEPT !["toque"] = Call("token", NoLink)]
    BY <1>2 DEF AskForCode
  <2>2. RealtimeTypeInv'
    BY <1>0, <2>1 DEF RealtimeTypeInv, Call
  <2>3. Resuming' = {}
    <3>1. \A c \in Callers : c # "toque" => caller'[c] = caller[c]
      BY <2>1 DEF RealtimeTypeInv
    <3>2. caller'["toque"].pc = "waiting" => handshake[caller'["toque"].sock] = "pending"
      BY <1>0, <2>1 DEF RealtimeTypeInv, ChannelInv, Call
    <3> QED
      BY <1>0, <3>1, <3>2 DEF Resuming
  <2> QED
    BY <1>0, <2>1, <2>2, <2>3 DEF ChannelInv
<1> QED
  BY <1>1, <1>2

\* A new socket takes the place of the one there is.
LEMMA DialKeeps ==
    ASSUME RealtimeTypeInv, ChannelInv, NEW c \in Callers, NEW s \in Sockets, Dial(c, s)
    PROVE  RealtimeTypeInv' /\ ChannelInv'
<1>0. /\ NoLink \notin Sockets /\ Resuming = {}
      /\ link' = [t \in Sockets |-> IF t = s THEN "dialing" ELSE IF t = current THEN "gone" ELSE link[t]]
      /\ handshake' = [handshake EXCEPT ![s] = "pending"]
      /\ current' = s /\ connecting' = s /\ asked' = NoLink /\ deaf' = (deaf \/ registered)
      /\ caller' = [caller EXCEPT ![c] = Call("waiting", s)]
      /\ UNCHANGED <<registered, hearing>>
  BY DEF Dial, NoLink, Sockets
<1>1. RealtimeTypeInv'
  BY <1>0 DEF RealtimeTypeInv, Call
<1>2. \A t \in Sockets : link'[t] \notin {"none", "gone"} => t = current'
  BY <1>0 DEF ChannelInv
<1>3. handshake'[s] = "pending" /\ \A t \in Sockets : t # s => handshake'[t] = handshake[t]
  BY <1>0 DEF RealtimeTypeInv
<1>4. Resuming' = {}
  <2>1. \A d \in Callers : d # c => caller'[d] = caller[d]
    BY <1>0 DEF RealtimeTypeInv
  <2>2. caller'[c].sock = s
    BY <1>0 DEF RealtimeTypeInv, Call
  <2>3. ASSUME NEW d \in Callers, d # c, caller[d].pc = "waiting" PROVE handshake'[caller[d].sock] = "pending"
    <3>1. handshake[caller[d].sock] = "pending" /\ caller[d].sock \in Sockets
      BY <1>0, <2>3 DEF Resuming, RealtimeTypeInv
    <3> QED
      BY <1>3, <3>1
  <2> QED
    BY <1>3, <2>1, <2>2, <2>3 DEF Resuming
<1> QED
  BY <1>0, <1>1, <1>2, <1>3, <1>4 DEF ChannelInv

\* A call goes on, or ends, after its handshake.
LEMMA ResumeKeeps ==
    ASSUME RealtimeTypeInv, ChannelInv, NEW c \in Callers, Resume(c)
    PROVE  RealtimeTypeInv' /\ ChannelInv'
<1>0. /\ c \in Resuming /\ UNCHANGED <<signedIn, current, connecting, link, handshake, drops>>
      /\ NoLink \notin Sockets
  BY DEF Resume, NoLink, Sockets
<1>1. CASE handshake[caller[c].sock] = "done"
  <2>1. Proceed(c, TRUE)
    BY <1>1 DEF Resume
  <2>2. caller[c].sock \in Sockets /\ link[caller[c].sock] = "joined"
    BY <1>0, <1>1 DEF ChannelInv, Resuming, RealtimeTypeInv
  <2>3. current # NoLink /\ link[current] = "joined"
    BY <1>0, <2>2 DEF ChannelInv
  <2> QED
    BY <1>0, <2>1, <2>3, ProceedKeeps
<1>2. CASE handshake[caller[c].sock] # "done"
  <2>1. /\ caller' = [caller EXCEPT ![c] = Call("idle", NoLink)]
        /\ UNCHANGED <<registered, hearing, deaf, asked, waited>>
    BY <1>2 DEF Resume
  <2>2. RealtimeTypeInv' /\ \A d \in Callers : caller'[d].pc = "waiting" => caller'[d] = caller[d]
    BY <1>0, <2>1 DEF RealtimeTypeInv, Call
  <2>3. Resuming' \subseteq Resuming /\ \A d \in Resuming' : caller'[d] = caller[d]
    BY <1>0, <2>2 DEF Resuming
  <2> QED
    BY <1>0, <2>1, <2>2, <2>3 DEF ChannelInv
<1> QED
  BY <1>1, <1>2

\* Of a connection or a handshake: only a socket in the room ends its handshake well, and
\* the request is given up with the connection.
LEMMA LinkKeeps ==
    ASSUME RealtimeTypeInv, ChannelInv, NEW s \in Sockets, Resuming = {},
           UNCHANGED <<current, caller, registered, hearing, deaf, waited>>,
           \/ link' = link
           \/ /\ link[s] \notin {"none", "gone"}
              /\ \E state \in {"dialing", "open", "joined", "refused", "down"} : link' = [link EXCEPT ![s] = state],
           \/ UNCHANGED <<connecting, handshake>>
           \/ Settle(s, "failed")
           \/ Settle(s, "done") /\ link'[s] = "joined",
           \/ asked' = asked /\ (asked = s => link[s] # "joined" \/ link'[s] = "joined")
           \/ asked' = IF asked = s THEN NoLink ELSE asked
    PROVE  RealtimeTypeInv' /\ ChannelInv'
<1>0. NoLink \notin Sockets
  BY DEF NoLink, Sockets
<1>1. link' \in [Sockets -> {"none", "dialing", "open", "joined", "refused", "down", "gone"}]
      /\ \A t \in Sockets : t # s => link'[t] = link[t]
  BY DEF RealtimeTypeInv
<1>2. /\ handshake' \in [Sockets -> {"none", "pending", "done", "failed"}]
      /\ \A t \in Sockets : t # s => handshake'[t] = handshake[t]
      /\ handshake'[s] = handshake[s] \/ handshake'[s] = "failed" \/ (handshake'[s] = "done" /\ link'[s] = "joined")
      /\ connecting' = NoLink \/ (connecting' = connecting /\ handshake' = handshake)
  BY DEF RealtimeTypeInv, Settle
<1>3. RealtimeTypeInv'
  BY <1>1, <1>2 DEF RealtimeTypeInv
<1>4. \A t \in Sockets : link'[t] \notin {"none", "gone"} => t = current'
  BY <1>1 DEF ChannelInv
<1>5. ASSUME NEW c \in Resuming', handshake'[caller'[c].sock] = "done" PROVE link'[caller'[c].sock] = "joined"
  <2>1. c \in Callers /\ caller[c].pc = "waiting" /\ caller'[c] = caller[c]
    BY <1>5 DEF Resuming
  <2>2. handshake[caller[c].sock] = "pending" /\ caller[c].sock \in Sockets
    BY <2>1 DEF Resuming, RealtimeTypeInv
  <2>3. caller[c].sock = s
    BY <1>2, <1>5, <2>1, <2>2
  <2> QED
    BY <1>2, <1>5, <2>1, <2>2, <2>3
<1>6. asked' = NoLink \/ (asked' = asked /\ (asked' = s => link[s] # "joined" \/ link'[s] = "joined"))
  OBVIOUS
<1>7. asked' # NoLink /\ waited' /\ ~deaf' => link'[asked'] = "joined" /\ hearing' = asked'
  <2> SUFFICES ASSUME asked' # NoLink, waited', ~deaf' PROVE link'[asked'] = "joined" /\ hearing' = asked'
    OBVIOUS
  <2>1. asked' = asked /\ link[asked] = "joined" /\ hearing = asked /\ asked \in Sockets
    BY <1>6 DEF ChannelInv, RealtimeTypeInv
  <2>2. CASE asked = s
    BY <1>6, <2>1, <2>2
  <2>3. CASE asked # s
    BY <1>1, <2>1, <2>3
  <2> QED
    BY <2>1, <2>2, <2>3
<1>8. connecting' # NoLink => handshake'[connecting'] = "pending"
  BY <1>2 DEF ChannelInv
<1>9. /\ registered' /\ ~deaf' => hearing' = current'
      /\ asked' # NoLink => registered'
  BY <1>6 DEF ChannelInv
<1> QED
  BY <1>3, <1>4, <1>5, <1>7, <1>8, <1>9 DEF ChannelInv

\* Every step keeps the channel.
LEMMA ChannelNext ==
    RealtimeTypeInv /\ ChannelInv /\ [RealtimeNext]_realtimeVars => RealtimeTypeInv' /\ ChannelInv'
<1> SUFFICES ASSUME RealtimeTypeInv, ChannelInv, [RealtimeNext]_realtimeVars PROVE RealtimeTypeInv' /\ ChannelInv'
  OBVIOUS
<1>1. ASSUME UNCHANGED <<current, connecting, link, handshake, caller, registered, hearing, asked, waited, deaf>>
      PROVE  RealtimeTypeInv' /\ ChannelInv'
  BY <1>1 DEF RealtimeTypeInv, ChannelInv, Resuming
<1>2. CASE SignIn \/ UNCHANGED realtimeVars
  BY <1>1, <1>2 DEF SignIn, realtimeVars
<1>3. ASSUME NEW c \in Callers, ReturnUnconnected(c) PROVE RealtimeTypeInv' /\ ChannelInv'
  BY <1>3, ProceedKeeps DEF ReturnUnconnected
<1>4. ASSUME NEW s \in Sockets, TimeOutHandshake(s) PROVE RealtimeTypeInv' /\ ChannelInv'
  BY <1>4, LinkKeeps DEF TimeOutHandshake
<1>5. ASSUME NEW s \in Sockets, Connect(s) PROVE RealtimeTypeInv' /\ ChannelInv'
  BY <1>5, LinkKeeps DEF Connect, LinkBecomes
<1>6. ASSUME NEW s \in Sockets, HandleConnection(s) PROVE RealtimeTypeInv' /\ ChannelInv'
  <2>1. /\ Resuming = {} /\ link[s] = "open" /\ link' = [link EXCEPT ![s] = "joined"] /\ Settle(s, "done")
        /\ UNCHANGED <<current, caller, registered, hearing, deaf, waited, asked>>
    BY <1>6 DEF HandleConnection, LinkBecomes
  <2>2. link'[s] = "joined"
    BY <2>1 DEF RealtimeTypeInv
  <2> QED
    BY <2>1, <2>2, LinkKeeps
<1>7. ASSUME NEW s \in Sockets, Refuse(s) \/ LoseConnection(s) \/ FailToConnect(s)
      PROVE  RealtimeTypeInv' /\ ChannelInv'
  <2>1. Resuming = {} /\ asked' = IF asked = s THEN NoLink ELSE asked
    BY <1>7 DEF Refuse, LoseConnection, FailToConnect, BreakLink
  <2>2. /\ link[s] \notin {"none", "gone"}
        /\ \E state \in {"refused", "down"} : LinkBecomes(s, state)
        /\ UNCHANGED <<connecting, handshake>> \/ Settle(s, "failed")
    BY <1>7 DEF Refuse, LoseConnection, FailToConnect, Connected
  <2> QED
    BY <2>1, <2>2, LinkKeeps DEF LinkBecomes
<1>8. ASSUME NEW s \in Sockets, Redial(s) PROVE RealtimeTypeInv' /\ ChannelInv'
  BY <1>8, LinkKeeps DEF Redial, LinkBecomes
<1> QED
  BY <1>2, <1>3, <1>4, <1>5, <1>6, <1>7, <1>8, AskKeeps, DialKeeps, ResumeKeeps DEF RealtimeNext

\* The code the app asks for after a handshake reaches it: whoever's handshake it was,
\* the socket is in the room by then (handleConnection of session.gateway.ts) and, unless
\* the app is deaf already, carries the listener; timeouts, redials and a second caller
\* do not change it, a dropped connection ends the wait.
THEOREM CodesReachTheApp == RealtimeSpec => []CodeReachesApp
<1>1. RealtimeTypeInv /\ ChannelInv => CodeReachesApp
  BY DEF ChannelInv, CodeReachesApp, Reaches
<1> QED
  BY ChannelInit, ChannelNext, <1>1, PTL DEF RealtimeSpec

-----------------------------------------------------------------------------
(* MediaAdoption *)

MediaTypeInv ==
    /\ upload \in [Uploads -> [pc : {"new", "refused", "saving", "saved", "done"}, type : Types]]
    /\ media \in [Uploads -> {"none", "free"} \cup Creations]
    /\ stored \subseteq Uploads
    /\ creation \in [Creations -> [pc : {"new", "refused", "adopted", "taken", "created", "loaded", "failed", "cleared"},
                                   ids : SUBSET Uploads, loaded : SUBSET Uploads]]
    /\ raced \subseteq Creations

Pending(c) == creation[c].pc \in {"adopted", "taken"}
Exists(c) == creation[c].pc \in {"created", "loaded"}

\* A row has an upload behind it that has ended, and a file.
RowsHaveFiles ==
    \A m \in Uploads : /\ upload[m].pc \in {"saved", "done"} => m \in stored
                       /\ media[m] # "none" => upload[m].pc = "done"

\* A campaign is made of media that are there, of one type; only campaigns that exist own rows.
CampaignsAreSound ==
    /\ \A c \in Creations : Pending(c) \/ Exists(c) =>
           /\ \A m \in creation[c].ids : upload[m].pc = "done"
           /\ \A m, n \in creation[c].ids : upload[m].type = upload[n].type
    /\ \A m \in Uploads : media[m] \in Creations => Exists(media[m])

\* Who did not race adopts free media, and owns exactly those it adopted, which nobody else is about to take.
UnracedKeep ==
    \A c \in Creations \ raced :
        /\ Pending(c) => \A m \in creation[c].ids : Free(m)
        /\ Exists(c) => /\ \A m \in Uploads : media[m] = c <=> m \in creation[c].ids
                        /\ \A d \in Creations : Pending(d) => creation[c].ids \cap creation[d].ids = {}
        /\ creation[c].pc = "loaded" => creation[c].loaded = creation[c].ids

MediaInv == MediaTypeInv /\ RowsHaveFiles /\ CampaignsAreSound /\ UnracedKeep

LEMMA MediaInit_Inv == MediaInit => MediaInv
BY MediaAssumption
   DEF MediaInit, MediaInv, MediaTypeInv, RowsHaveFiles, CampaignsAreSound, UnracedKeep, Pending, Exists, Types

\* An upload adds media nobody has adopted.
LEMMA UploadsKeepMedia ==
    ASSUME MediaInv, NEW m \in Uploads,
           \/ \E type \in Types, listed \in BOOLEAN, size \in Sizes : Upload(m, type, listed, size)
           \/ Save(m) \/ CreateRow(m)
    PROVE  MediaInv'
<1> USE DEF MediaInv
<1>1. creation' = creation /\ raced' = raced
  BY DEF Upload, Save, CreateRow
<1>2. /\ MediaTypeInv'
      /\ upload[m].pc \in {"new", "saving", "saved"}
      /\ \A n \in Uploads \ {m} : upload'[n] = upload[n] /\ media'[n] = media[n]
      /\ upload'[m].pc = "done" => media'[m] = "free"
      /\ upload'[m].pc # "done" => media'[m] = media[m]
      /\ stored \subseteq stored'
      /\ upload'[m].pc \in {"saved", "done"} => m \in stored'
  BY DEF Upload, Save, CreateRow, MediaTypeInv, RowsHaveFiles
<1>3. media[m] = "none" /\ media'[m] \in {"none", "free"}
  BY <1>2 DEF RowsHaveFiles
<1>4. RowsHaveFiles'
  BY <1>2, <1>3 DEF RowsHaveFiles
<1>5. \A c \in Creations : Pending(c) \/ Exists(c) => m \notin creation[c].ids
  BY <1>2 DEF CampaignsAreSound
<1>6. \A c \in Creations : creation[c].ids \subseteq Uploads
  BY DEF MediaTypeInv
<1>7. CampaignsAreSound'
  BY <1>1, <1>2, <1>3, <1>5, <1>6, MediaAssumption DEF CampaignsAreSound, Pending, Exists
<1>8. UnracedKeep'
  BY <1>1, <1>2, <1>3, <1>5, <1>6, MediaAssumption DEF UnracedKeep, Pending, Exists, Free
<1> QED
  BY <1>2, <1>4, <1>7, <1>8

\* A creation that reads or waits changes nothing for the others.
LEMMA PendingKeepMedia ==
    ASSUME MediaInv, NEW c \in Creations,
           \/ \E ids \in SUBSET Uploads : Adopt(c, ids)
           \/ Take(c) \/ Rollback(c)
    PROVE  MediaInv'
<1> USE DEF MediaInv
<1>1. /\ UNCHANGED <<upload, media, stored, raced>>
      /\ ~Exists(c) /\ ~Exists(c)'
      /\ \A d \in Creations \ {c} : creation'[d] = creation[d]
      /\ MediaTypeInv'
      /\ RowsHaveFiles'
  BY DEF Adopt, Take, Rollback, MediaTypeInv, RowsHaveFiles, Exists
<1>2. Pending(c)' =>
          /\ creation'[c].ids \subseteq Uploads
          /\ \A m \in creation'[c].ids : upload[m].pc = "done"
          /\ \A m, n \in creation'[c].ids : upload[m].type = upload[n].type
  BY DEF Adopt, Take, Rollback, Pending, MediaTypeInv, RowsHaveFiles, CampaignsAreSound, Free
<1>3. Pending(c)' => \/ \A m \in creation'[c].ids : Free(m)
                     \/ Pending(c) /\ creation'[c].ids = creation[c].ids
  BY DEF Adopt, Take, Rollback, Pending, MediaTypeInv
<1>4. CampaignsAreSound'
  BY <1>1, <1>2 DEF CampaignsAreSound, Pending, Exists, MediaTypeInv
<1>5. UnracedKeep'
  <2> SUFFICES ASSUME NEW d \in Creations \ raced
               PROVE  /\ Pending(d)' => \A m \in creation'[d].ids : Free(m)
                      /\ Exists(d)' => /\ \A m \in Uploads : media[m] = d <=> m \in creation'[d].ids
                                       /\ \A e \in Creations : Pending(e)' => creation'[d].ids \cap creation'[e].ids = {}
                      /\ creation'[d].pc = "loaded" => creation'[d].loaded = creation'[d].ids
    BY <1>1 DEF UnracedKeep, Pending, Exists, Free
  <2>1. CASE d = c
    BY <2>1, <1>1, <1>3 DEF UnracedKeep, Pending, Exists
  <2>2. CASE d # c
    <3>1. ASSUME Exists(d)', NEW e \in Creations, Pending(e)'
          PROVE  creation'[d].ids \cap creation'[e].ids = {}
      <4>1. Exists(d) /\ creation'[d] = creation[d]
        BY <3>1, <2>2, <1>1 DEF Exists
      <4>2. CASE e # c \/ (Pending(e) /\ creation'[e].ids = creation[e].ids)
        BY <4>1, <4>2, <3>1, <1>1 DEF UnracedKeep, Pending
      <4>3. CASE e = c /\ \A m \in creation'[c].ids : Free(m)
        BY <4>1, <4>3, <3>1, <1>2, MediaAssumption DEF UnracedKeep, Free
      <4> QED
        BY <4>2, <4>3, <3>1, <1>3
    <3> QED
      BY <3>1, <2>2, <1>1 DEF UnracedKeep, Pending, Exists
  <2> QED
    BY <2>1, <2>2
<1> QED
  BY <1>1, <1>4, <1>5

\* A commit makes those who adopted the same media part of a race.
LEMMA CommitKeepsMedia ==
    ASSUME MediaInv, NEW c \in Creations, Commit(c)
    PROVE  MediaInv'
<1> USE DEF MediaInv
<1> DEFINE ids == creation[c].ids
           rivals == {d \in Creations \ {c} : Pending(d) /\ creation[d].ids \cap ids # {}}
<1>1. /\ UNCHANGED <<upload, stored>>
      /\ Pending(c) /\ ~Exists(c) /\ Exists(c)' /\ ~Pending(c)'
      /\ creation'[c].pc = "created"
      /\ creation'[c].ids = ids /\ ids \subseteq Uploads
      /\ \A d \in Creations \ {c} : creation'[d] = creation[d]
      /\ media' = [m \in Uploads |-> IF m \in ids /\ media[m] # "none" THEN c ELSE media[m]]
  BY DEF Commit, Pending, Exists, MediaTypeInv
<1>2. raced' = raced \cup rivals \cup (IF rivals = {} THEN {} ELSE {c})
  BY DEF Commit, Pending
<1> HIDE DEF ids, rivals
<1>3. MediaTypeInv'
  <2>1. rivals \subseteq Creations
    BY DEF rivals
  <2>2. creation' = [creation EXCEPT ![c].pc = "created"]
    BY DEF Commit
  <2> QED
    BY <2>1, <2>2, <1>1, <1>2 DEF MediaTypeInv
<1>4. RowsHaveFiles'
  BY <1>1 DEF RowsHaveFiles
<1>5. CampaignsAreSound'
  BY <1>1 DEF CampaignsAreSound, Pending, Exists, ids, MediaTypeInv
<1>6. UnracedKeep'
  <2> SUFFICES ASSUME NEW d \in Creations, d \notin raced'
               PROVE  /\ Pending(d)' => \A m \in creation'[d].ids : media'[m] = "free"
                      /\ Exists(d)' => /\ \A m \in Uploads : media'[m] = d <=> m \in creation'[d].ids
                                       /\ \A e \in Creations : Pending(e)' => creation'[d].ids \cap creation'[e].ids = {}
                      /\ creation'[d].pc = "loaded" => creation'[d].loaded = creation'[d].ids
    BY DEF UnracedKeep, Pending, Exists, Free
  <2>1. d \notin raced /\ d \notin rivals /\ (d = c => rivals = {})
    BY <1>2
  <2>2. CASE d = c
    <3>1. \A m \in ids : media[m] = "free"
      BY <2>1, <2>2, <1>1 DEF UnracedKeep, Free, ids
    <3>2. \A m \in Uploads : media[m] # c
      BY <1>1 DEF CampaignsAreSound
    <3>3. ASSUME NEW e \in Creations, Pending(e)'
          PROVE  ids \cap creation'[e].ids = {}
      BY <3>3, <2>1, <2>2, <1>1 DEF rivals, Pending
    <3> QED
      BY <3>1, <3>2, <3>3, <2>2, <1>1
  <2>3. CASE d # c
    <3>1. creation'[d] = creation[d]
      BY <2>3, <1>1
    <3>2. ASSUME Pending(d)'
          PROVE  \A m \in creation'[d].ids : media'[m] = "free"
      <4>1. Pending(d) /\ creation[d].ids \cap ids = {}
        BY <3>1, <3>2, <2>1, <2>3 DEF rivals, Pending
      <4> QED
        BY <4>1, <3>1, <2>1, <1>1 DEF UnracedKeep, Free, MediaTypeInv
    <3>3. ASSUME Exists(d)'
          PROVE  /\ \A m \in Uploads : media'[m] = d <=> m \in creation'[d].ids
                 /\ \A e \in Creations : Pending(e)' => creation'[d].ids \cap creation'[e].ids = {}
      <4>1. Exists(d)
        BY <3>1, <3>3 DEF Exists
      <4>2. creation[d].ids \cap ids = {}
        BY <4>1, <2>1, <1>1 DEF UnracedKeep, ids
      <4>3. \A e \in Creations : Pending(e)' => e # c /\ Pending(e) /\ creation'[e] = creation[e]
        BY <1>1 DEF Pending
      <4> QED
        BY <4>1, <4>2, <4>3, <3>1, <2>1, <2>3, <1>1 DEF UnracedKeep
    <3> QED
      BY <3>1, <3>2, <3>3, <2>1 DEF UnracedKeep
  <2> QED
    BY <2>2, <2>3
<1> QED
  BY <1>3, <1>4, <1>5, <1>6

\* Loading reads the rows and the files.
LEMMA LoadsKeepMedia ==
    ASSUME MediaInv, NEW c \in Creations, LoadMedia(c) \/ LoadAgain(c)
    PROVE  MediaInv'
<1> USE DEF MediaInv
<1>1. /\ UNCHANGED <<upload, media, stored, raced>>
      /\ Exists(c) /\ Exists(c)' /\ ~Pending(c) /\ ~Pending(c)'
      /\ creation'[c].ids = creation[c].ids
      /\ creation'[c].pc = "loaded" => creation'[c].loaded = {m \in Uploads : media[m] = c} \cap stored
      /\ \A d \in Creations \ {c} : creation'[d] = creation[d]
  BY DEF LoadMedia, LoadAgain, MediaTypeInv, Pending, Exists
<1>2. MediaTypeInv'
  <2>1. PICK ids \in SUBSET Uploads, pc \in {"created", "loaded"} :
            creation' = [creation EXCEPT ![c].loaded = ids, ![c].pc = pc]
    <3>1. CASE LoadMedia(c)
      BY <3>1 DEF LoadMedia, MediaTypeInv
    <3>2. CASE LoadAgain(c)
      <4>1. creation' = [creation EXCEPT ![c].loaded = {}, ![c].pc = "created"]
        BY <3>2 DEF LoadAgain, MediaTypeInv
      <4> QED
        BY <4>1
    <3> QED
      BY <3>1, <3>2
  <2>2. creation' \in [Creations -> [pc : {"new", "refused", "adopted", "taken", "created", "loaded", "failed", "cleared"},
                                    ids : SUBSET Uploads, loaded : SUBSET Uploads]]
    <3>1. creation[c] \in [pc : {"new", "refused", "adopted", "taken", "created", "loaded", "failed", "cleared"},
                           ids : SUBSET Uploads, loaded : SUBSET Uploads]
      BY DEF MediaTypeInv
    <3>2. creation' = [creation EXCEPT ![c] = [creation[c] EXCEPT !.loaded = ids, !.pc = pc]]
      BY <2>1, <3>1 DEF MediaTypeInv
    <3> QED
      BY <3>1, <3>2 DEF MediaTypeInv
  <2> QED
    BY <2>2, <1>1 DEF MediaTypeInv
<1>3. RowsHaveFiles'
  BY <1>1 DEF RowsHaveFiles
<1>4. CampaignsAreSound'
  BY <1>1 DEF CampaignsAreSound, Pending, Exists
<1>5. c \notin raced /\ creation'[c].pc = "loaded" => creation'[c].loaded = creation[c].ids
  <2> SUFFICES ASSUME c \notin raced, creation'[c].pc = "loaded"
               PROVE  creation'[c].loaded = creation[c].ids
    OBVIOUS
  <2>1. \A m \in Uploads : media[m] = c <=> m \in creation[c].ids
    BY <1>1 DEF UnracedKeep
  <2>2. \A m \in creation[c].ids : m \in Uploads /\ m \in stored
    BY <1>1 DEF CampaignsAreSound, RowsHaveFiles, MediaTypeInv
  <2> QED
    BY <2>1, <2>2, <1>1
<1>6. \A d \in Creations : /\ Pending(d)' <=> Pending(d)
                           /\ Exists(d)' <=> Exists(d)
                           /\ creation'[d].ids = creation[d].ids
  BY <1>1 DEF Pending, Exists
<1>7. UnracedKeep'
  <2> SUFFICES ASSUME NEW d \in Creations \ raced
               PROVE  /\ Pending(d)' => \A m \in creation'[d].ids : Free(m)
                      /\ Exists(d)' => /\ \A m \in Uploads : media[m] = d <=> m \in creation'[d].ids
                                       /\ \A e \in Creations : Pending(e)' => creation'[d].ids \cap creation'[e].ids = {}
                      /\ creation'[d].pc = "loaded" => creation'[d].loaded = creation'[d].ids
    BY <1>1 DEF UnracedKeep, Pending, Exists, Free
  <2> QED
    BY <1>1, <1>5, <1>6 DEF UnracedKeep
<1> QED
  BY <1>2, <1>3, <1>4, <1>7

\* Cleared campaigns lose their rows, and nobody else does.
LEMMA ClearKeepsMedia ==
    ASSUME MediaInv, ClearHistory
    PROVE  MediaInv'
<1> USE DEF MediaInv
<1>1. /\ UNCHANGED <<upload, stored, raced>>
      /\ \A c \in Creations : /\ ~Exists(c)'
                              /\ Pending(c)' <=> Pending(c)
                              /\ Pending(c) => creation'[c] = creation[c]
                              /\ creation'[c].pc # "loaded"
      /\ \A m \in Uploads : /\ media'[m] \in {"none", media[m]}
                            /\ media[m] = "free" => media'[m] = "free"
                            /\ media[m] \in Creations /\ Exists(media[m]) => media'[m] = "none"
  BY MediaAssumption DEF ClearHistory, MediaTypeInv, Pending, Exists
<1>2. MediaTypeInv'
  BY DEF ClearHistory, MediaTypeInv
<1>3. RowsHaveFiles'
  BY <1>1 DEF RowsHaveFiles
<1>4. CampaignsAreSound'
  BY <1>1, MediaAssumption DEF CampaignsAreSound, Pending
<1>5. UnracedKeep'
  BY <1>1 DEF UnracedKeep, Free, MediaTypeInv
<1> QED
  BY <1>2, <1>3, <1>4, <1>5

LEMMA MediaNext_Inv == MediaInv /\ [MediaNext]_mediaVars => MediaInv'
<1> SUFFICES ASSUME MediaInv, [MediaNext]_mediaVars
             PROVE  MediaInv'
  OBVIOUS
<1>1. CASE UNCHANGED mediaVars
  BY <1>1 DEF mediaVars, MediaInv, MediaTypeInv, RowsHaveFiles, CampaignsAreSound, UnracedKeep, Pending, Exists, Free
<1>2. CASE MediaNext
  BY <1>2, UploadsKeepMedia, PendingKeepMedia, CommitKeepsMedia, LoadsKeepMedia, ClearKeepsMedia DEF MediaNext
<1> QED
  BY <1>1, <1>2

\* A campaign that did not race for a medium sends all the media it was created with, of one type, for all
\* uploads and campaigns (adoptMedia and createCampaign of campaigns.service.ts).
THEOREM MediaStayAdopted == MediaSpec => []MediaStay
<1>1. MediaInv => MediaStay
  BY DEF MediaInv, UnracedKeep, CampaignsAreSound, MediaTypeInv, MediaStay, Exists
<1> QED
  BY <1>1, MediaInit_Inv, MediaNext_Inv, PTL DEF MediaSpec

-----------------------------------------------------------------------------
(* Alerts *)

LoopStates == [pc : {"ended", "asking", "telling", "mailing"}, user : Users, seen : BOOLEAN]

AlertsTypeInv ==
    /\ condition \in [Kinds \X Users -> BOOLEAN]
    /\ loop \in [Cycles -> [Kinds -> LoopStates]]
    /\ unalerted \in [Kinds \X Users -> 0 .. Cooldown]
    /\ raised \in [Kinds \X Users -> {0, 1}]
    /\ mishaps \in Nat

\* The map of the times of the last alerts is true to the alerts raised.
AlertsInv == AlertsTypeInv /\ since = unalerted

\* The loop of the next user.
LEMMA NextUserType == \A l \in LoopStates : NextUser(l) \in LoopStates
<1>1. Ended \in LoopStates
  BY AlertsAssumption DEF LoopStates, Ended, Users
<1>2. ASSUME NEW l \in LoopStates, l.user < LastUser
      PROVE  [Ended EXCEPT !.pc = "asking", !.user = l.user + 1] \in LoopStates
  <2>1. l.user + 1 \in Users
    BY <1>2, AlertsAssumption DEF LoopStates, Users
  <2> QED
    BY <1>1, <2>1 DEF LoopStates
<1> QED
  BY <1>1, <1>2 DEF NextUser

\* The initial state.
LEMMA AlertsInit_Inv == AlertsInit => AlertsInv
BY AlertsAssumption DEF AlertsInit, AlertsInv, AlertsTypeInv, EachKey, NoLoop, Ended, LoopStates, Users

\* A step of a loop leaves it in its type.
LEMMA LoopType ==
    ASSUME AlertsTypeInv, NEW c \in Cycles, NEW k \in Kinds, NEW l \in LoopStates,
           loop' = [loop EXCEPT ![c][k] = l]
    PROVE  loop' \in [Cycles -> [Kinds -> LoopStates]]
<1>1. loop[c] \in [Kinds -> LoopStates]
  BY DEF AlertsTypeInv
<1>2. [loop[c] EXCEPT ![k] = l] \in [Kinds -> LoopStates]
  BY <1>1
<1>3. loop' = [loop EXCEPT ![c] = [loop[c] EXCEPT ![k] = l]]
  OBVIOUS
<1> QED
  BY <1>2, <1>3 DEF AlertsTypeInv

\* Every step keeps the invariant, and is a step of the policy or none.
LEMMA AlertsStep ==
    ASSUME AlertsInv, [AlertsNext]_alertVars
    PROVE  AlertsInv' /\ [Policy!PolicyNext]_(Policy!policyVars)
<1> USE DEF AlertsInv
<1> DEFINE Still == condition' = condition /\ unalerted' = unalerted /\ raised' = raised
<1>0. Still => UNCHANGED Policy!policyVars
  BY DEF Policy!policyVars
<1>1. CASE UNCHANGED alertVars
  BY <1>1, <1>0 DEF alertVars, AlertsTypeInv
<1>2. CASE TickClock
  <2>1. AlertsInv'
    BY <1>2, AlertsAssumption DEF TickClock, AlertsTypeInv
  <2>2. Policy!PolicyTick
    BY <1>2 DEF TickClock, Policy!PolicyTick
  <2> QED
    BY <2>1, <2>2 DEF Policy!PolicyNext
<1>3. CASE Restart
  <2>1. AlertsInv'
    BY <1>3, AlertsAssumption DEF Restart, Mishap, AlertsTypeInv, EachKey, NoLoop, Ended, LoopStates, Users
  <2>2. Policy!PolicyRestart
    BY <1>3 DEF Restart, EachKey, Policy!PolicyRestart
  <2> QED
    BY <2>1, <2>2 DEF Policy!PolicyNext
<1>4. ASSUME NEW k \in Kinds, NEW u \in Users, ConditionChanges(k, u)
      PROVE  AlertsInv' /\ Policy!PolicyNext
  <2>1. AlertsInv'
    BY <1>4 DEF ConditionChanges, AlertsTypeInv
  <2>2. <<k, u>> \in Kinds \X Users /\ Policy!PolicyChange(<<k, u>>)
    BY <1>4 DEF ConditionChanges, Policy!PolicyChange
  <2> QED
    BY <2>1, <2>2 DEF Policy!PolicyNext
<1>5. ASSUME NEW c \in Cycles, StartCycle(c)
      PROVE  AlertsInv' /\ Still
  BY <1>5, AlertsAssumption DEF StartCycle, AlertsTypeInv, Ended, LoopStates, Users
<1>6. ASSUME NEW c \in Cycles, NEW k \in Kinds, LoopStep(c, k) \/ AskFails(c, k)
      PROVE  AlertsInv' /\ [Policy!PolicyNext]_(Policy!policyVars)
  <2> DEFINE l == loop[c][k]
  <2>1. l \in LoopStates
    BY DEF AlertsTypeInv
  <2>2. CASE Ask(c, k)
    <3>1. [l EXCEPT !.pc = "telling", !.seen = condition[k, l.user]] \in LoopStates
      BY <2>1 DEF AlertsTypeInv, LoopStates
    <3> QED
      BY <2>2, <3>1, <1>0, LoopType DEF Ask, AlertsTypeInv
  <2>3. CASE TriggerAlert(c, k)
    <3>1. [l EXCEPT !.pc = "mailing"] \in LoopStates
      BY <2>1 DEF LoopStates
    <3>2. loop' = [loop EXCEPT ![c][k] = [l EXCEPT !.pc = "mailing"]]
      BY <2>3 DEF TriggerAlert, AlertsTypeInv
    <3> DEFINE key == <<k, l.user>>
    <3>3. key \in Kinds \X Users
      BY <2>1 DEF LoopStates
    <3>4. /\ since' = [since EXCEPT ![key] = 0] /\ unalerted' = [unalerted EXCEPT ![key] = 0]
          /\ raised' = [raised EXCEPT ![key] = 1 - @]
          /\ unalerted[key] = Cooldown
          /\ UNCHANGED <<condition, mishaps>>
      BY Zenon, <2>3 DEF TriggerAlert, Raise
    <3> HIDE DEF key
    <3>5. loop' \in [Cycles -> [Kinds -> LoopStates]]
      BY <3>1, <3>2, LoopType
    <3>6. AlertsInv'
      BY <3>3, <3>4, <3>5, AlertsAssumption DEF AlertsTypeInv
    <3>7. Policy!PolicyAlert(key)
      BY <3>4 DEF Policy!PolicyAlert
    <3> QED
      BY <3>3, <3>6, <3>7 DEF Policy!PolicyNext
  <2>4. CASE NothingToTell(c, k) \/ Mailed(c, k)
    <3>1. loop' = [loop EXCEPT ![c][k] = NextUser(l)]
      BY <2>4 DEF NothingToTell, Mailed, AlertsTypeInv
    <3> QED
      BY <2>1, <2>4, <3>1, <1>0, NextUserType, LoopType DEF NothingToTell, Mailed, AlertsTypeInv
  <2>5. CASE AskFails(c, k)
    <3>1. Ended \in LoopStates
      BY AlertsAssumption DEF Ended, LoopStates, Users
    <3> QED
      BY <2>5, <3>1, <1>0, LoopType DEF AskFails, Mishap, AlertsTypeInv
  <2> QED
    BY <1>6, <2>2, <2>3, <2>4, <2>5 DEF LoopStep
<1> QED
  BY <1>0, <1>1, <1>2, <1>3, <1>4, <1>5, <1>6 DEF AlertsNext

\* However cycles overlap, queries fail and processes restart, an alert is raised only when the last one of its
\* kind and user is a cooldown away (triggerAlert of alerts.service.ts): the safety part of ImplementsPolicy.
THEOREM AlertsKeepPolicy == AlertsSpec => Policy!PolicyInit /\ [][Policy!PolicyNext]_(Policy!policyVars)
<1>1. AlertsInit => Policy!PolicyInit
  BY DEF AlertsInit, EachKey, Policy!PolicyInit
<1> QED
  BY <1>1, AlertsInit_Inv, AlertsStep, PTL DEF AlertsSpec

-----------------------------------------------------------------------------
(* PhoneNumbers *)

Digits == Seq(Nat)

\* A sequence that begins with another one splits into the two.
LEMMA SplitPrefix ==
    ASSUME NEW s \in Digits, NEW t \in Digits
    PROVE  /\ SubSeq(s \o t, 1, Len(s)) = s
           /\ Drop(s \o t, Len(s)) = t
           /\ StartsWith(s \o t, s)
<1>1. /\ s \o t \in Digits /\ Len(s \o t) = Len(s) + Len(t) /\ Len(s) \in Nat /\ Len(t) \in Nat
      /\ \A i \in 1 .. Len(s) + Len(t) : (s \o t)[i] = IF i <= Len(s) THEN s[i] ELSE t[i - Len(s)]
  BY ConcatProperties, LenProperties DEF Digits
<1> DEFINE x == s \o t
<1>2. \A i \in 1 .. Len(x) : x[i] \in Nat
  BY <1>1, ElementOfSeq DEF Digits
<1> HIDE DEF x
<1>3. /\ SubSeq(x, 1, Len(s)) \in Digits /\ Len(SubSeq(x, 1, Len(s))) = Len(s)
      /\ \A i \in 1 .. Len(s) : SubSeq(x, 1, Len(s))[i] = x[i]
  <2>1. \A i \in 1 .. Len(s) : x[i] \in Nat
    BY <1>1, <1>2 DEF x
  <2>2. /\ SubSeq(x, 1, Len(s)) \in Seq(Nat)
        /\ Len(SubSeq(x, 1, Len(s))) = IF 1 <= Len(s) THEN Len(s) - 1 + 1 ELSE 0
        /\ \A i \in 1 .. Len(s) - 1 + 1 : SubSeq(x, 1, Len(s))[i] = x[1 + i - 1]
    BY <2>1, <1>1, SubSeqProperties
  <2> QED
    BY <2>2, <1>1 DEF Digits
<1>4. SubSeq(x, 1, Len(s)) = s
  BY <1>1, <1>3, SeqEqual DEF Digits, x
<1>5. /\ Drop(x, Len(s)) \in Digits /\ Len(Drop(x, Len(s))) = Len(t)
      /\ \A i \in 1 .. Len(t) : Drop(x, Len(s))[i] = x[Len(s) + i]
  <2> DEFINE m == Len(s) + 1
             n == Len(s) + Len(t)
  <2>1. m \in Int /\ n \in Int /\ \A i \in m .. n : x[i] \in Nat
    BY <1>1, <1>2 DEF x
  <2>2. Drop(x, Len(s)) = SubSeq(x, m, n)
    BY <1>1 DEF Drop, x
  <2> HIDE DEF m, n
  <2>3. /\ SubSeq(x, m, n) \in Seq(Nat)
        /\ Len(SubSeq(x, m, n)) = IF m <= n THEN n - m + 1 ELSE 0
        /\ \A i \in 1 .. n - m + 1 : SubSeq(x, m, n)[i] = x[m + i - 1]
    BY <2>1, SubSeqProperties
  <2>4. n - m + 1 = Len(t) /\ (IF m <= n THEN n - m + 1 ELSE 0) = Len(t)
    BY <1>1 DEF m, n
  <2>5. \A i \in 1 .. Len(t) : m + i - 1 = Len(s) + i
    BY <1>1 DEF m
  <2> QED
    BY <2>2, <2>3, <2>4, <2>5 DEF Digits
<1>6. \A i \in 1 .. Len(t) : x[Len(s) + i] = t[i]
  BY <1>1 DEF x
<1>7. Drop(x, Len(s)) = t
  BY <1>1, <1>5, <1>6, SeqEqual DEF Digits
<1>8. Len(x) >= Len(s)
  BY <1>1 DEF x
<1> QED
  BY <1>4, <1>7, <1>8 DEF StartsWith, x

\* A sequence with another first digit does not begin with the prefix.
LEMMA OtherPrefix ==
    ASSUME NEW s \in Digits, NEW prefix \in Digits, Len(prefix) >= 1, Len(s) >= 1, s[1] # prefix[1]
    PROVE  ~StartsWith(s, prefix)
<1> SUFFICES ASSUME Len(s) >= Len(prefix), SubSeq(s, 1, Len(prefix)) = prefix
             PROVE  FALSE
  BY DEF StartsWith
<1>1. Len(s) \in Nat /\ Len(prefix) \in Nat
  BY LenProperties DEF Digits
<1>2. \A i \in 1 .. Len(prefix) : s[i] \in Nat
  BY <1>1, ElementOfSeq DEF Digits
<1>3. \A i \in 1 .. Len(prefix) - 1 + 1 : SubSeq(s, 1, Len(prefix))[i] = s[1 + i - 1]
  BY <1>1, <1>2, SubSeqProperties
<1> QED
  BY <1>1, <1>3

\* The short sequences of the module.
LEMMA ShortSequences ==
    /\ CountryCode \in Digits /\ Len(CountryCode) = 2 /\ CountryCode[1] = 5
    /\ <<0>> \in Digits /\ Len(<<0>>) = 1 /\ <<0>>[1] = 0
    /\ <<9>> \in Digits /\ Len(<<9>>) = 1
    /\ << >> \in Digits /\ Len(<< >>) = 0
BY DEF CountryCode, Digits

\* Area codes are two digits, the first not a zero; subscribers are eight.
LEMMA PhoneParts ==
    /\ \A area \in AreaCodes : area \in Digits /\ Len(area) = 2 /\ area[1] \in 1 .. 9
    /\ \A subscriber \in Subscribers : subscriber \in Digits /\ Len(subscriber) = 8
<1>1. ASSUME NEW area \in AreaCodes
      PROVE  area \in Digits /\ Len(area) = 2 /\ area[1] \in 1 .. 9
  <2>1. PICK a \in 1 .. 9, b \in 0 .. 9 : area = <<a, b>>
    BY PhoneAssumption
  <2> QED
    BY <2>1 DEF Digits
<1>2. ASSUME NEW subscriber \in Subscribers
      PROVE  subscriber \in Digits /\ Len(subscriber) = 8
  <2>1. subscriber \in [1 .. 8 -> 0 .. 9]
    BY PhoneAssumption
  <2>2. subscriber \in [1 .. 8 -> Nat] /\ DOMAIN subscriber = 1 .. 8
    BY <2>1
  <2>3. subscriber \in Seq(Nat)
    BY <2>2, SeqDef
  <2> QED
    BY <2>2, <2>3, LenProperties DEF Digits
<1> QED
  BY <1>1, <1>2

\* Concatenation of digits.
LEMMA Joined ==
    ASSUME NEW s \in Digits, NEW t \in Digits
    PROVE  /\ s \o t \in Digits
           /\ Len(s \o t) = Len(s) + Len(t)
           /\ Len(s) \in Nat /\ Len(t) \in Nat
           /\ Len(s) >= 1 => (s \o t)[1] = s[1]
<1>1. /\ s \o t \in Digits /\ Len(s \o t) = Len(s) + Len(t) /\ Len(s) \in Nat /\ Len(t) \in Nat
      /\ \A i \in 1 .. Len(s) + Len(t) : (s \o t)[i] = IF i <= Len(s) THEN s[i] ELSE t[i - Len(s)]
  BY ConcatProperties, LenProperties DEF Digits
<1> QED
  BY <1>1

LEMMA Reassociated ==
    ASSUME NEW s \in Digits, NEW t \in Digits, NEW u \in Digits
    PROVE  (s \o t) \o u = s \o (t \o u)
<1>1. s \in Seq(Nat) /\ t \in Seq(Nat) /\ u \in Seq(Nat)
  BY DEF Digits
<1> QED
  BY SMTT(30), <1>1, ConcatAssociative

LEMMA NothingBefore == ASSUME NEW s \in Digits PROVE << >> \o s = s
BY Zenon, ConcatEmptySeq DEF Digits

\* The country code is dropped before ten or more digits, and only then.
LEMMA CountryCodeDropped ==
    ASSUME NEW s \in Digits, NEW country \in BOOLEAN,
           Len(s) >= 10, s[1] # 5 \/ Len(s) <= 11
    PROVE  WithoutCountryCode((IF country THEN CountryCode ELSE << >>) \o s) = s
<1>1. CASE country
  <2>1. /\ SubSeq(CountryCode \o s, 1, Len(CountryCode)) = CountryCode
        /\ Drop(CountryCode \o s, Len(CountryCode)) = s
        /\ StartsWith(CountryCode \o s, CountryCode)
    BY Zenon, ShortSequences, SplitPrefix
  <2>2. Len(CountryCode \o s) = Len(CountryCode) + Len(s) /\ Len(s) \in Nat
    BY Zenon, ShortSequences, Joined
  <2> DEFINE x == CountryCode \o s
  <2> HIDE DEF x
  <2>3. Len(x) > 11
    BY <2>2, ShortSequences DEF x
  <2>4. Drop(x, 2) = s /\ StartsWith(x, CountryCode)
    BY Zenon, <2>1, ShortSequences DEF x
  <2>5. WithoutCountryCode(x) = s
    BY Zenon, <2>3, <2>4 DEF WithoutCountryCode
  <2> QED
    BY Zenon, <1>1, <2>5 DEF x
<1>2. CASE ~country
  <2>1. << >> \o s = s
    BY NothingBefore
  <2>2. ~(StartsWith(s, CountryCode) /\ Len(s) > 11)
    <3>1. CASE Len(s) <= 11
      <4>1. Len(s) \in Nat
        BY LenProperties DEF Digits
      <4> QED
        BY <3>1, <4>1
    <3>2. CASE s[1] # 5
      <4>1. s[1] # CountryCode[1] /\ Len(s) >= 1 /\ Len(CountryCode) >= 1
        <5>1. Len(s) \in Nat
          BY LenProperties DEF Digits
        <5> QED
          BY <3>2, <5>1, ShortSequences
      <4> QED
        BY Zenon, <4>1, ShortSequences, OtherPrefix
    <3> QED
      BY <3>1, <3>2
  <2>3. WithoutCountryCode(s) = s
    BY Zenon, <2>2 DEF WithoutCountryCode
  <2> QED
    BY Zenon, <1>2, <2>1, <2>3
<1> QED
  BY <1>1, <1>2

\* The trunk zero is dropped before ten or more digits that do not begin with a zero.
LEMMA TrunkZeroDropped ==
    ASSUME NEW s \in Digits, NEW zero \in BOOLEAN, Len(s) >= 10, s[1] # 0
    PROVE  WithoutTrunkZero((IF zero THEN <<0>> ELSE << >>) \o s) = s
<1> DEFINE z == <<0>>
<1>0. z \in Digits /\ Len(z) = 1 /\ z[1] = 0
  BY ShortSequences
<1> HIDE DEF z
<1>1. CASE zero
  <2> DEFINE x == z \o s
  <2>1. Drop(x, 1) = s /\ StartsWith(x, z)
    BY Zenon, <1>0, SplitPrefix
  <2>2. Len(x) = Len(z) + Len(s) /\ Len(s) \in Nat
    BY Zenon, <1>0, Joined
  <2> HIDE DEF x
  <2>3. Len(x) > 10
    BY <2>2, <1>0
  <2>4. WithoutTrunkZero(x) = s
    BY Zenon, <2>1, <2>3 DEF WithoutTrunkZero, z
  <2> QED
    BY Zenon, <1>1, <2>4 DEF x, z
<1>2. CASE ~zero
  <2>1. << >> \o s = s
    BY NothingBefore
  <2>2. s[1] # z[1] /\ Len(s) >= 1 /\ Len(z) >= 1
    <3>1. Len(s) \in Nat
      BY LenProperties DEF Digits
    <3> QED
      BY <3>1, <1>0
  <2>3. ~StartsWith(s, z)
    BY Zenon, <2>2, <1>0, OtherPrefix
  <2>4. WithoutTrunkZero(s) = s
    BY Zenon, <2>3 DEF WithoutTrunkZero, z
  <2> QED
    BY Zenon, <1>2, <2>1, <2>4
<1> QED
  BY <1>1, <1>2

\* Country code and trunk zero are dropped if they were typed, and nothing else is.
LEMMA NationalPart ==
    ASSUME NEW s \in Digits, Len(s) >= 10, Len(s) <= 11, s[1] >= 1, NEW country \in BOOLEAN, NEW zero \in BOOLEAN
    PROVE  LET cc == IF country THEN CountryCode ELSE << >>
               zz == IF zero THEN <<0>> ELSE << >>
           IN  WithoutTrunkZero(WithoutCountryCode(cc \o (zz \o s))) = s
<1> DEFINE cc == IF country THEN CountryCode ELSE << >>
           zz == IF zero THEN <<0>> ELSE << >>
           z == <<0>>
<1>1. zz \o s \in Digits /\ Len(zz \o s) >= 10 /\ ((zz \o s)[1] # 5 \/ Len(zz \o s) <= 11)
  <2>1. CASE zero
    <3>1. z \in Digits /\ Len(z) = 1 /\ z[1] = 0
      BY ShortSequences
    <3> HIDE DEF z
    <3>2. /\ z \o s \in Digits /\ Len(z \o s) = Len(z) + Len(s) /\ Len(s) \in Nat
          /\ Len(z) >= 1 => (z \o s)[1] = z[1]
      BY Zenon, <3>1, Joined
    <3> DEFINE x == z \o s
    <3> HIDE DEF x
    <3>3. x \in Digits /\ Len(x) >= 10 /\ x[1] # 5
      BY <3>1, <3>2 DEF x
    <3> QED
      BY Zenon, <2>1, <3>3 DEF x, z
  <2>2. CASE ~zero
    <3>1. << >> \o s = s
      BY NothingBefore
    <3> QED
      BY Zenon, <2>2, <3>1
  <2> QED
    BY <2>1, <2>2
<1>2. Len(s) >= 10 /\ s[1] # 0
  <2>1. s[1] \in Nat
    BY LenProperties, ElementOfSeq DEF Digits
  <2> QED
    BY <2>1
<1> HIDE DEF zz
<1>3. WithoutCountryCode(cc \o (zz \o s)) = zz \o s
  BY Zenon, <1>1, CountryCodeDropped
<1>4. WithoutTrunkZero(zz \o s) = s
  BY Zenon, <1>2, TrunkZeroDropped DEF zz
<1> QED
  BY Zenon, <1>3, <1>4 DEF zz

\* The subscriber's two numbers are found from either.
LEMMA BothVariants ==
    ASSUME NEW area, NEW subscriber \in Digits, Len(subscriber) = 8, NEW ninth \in BOOLEAN
    PROVE  LET tail == (IF ninth THEN <<9>> ELSE << >>) \o subscriber
           IN  /\ tail \in Digits /\ Len(tail) >= 8 /\ Len(tail) <= 9
               /\ Variants(area, tail) \in {<<subscriber, <<9>> \o subscriber>>, <<<<9>> \o subscriber, subscriber>>}
<1>1. CASE ninth
  <2> DEFINE tail == <<9>> \o subscriber
  <2>1. /\ tail \in Digits /\ Len(tail) = 9
        /\ StartsWith(tail, <<9>>) /\ Drop(tail, 1) = subscriber
    <3> DEFINE nine == <<9>>
    <3>1. nine \in Digits /\ Len(nine) = 1
      BY ShortSequences
    <3> HIDE DEF nine
    <3>2. /\ nine \o subscriber \in Digits /\ Len(nine \o subscriber) = Len(nine) + Len(subscriber)
          /\ StartsWith(nine \o subscriber, nine) /\ Drop(nine \o subscriber, 1) = subscriber
      BY Zenon, <3>1, Joined, SplitPrefix
    <3>3. Len(nine) + Len(subscriber) = 9
      BY <3>1
    <3> QED
      BY Zenon, <3>2, <3>3 DEF nine
  <2> HIDE DEF tail
  <2>2. Variants(area, tail) = <<tail, subscriber>>
    BY <2>1 DEF Variants
  <2> QED
    BY <1>1, <2>1, <2>2 DEF tail
<1>2. CASE ~ninth
  <2>1. << >> \o subscriber = subscriber
    BY ConcatEmptySeq DEF Digits
  <2>2. Variants(area, subscriber) \in {<<subscriber, <<9>> \o subscriber>>, <<<<9>> \o subscriber, subscriber>>}
    BY DEF Variants
  <2>3. Len(subscriber) >= 8 /\ Len(subscriber) <= 9
    OBVIOUS
  <2> QED
    BY Zenon, <1>2, <2>1, <2>2, <2>3
<1> QED
  BY <1>1, <1>2

\* Two candidates are all candidates.
LEMMA FirstTwo ==
    ASSUME NEW S, NEW full \in [1 .. 2 -> S]
    PROVE  /\ Len(full) = 2
           /\ DOMAIN SubSeq(full, 1, 2) = 1 .. 2
           /\ SubSeq(full, 1, 2)[1] = full[1]
           /\ SubSeq(full, 1, 2)[2] = full[2]
<1>1. full \in Seq(S) /\ DOMAIN full = 1 .. 2
  BY SeqDef
<1>2. Len(full) = 2
  BY <1>1, LenProperties
<1>3. SubSeq(full, 1, 2) = full
  BY <1>1, <1>2, SubSeqFull
<1> QED
  BY <1>1, <1>2, <1>3

\* Where at least two numbers may be tried.
TriesBoth == MaxCandidates >= 2

\* Whatever is typed, the same two numbers are tried.
LEMMA TypedAgrees ==
    ASSUME TriesBoth, NEW area \in AreaCodes, NEW subscriber \in Subscribers,
           NEW country \in BOOLEAN, NEW zero \in BOOLEAN, NEW ninth \in BOOLEAN,
           Type(area, subscriber, country, zero, ninth)
    PROVE  SpellingsAgree'
<1> DEFINE cc == IF country THEN CountryCode ELSE << >>
           zz == IF zero THEN <<0>> ELSE << >>
           nn == IF ninth THEN <<9>> ELSE << >>
           tail == nn \o subscriber
           national == area \o tail
           other == <<9>> \o subscriber
           variants == Variants(area, tail)
           full == [i \in DOMAIN variants |-> CountryCode \o area \o variants[i]]
<1>1. /\ area \in Digits /\ Len(area) = 2 /\ area[1] >= 1 /\ area[1] \in Nat
      /\ subscriber \in Digits /\ Len(subscriber) = 8
  BY PhoneParts
<1>2. /\ tail \in Digits /\ Len(tail) >= 8 /\ Len(tail) <= 9
      /\ variants \in {<<subscriber, other>>, <<other, subscriber>>}
  BY <1>1, BothVariants
<1>3. cc \in Digits /\ zz \in Digits /\ nn \in Digits
  BY ShortSequences
<1>4. typed' = cc \o (zz \o national)
  <2>1. typed' = (((cc \o zz) \o area) \o nn) \o subscriber
    BY DEF Type
  <2> HIDE DEF cc, zz, nn
  <2>2. area \in Digits
    BY Zenon, <1>1
  <2>3. subscriber \in Digits
    BY Zenon, <1>1
  <2>4. cc \in Digits
    BY Zenon, <1>3
  <2>5. zz \in Digits
    BY Zenon, <1>3
  <2>6. nn \in Digits
    BY Zenon, <1>3
  <2>7. cc \o zz \in Digits
    BY Zenon, <2>4, <2>5, Joined
  <2>8. (cc \o zz) \o area \in Digits
    BY Zenon, <2>2, <2>7, Joined
  <2>9. nn \o subscriber \in Digits
    BY Zenon, <2>3, <2>6, Joined
  <2>10. area \o (nn \o subscriber) \in Digits
    BY Zenon, <2>2, <2>9, Joined
  <2>11. (((cc \o zz) \o area) \o nn) \o subscriber = ((cc \o zz) \o area) \o (nn \o subscriber)
    BY Zenon, <2>3, <2>6, <2>8, Reassociated
  <2>12. ((cc \o zz) \o area) \o (nn \o subscriber) = (cc \o zz) \o (area \o (nn \o subscriber))
    BY Zenon, <2>2, <2>7, <2>9, Reassociated
  <2>13. (cc \o zz) \o (area \o (nn \o subscriber)) = cc \o (zz \o (area \o (nn \o subscriber)))
    BY Zenon, <2>4, <2>5, <2>10, Reassociated
  <2> QED
    BY Zenon, <2>1, <2>11, <2>12, <2>13
<1>5. /\ national \in Digits /\ Len(national) >= 10 /\ Len(national) <= 11 /\ national[1] >= 1
      /\ SubSeq(national, 1, 2) = area /\ Drop(national, 2) = tail
  <2> HIDE DEF tail
  <2>1. /\ national \in Digits /\ Len(national) = Len(area) + Len(tail) /\ Len(tail) \in Nat
        /\ Len(area) >= 1 => national[1] = area[1]
        /\ SubSeq(national, 1, Len(area)) = area /\ Drop(national, Len(area)) = tail
    BY Zenon, <1>1, <1>2, Joined, SplitPrefix
  <2> HIDE DEF national
  <2>2. Len(area) >= 1 /\ Len(area) + Len(tail) >= 10 /\ Len(area) + Len(tail) <= 11
    BY <1>1, <1>2, <2>1
  <2> QED
    BY Zenon, <2>1, <2>2, <1>1
<1>6. WithoutTrunkZero(WithoutCountryCode(typed')) = national
  <2> HIDE DEF national
  <2> QED
    BY Zenon, <1>4, <1>5, NationalPart
<1>7. GenerateCandidates(typed') = SubSeq(full, 1, IF Len(full) < MaxCandidates THEN Len(full) ELSE MaxCandidates)
  <2> HIDE DEF national, tail
  <2>1. Len(national) \in Nat
    BY <1>5, LenProperties DEF Digits
  <2>2. Len(national) \in 10 .. 11
    <3>1. \A n \in Nat : n >= 10 /\ n <= 11 => n \in 10 .. 11
      OBVIOUS
    <3> QED
      BY Zenon, <1>5, <2>1, <3>1
  <2> QED
    BY Zenon, <1>5, <1>6, <2>2 DEF GenerateCandidates
<1> HIDE DEF tail, variants
<1>8. /\ full \in [1 .. 2 -> {CountryCode \o area \o subscriber, CountryCode \o area \o other}]
      /\ {full[1], full[2]} = {CountryCode \o area \o subscriber, CountryCode \o area \o other}
  <2> HIDE DEF other
  <2>1. CASE variants = <<subscriber, other>>
    BY SMTT(30), <2>1
  <2>2. CASE variants = <<other, subscriber>>
    BY SMTT(30), <2>2
  <2> QED
    BY <2>1, <2>2, <1>2
<1> HIDE DEF full
<1>9. candidates' = SubSeq(full, 1, 2)
  <2>1. Len(full) = 2
    BY <1>8, FirstTwo
  <2>2. (IF Len(full) < MaxCandidates THEN Len(full) ELSE MaxCandidates) = 2
    BY <2>1, PhoneAssumption DEF TriesBoth
  <2> QED
    BY <1>7, <2>2 DEF Type
<1>10. {candidates'[i] : i \in DOMAIN candidates'} = {CountryCode \o area \o subscriber, CountryCode \o area \o other}
  <2>1. /\ DOMAIN candidates' = 1 .. 2
        /\ candidates'[1] = full[1] /\ candidates'[2] = full[2]
    BY <1>8, <1>9, FirstTwo
  <2>2. {candidates'[i] : i \in 1 .. 2} = {candidates'[1], candidates'[2]}
    OBVIOUS
  <2> QED
    BY <2>1, <2>2, <1>8
<1>11. /\ SubSeq(phone', 1, 2) = area /\ Drop(phone', 2) = subscriber
  BY <1>1, SplitPrefix DEF Type
<1>12. CountryCode \o area \o other = CountryCode \o area \o <<9>> \o subscriber
  <2>1. CountryCode \o area \in Digits
    BY Zenon, <1>1, ShortSequences, Joined
  <2> QED
    BY ZenonT(60), <2>1, <1>1, ShortSequences, Reassociated
<1> QED
  BY <1>10, <1>11, <1>12 DEF SpellingsAgree

\* Where at least two numbers may be tried, for all area codes and subscribers: however a number is typed, the
\* same two numbers of its own area code are tried (generateCandidates of phone-number.service.ts).
THEOREM SpellingDoesNotMatter ==
    ASSUME TriesBoth
    PROVE  PhonesSpec => []SpellingsAgree
<1>1. PhonesInit => SpellingsAgree
  BY DEF PhonesInit, SpellingsAgree
<1>2. SpellingsAgree /\ [PhonesNext]_phoneVars => SpellingsAgree'
  <2>1. CASE UNCHANGED phoneVars
    BY <2>1 DEF phoneVars, SpellingsAgree
  <2>2. CASE PhonesNext
    BY <2>2, TypedAgrees DEF PhonesNext
  <2> QED
    BY <2>1, <2>2
<1> QED
  BY <1>1, <1>2, PTL DEF PhonesSpec

=============================================================================
