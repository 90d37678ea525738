----------------------- MODULE BaileysConnectionProofs -----------------------
(***************************************************************************)
(* BaileysConnection for any flows and any number of sockets, starts and   *)
(* faults: its type invariant, that a session that was started is never    *)
(* forgotten, and what holds while its operations do not overlap.          *)
(***************************************************************************)
EXTENDS BaileysConnection, TLAPS

-----------------------------------------------------------------------------
(* The inductive invariants *)

\* At most one operation is between two of its awaits.
OneOperation ==
    /\ \A i, j \in Slot : InProgress(i) /\ InProgress(j) => i = j
    /\ \A s, t \in Socket : Asking(s) /\ Asking(t) => s = t
    /\ \A i \in Slot : InProgress(i) =>
          stopping = NoSocket /\ closing = None /\ renewing.sock = NoSocket /\ \A s \in Socket : ~Asking(s)
    /\ \A s \in Socket : Asking(s) => stopping = NoSocket /\ closing = None /\ renewing.sock = NoSocket
    /\ stopping # NoSocket => closing = None /\ renewing.sock = NoSocket
    /\ closing # None => renewing.sock = NoSocket

\* What one operation may find of the others' work.
Order ==
    /\ OneSocket
    /\ strays = {}
    /\ current # NoSocket => Live(current)
    /\ \A s \in Socket : Asking(s) => current = s
    /\ renewing.sock # NoSocket => renewing.sock = current
    /\ renewing.sock = NoSocket => renewing = NoRenewal
    /\ reconnect # None \/ closing # None \/ (\E i \in Slot : InProgress(i)) => current = NoSocket
    /\ closing # None \/ (\E i \in Slot : InProgress(i)) => reconnect = None
    /\ stopping # NoSocket => wish = None
    /\ wish = None =>
          current = NoSocket /\ reconnect = None /\ closing = None /\ \A i \in Slot : ~InProgress(i)

\* While no renewal of another flow began, everything is of the flow the user asked for.
FlowInv ==
    wish # None /\ ~misrenewed =>
        /\ current # NoSocket => socket[current].phone = wish
        /\ {reconnect, closing} \subseteq {None, wish}
        /\ \A i \in Slot : starts[i] \in {None, wish}
        /\ renewing.sock # NoSocket => renewing.phone = wish

OrderInv == ~overlapped => OneOperation /\ Order /\ FlowInv

-----------------------------------------------------------------------------
(* Types, and what any overlap leaves true *)

\* The initial state.
LEMMA ConnectionInit == Init => TypeOK /\ NeverForgotten /\ OrderInv
<1> SUFFICES ASSUME Init PROVE TypeOK /\ NeverForgotten /\ OrderInv
  OBVIOUS
<1> USE ConnectionAssumption DEF Socket, Slot, Flows
<1>1. TypeOK
  <2>1. GoneSocket \in SocketRow /\ NoRenewal \in RenewRow
    BY DEF GoneSocket, NoRenewal, SocketRow, RenewRow
  <2>2. events \in 0 .. MaxEvents /\ starts \in [Slot -> Flows \cup {None}]
    BY DEF Init
  <2> QED
    BY <2>1, <2>2 DEF Init, TypeOK
<1>2. NeverForgotten
  BY DEF Init, NeverForgotten
<1>3. OneOperation
  BY DEF Init, OneOperation, InProgress, Asking, GoneSocket, NoRenewal, NoSocket
<1>4. Order /\ FlowInv
  BY DEF Init, Order, FlowInv, OneSocket, InProgress, Asking, Live, GoneSocket, NoRenewal, NoSocket
<1> QED
  BY <1>1, <1>2, <1>3, <1>4 DEF OrderInv

\* The rows of nothing.
LEMMA NoneType == GoneSocket \in SocketRow /\ NoRenewal \in RenewRow
BY DEF GoneSocket, NoRenewal, SocketRow, RenewRow, Flows

\* Ending a socket keeps the rows typed.
LEMMA EndType ==
    ASSUME TypeOK, NEW s \in Socket
    PROVE  End(s) \in [Socket -> SocketRow]
BY NoneType DEF TypeOK, End, Ended, SocketRow

\* Sockets and starts are numbered from one.
LEMMA Numbers ==
    /\ NoSocket \notin Socket /\ None \notin Flows /\ NoPhone \in Flows
    /\ Phones \subseteq Flows
BY ConnectionAssumption DEF NoSocket, Socket, Flows

\* A call or a failure counts down.
LEMMA EventType == ASSUME TypeOK, events > 0, events' = events - 1 PROVE events' \in 0 .. MaxEvents
BY ConnectionAssumption DEF TypeOK

\* Beginning a start keeps the types.
LEMMA EnterType ==
    ASSUME TypeOK, NEW i \in Slot, NEW phone \in Flows, EnterStart(i, phone)
    PROVE  /\ current' \in Socket \cup {NoSocket} /\ socket' \in [Socket -> SocketRow]
           /\ starts' \in [Slot -> Flows \cup {None}] /\ reconnect' = None
<1>1. CASE HasFlow(phone)
  BY <1>1 DEF EnterStart, TypeOK
<1>2. CASE ~HasFlow(phone)
  <2>1. starts' \in [Slot -> Flows \cup {None}]
    BY <1>2 DEF EnterStart, TypeOK
  <2>2. socket' \in [Socket -> SocketRow]
    BY <1>2, EndType DEF EnterStart, TypeOK
  <2> QED
    BY <1>2, <2>1, <2>2 DEF EnterStart
<1> QED
  BY <1>1, <1>2

\* Beginning a renewal keeps the types.
LEMMA RenewalType ==
    ASSUME TypeOK, NEW phone \in Flows, BeginRenewal(phone)
    PROVE  renewing' \in RenewRow /\ misrenewed' \in BOOLEAN
<1>1. renewing' \in RenewRow
  BY DEF BeginRenewal, TypeOK, RenewRow
<1>2. misrenewed \in BOOLEAN
  BY DEF TypeOK
<1>3. misrenewed' \in BOOLEAN
  BY Zenon, <1>2 DEF BeginRenewal
<1> QED
  BY <1>1, <1>3

\* Every step keeps the types, and does not forget the session.
LEMMA ConnectionNext == TypeOK /\ NeverForgotten /\ [Next]_vars => TypeOK' /\ NeverForgotten'
<1> SUFFICES ASSUME TypeOK, NeverForgotten, [Next]_vars
             PROVE  TypeOK' /\ NeverForgotten'
  OBVIOUS
<1> USE Numbers, NoneType, ConnectionAssumption, EndType DEF memory, timers, history
<1>0. CASE UNCHANGED vars
  BY <1>0 DEF vars, TypeOK, NeverForgotten, InProgress
<1> SUFFICES ASSUME Next PROVE TypeOK' /\ NeverForgotten'
  BY <1>0
<1>a. overlapped' \in BOOLEAN
  BY Zenon DEF Next
<1>1. ASSUME NEW i \in Slot, NEW phone \in Flows, ServiceStart(i, phone)
      PROVE  TypeOK' /\ NeverForgotten'
  <2>1. TypeOK'
    <3>1. /\ current' \in Socket \cup {NoSocket} /\ socket' \in [Socket -> SocketRow]
          /\ starts' \in [Slot -> Flows \cup {None}] /\ reconnect' = None
      BY <1>1, EnterType DEF ServiceStart
    <3>2. events' \in 0 .. MaxEvents
      BY <1>1, EventType DEF ServiceStart
    <3>3. failed' \in BOOLEAN /\ misrenewed' \in BOOLEAN
      BY Zenon, <1>1 DEF ServiceStart
    <3> QED
      BY <1>1, <1>a, <3>1, <3>2, <3>3 DEF ServiceStart, TypeOK
  <2>2. NeverForgotten'
    BY <1>1 DEF ServiceStart, EnterStart, HasFlow, TypeOK, SocketRow, RenewRow, NeverForgotten, InProgress
  <2> QED
    BY <2>1, <2>2
<1>2. ASSUME StopSession
      PROVE  TypeOK' /\ NeverForgotten'
  <2>1. TypeOK'
    <3>1. events' \in 0 .. MaxEvents
      BY <1>2, EventType DEF StopSession
    <3>2. failed' \in BOOLEAN
      BY Zenon, <1>2 DEF StopSession
    <3> QED
      BY <1>2, <1>a, <3>1, <3>2 DEF StopSession, TypeOK
  <2>2. NeverForgotten'
    BY <1>2 DEF StopSession, TypeOK, SocketRow, RenewRow, NeverForgotten, InProgress
  <2> QED
    BY <2>1, <2>2
<1>3. ASSUME NEW s \in Socket, CloseForGood(s)
      PROVE  TypeOK' /\ NeverForgotten'
  <2>1. TypeOK'
    BY <1>3, <1>a DEF CloseForGood, CloseCurrent, TypeOK, SocketRow, RenewRow, InProgress
  <2>2. NeverForgotten'
    BY <1>3 DEF CloseForGood, CloseCurrent, TypeOK, SocketRow, RenewRow, NeverForgotten, InProgress
  <2> QED
    BY <2>1, <2>2
<1>4. ASSUME NEW i \in Slot, ProxyIsDown(i)
      PROVE  TypeOK' /\ NeverForgotten'
  <2>1. TypeOK'
    BY <1>4, <1>a DEF ProxyIsDown, ScheduleReconnect, TypeOK, SocketRow, RenewRow, InProgress
  <2>2. NeverForgotten'
    BY <1>4 DEF ProxyIsDown, ScheduleReconnect, TypeOK, SocketRow, RenewRow, NeverForgotten, InProgress
  <2> QED
    BY <2>1, <2>2
<1>5. ASSUME NEW i \in Slot, StartThrows(i)
      PROVE  TypeOK' /\ NeverForgotten'
  <2>1. TypeOK'
    BY <1>5, <1>a DEF StartThrows, TypeOK, SocketRow, RenewRow, InProgress
  <2>2. NeverForgotten'
    BY <1>5 DEF StartThrows, TypeOK, SocketRow, RenewRow, NeverForgotten, InProgress
  <2> QED
    BY <2>1, <2>2
<1>6. ASSUME NEW i \in Slot, Reconnect(i)
      PROVE  TypeOK' /\ NeverForgotten'
  <2>1. TypeOK'
    <3>1. /\ current' \in Socket \cup {NoSocket} /\ socket' \in [Socket -> SocketRow]
          /\ starts' \in [Slot -> Flows \cup {None}] /\ reconnect' = None
      BY <1>6, EnterType DEF Reconnect, TypeOK
    <3> QED
      BY <1>6, <1>a, <3>1 DEF Reconnect, TypeOK
  <2>2. NeverForgotten'
    BY <1>6 DEF Reconnect, EnterStart, HasFlow, TypeOK, SocketRow, RenewRow, NeverForgotten, InProgress
  <2> QED
    BY <2>1, <2>2
<1>7. ASSUME NEW i \in Slot, Renew(i)
      PROVE  TypeOK' /\ NeverForgotten'
  <2>1. TypeOK'
    <3>1. renewing.sock \in Socket => socket' \in [Socket -> SocketRow]
      BY <1>7 DEF Renew
    <3>2. renewing.sock = NoSocket => socket' \in [Socket -> SocketRow]
      BY <1>7 DEF Renew, End, TypeOK
    <3>3. starts' \in [Slot -> Flows \cup {None}] /\ renewing.sock \in Socket \cup {NoSocket}
      BY <1>7 DEF Renew, TypeOK, RenewRow
    <3> QED
      BY <1>7, <1>a, <3>1, <3>2, <3>3 DEF Renew, TypeOK
  <2>2. NeverForgotten'
    BY <1>7 DEF Renew, TypeOK, SocketRow, RenewRow, NeverForgotten, InProgress
  <2> QED
    BY <2>1, <2>2
<1>8. ASSUME NEW i \in Slot, NEW s \in Socket, NEW registered \in BOOLEAN, OpenSocket(i, s, registered)
      PROVE  TypeOK' /\ NeverForgotten'
  <2>1. TypeOK'
    BY <1>8, <1>a DEF OpenSocket, Unused, TypeOK, SocketRow, RenewRow, InProgress
  <2>2. NeverForgotten'
    BY <1>8 DEF OpenSocket, Unused, TypeOK, SocketRow, RenewRow, NeverForgotten, InProgress
  <2> QED
    BY <2>1, <2>2
<1>9. ASSUME NEW i \in Slot, NEW phone \in Flows, ReconnectStray(i, phone)
      PROVE  TypeOK' /\ NeverForgotten'
  <2>1. TypeOK'
    BY <1>9, <1>a DEF ReconnectStray, EnterStart, HasFlow, TypeOK, SocketRow, RenewRow, InProgress
  <2>2. NeverForgotten'
    BY <1>9 DEF ReconnectStray, EnterStart, HasFlow, TypeOK, SocketRow, RenewRow, NeverForgotten, InProgress
  <2> QED
    BY <2>1, <2>2
<1>10. ASSUME NEW s \in Socket, ReadyForCode(s)
       PROVE  TypeOK' /\ NeverForgotten'
  <2>1. TypeOK'
    BY <1>10, <1>a DEF ReadyForCode, TypeOK, SocketRow, RenewRow, InProgress
  <2>2. NeverForgotten'
    BY <1>10 DEF ReadyForCode, TypeOK, SocketRow, RenewRow, NeverForgotten, InProgress
  <2> QED
    BY <2>1, <2>2
<1>11. ASSUME NEW s \in Socket, CodeArrives(s)
       PROVE  TypeOK' /\ NeverForgotten'
  <2>1. TypeOK'
    <3>1. [socket EXCEPT ![s].code = "done"] \in [Socket -> SocketRow]
      BY DEF TypeOK, SocketRow
    <3>2. [socket EXCEPT ![s] = GoneSocket] \in [Socket -> SocketRow]
      BY DEF TypeOK
    <3> QED
      BY <1>11, <1>a, <3>1, <3>2 DEF CodeArrives, TypeOK
  <2>2. NeverForgotten'
    BY <1>11 DEF CodeArrives, TypeOK, SocketRow, RenewRow, NeverForgotten, InProgress
  <2> QED
    BY <2>1, <2>2
<1>12. ASSUME NEW s \in Socket, CodeFails(s)
       PROVE  TypeOK' /\ NeverForgotten'
  <2>1. TypeOK'
    <3>1. [socket EXCEPT ![s].code = "needed"] \in [Socket -> SocketRow]
      BY DEF TypeOK, SocketRow
    <3>2. [socket EXCEPT ![s] = GoneSocket] \in [Socket -> SocketRow]
      BY DEF TypeOK
    <3> QED
      BY <1>12, <1>a, <3>1, <3>2 DEF CodeFails, TypeOK
  <2>2. NeverForgotten'
    BY <1>12 DEF CodeFails, TypeOK, SocketRow, RenewRow, NeverForgotten, InProgress
  <2> QED
    BY <2>1, <2>2
<1>13. ASSUME NEW s \in Socket, CodeGivesUp(s)
       PROVE  TypeOK' /\ NeverForgotten'
  <2>1. TypeOK'
    BY <1>13, <1>a DEF CodeGivesUp, ScheduleReconnect, TypeOK, SocketRow, RenewRow, InProgress
  <2>2. NeverForgotten'
    BY <1>13 DEF CodeGivesUp, ScheduleReconnect, TypeOK, SocketRow, RenewRow, NeverForgotten, InProgress
  <2> QED
    BY <2>1, <2>2
<1>14. ASSUME NEW s \in Socket, CloseSuperseded(s)
       PROVE  TypeOK' /\ NeverForgotten'
  <2>1. TypeOK'
    BY <1>14, <1>a DEF CloseSuperseded, TypeOK, SocketRow, RenewRow, InProgress
  <2>2. NeverForgotten'
    BY <1>14 DEF CloseSuperseded, TypeOK, SocketRow, RenewRow, NeverForgotten, InProgress
  <2> QED
    BY <2>1, <2>2
<1>15. ASSUME NEW s \in Socket, CloseForNow(s)
       PROVE  TypeOK' /\ NeverForgotten'
  <2>1. TypeOK'
    BY <1>15, <1>a DEF CloseForNow, CloseCurrent, TypeOK, SocketRow, RenewRow, InProgress
  <2>2. NeverForgotten'
    BY <1>15 DEF CloseForNow, CloseCurrent, TypeOK, SocketRow, RenewRow, NeverForgotten, InProgress
  <2> QED
    BY <2>1, <2>2
<1>16. ASSUME NEW phone \in Flows, RenewStray(phone)
       PROVE  TypeOK' /\ NeverForgotten'
  <2>1. TypeOK'
    <3>1. renewing' \in RenewRow /\ misrenewed' \in BOOLEAN
      BY <1>16, RenewalType DEF RenewStray
    <3> QED
      BY <1>16, <1>a, <3>1 DEF RenewStray, TypeOK
  <2>2. NeverForgotten'
    BY <1>16 DEF RenewStray, BeginRenewal, TypeOK, SocketRow, RenewRow, NeverForgotten, InProgress
  <2> QED
    BY <2>1, <2>2
<1>17. ASSUME Logout
       PROVE  TypeOK' /\ NeverForgotten'
  <2>1. TypeOK'
    BY <1>17, <1>a DEF Logout, TypeOK, SocketRow, RenewRow, InProgress
  <2>2. NeverForgotten'
    BY <1>17 DEF Logout, TypeOK, SocketRow, RenewRow, NeverForgotten, InProgress
  <2> QED
    BY <2>1, <2>2
<1>18. ASSUME RetryAfterClose
       PROVE  TypeOK' /\ NeverForgotten'
  <2>1. TypeOK'
    BY <1>18, <1>a DEF RetryAfterClose, ScheduleReconnect, TypeOK, SocketRow, RenewRow, InProgress
  <2>2. NeverForgotten'
    BY <1>18 DEF RetryAfterClose, ScheduleReconnect, TypeOK, SocketRow, RenewRow, NeverForgotten, InProgress
  <2> QED
    BY <2>1, <2>2
<1>19. ASSUME RenewSticky
       PROVE  TypeOK' /\ NeverForgotten'
  <2>1. TypeOK'
    <3>1. renewing' \in RenewRow /\ misrenewed' \in BOOLEAN
      BY <1>19, RenewalType DEF RenewSticky, TypeOK
    <3> QED
      BY <1>19, <1>a, <3>1 DEF RenewSticky, TypeOK
  <2>2. NeverForgotten'
    BY <1>19 DEF RenewSticky, BeginRenewal, TypeOK, SocketRow, RenewRow, NeverForgotten, InProgress
  <2> QED
    BY <2>1, <2>2
<1>20. ASSUME RenewalFails
       PROVE  TypeOK' /\ NeverForgotten'
  <2>1. TypeOK'
    <3>1. events' \in 0 .. MaxEvents
      BY <1>20, EventType DEF RenewalFails
    <3> QED
      BY <1>20, <1>a, <3>1 DEF RenewalFails, TypeOK
  <2>2. NeverForgotten'
    BY <1>20 DEF RenewalFails, TypeOK, SocketRow, RenewRow, NeverForgotten, InProgress
  <2> QED
    BY <2>1, <2>2
<1> QED
  BY <1>1, <1>2, <1>3, <1>4, <1>5, <1>6, <1>7, <1>8, <1>9, <1>10, <1>11, <1>12, <1>13, <1>14, <1>15,
     <1>16, <1>17, <1>18, <1>19, <1>20 DEF Next, Command, Step

-----------------------------------------------------------------------------
(* Without overlaps *)

\* Two operations would be two members of Operations.
LEMMA NoTwo == TypeOK /\ (\A a, b \in Operations : a = b) => OneOperation
<1> SUFFICES ASSUME TypeOK, \A a, b \in Operations : a = b
             PROVE  OneOperation
  OBVIOUS
<1>1. /\ \A i \in Slot : InProgress(i) => <<"start", i>> \in Operations
      /\ \A s \in Socket : Asking(s) => <<"code", s>> \in Operations
      /\ stopping # NoSocket => <<"stop", stopping>> \in Operations
      /\ closing # None => <<"close", 0>> \in Operations
      /\ renewing.sock # NoSocket => <<"renew", renewing.sock>> \in Operations
  BY Zenon DEF Operations
<1>2. \A i, j \in Slot : InProgress(i) /\ InProgress(j) => i = j
  BY <1>1
<1>3. \A s, t \in Socket : Asking(s) /\ Asking(t) => s = t
  BY <1>1
<1>4. \A i \in Slot : InProgress(i) =>
          /\ stopping = NoSocket /\ closing = None /\ renewing.sock = NoSocket
          /\ \A s \in Socket : ~Asking(s)
  BY <1>1
<1>5. \A s \in Socket : Asking(s) => stopping = NoSocket /\ closing = None /\ renewing.sock = NoSocket
  BY <1>1
<1>6. /\ stopping # NoSocket => closing = None /\ renewing.sock = NoSocket
      /\ closing # None => renewing.sock = NoSocket
  BY <1>1
<1> QED
  BY <1>2, <1>3, <1>4, <1>5, <1>6 DEF OneOperation

\* The same of the next state.
LEMMA NoTwoNext == TypeOK' /\ (\A a, b \in Operations' : a = b) => OneOperation'
<1> SUFFICES ASSUME TypeOK', \A a, b \in Operations' : a = b
             PROVE  OneOperation'
  OBVIOUS
<1>1. /\ \A i \in Slot : InProgress(i)' => <<"start", i>> \in Operations'
      /\ \A s \in Socket : Asking(s)' => <<"code", s>> \in Operations'
      /\ stopping' # NoSocket => <<"stop", stopping'>> \in Operations'
      /\ closing' # None => <<"close", 0>> \in Operations'
      /\ renewing'.sock # NoSocket => <<"renew", renewing'.sock>> \in Operations'
  BY Zenon DEF Operations
<1>2. \A i, j \in Slot : InProgress(i)' /\ InProgress(j)' => i = j
  BY <1>1
<1>3. \A s, t \in Socket : Asking(s)' /\ Asking(t)' => s = t
  BY <1>1
<1>4. \A i \in Slot : InProgress(i)' =>
          /\ stopping' = NoSocket /\ closing' = None /\ renewing'.sock = NoSocket
          /\ \A s \in Socket : ~Asking(s)'
  BY <1>1
<1>5. \A s \in Socket : Asking(s)' => stopping' = NoSocket /\ closing' = None /\ renewing'.sock = NoSocket
  BY <1>1
<1>6. /\ stopping' # NoSocket => closing' = None /\ renewing'.sock = NoSocket
      /\ closing' # None => renewing'.sock = NoSocket
  BY <1>1
<1> QED
  BY <1>2, <1>3, <1>4, <1>5, <1>6 DEF OneOperation

\* No operation at all.
LEMMA NoneAtAll ==
    ASSUME TypeOK, Operations = {}
    PROVE  /\ \A i \in Slot : ~InProgress(i)
           /\ \A s \in Socket : ~Asking(s)
           /\ stopping = NoSocket /\ closing = None /\ renewing.sock = NoSocket
<1>1. /\ \A i \in Slot : InProgress(i) => <<"start", i>> \in Operations
      /\ \A s \in Socket : Asking(s) => <<"code", s>> \in Operations
      /\ stopping # NoSocket => <<"stop", stopping>> \in Operations
      /\ closing # None => <<"close", 0>> \in Operations
      /\ renewing.sock # NoSocket => <<"renew", renewing.sock>> \in Operations
  BY Zenon DEF Operations
<1> QED
  BY <1>1

\* Every step that does not overlap keeps the order.
LEMMA OrderNext == TypeOK /\ TypeOK' /\ OrderInv /\ [Next]_vars => OrderInv'
<1> SUFFICES ASSUME TypeOK, TypeOK', OrderInv, [Next]_vars, ~overlapped'
             PROVE  (OneOperation /\ Order /\ FlowInv)'
  BY DEF OrderInv
<1> USE Numbers, ConnectionAssumption DEF memory, timers, history
<1>0. CASE UNCHANGED vars
  BY <1>0 DEF vars, OrderInv, OneOperation, Order, FlowInv, OneSocket, InProgress, Asking, Live
<1> SUFFICES ASSUME Next PROVE (OneOperation /\ Order /\ FlowInv)'
  BY <1>0
<1>a. ~overlapped /\ OneOperation /\ Order /\ FlowInv
  BY DEF Next, OrderInv
<1>1. ASSUME NEW i \in Slot, NEW phone \in Flows, ServiceStart(i, phone), Operations = {}
      PROVE  (OneOperation /\ Order /\ FlowInv)'
  <2>1. Order'
    BY <1>1, <1>a, NoneAtAll DEF ServiceStart, EnterStart, HasFlow, TypeOK, SocketRow, RenewRow, OneOperation, Order, OneSocket, InProgress, Asking, Live, End, Ended, GoneSocket, NoRenewal
  <2>2. FlowInv'
    BY <1>1, <1>a, NoneAtAll DEF ServiceStart, EnterStart, HasFlow, TypeOK, SocketRow, RenewRow, OneOperation, Order, FlowInv, OneSocket, InProgress, Asking, Live, End, Ended, GoneSocket, NoRenewal
  <2>3. OneOperation'
    BY <1>1, <1>a, NoneAtAll DEF ServiceStart, EnterStart, HasFlow, TypeOK, SocketRow, OneOperation, InProgress, Asking, End, Ended, GoneSocket
  <2> QED
    BY <2>1, <2>2, <2>3
<1>2. ASSUME StopSession, Operations = {}
      PROVE  (OneOperation /\ Order /\ FlowInv)'
  <2>1. Order'
    BY <1>2, <1>a, NoneAtAll DEF StopSession, TypeOK, SocketRow, RenewRow, OneOperation, Order, OneSocket, InProgress, Asking, Live, End, Ended, GoneSocket, NoRenewal
  <2>2. FlowInv'
    BY <1>2, <1>a, NoneAtAll DEF StopSession, TypeOK, SocketRow, RenewRow, OneOperation, Order, FlowInv, OneSocket, InProgress, Asking, Live, End, Ended, GoneSocket, NoRenewal
  <2>3. OneOperation'
    BY <1>2, <1>a, NoneAtAll DEF StopSession, TypeOK, SocketRow, OneOperation, InProgress, Asking, End, Ended, GoneSocket
  <2> QED
    BY <2>1, <2>2, <2>3
<1>3. ASSUME NEW s \in Socket, CloseForGood(s), Operations = {}
      PROVE  (OneOperation /\ Order /\ FlowInv)'
  <2>1. Order'
    BY <1>3, <1>a, NoneAtAll DEF CloseForGood, CloseCurrent, TypeOK, SocketRow, RenewRow, OneOperation, Order, OneSocket, InProgress, Asking, Live, End, Ended, GoneSocket, NoRenewal
  <2>2. FlowInv'
    BY <1>3, <1>a, NoneAtAll DEF CloseForGood, CloseCurrent, TypeOK, SocketRow, RenewRow, OneOperation, Order, FlowInv, OneSocket, InProgress, Asking, Live, End, Ended, GoneSocket, NoRenewal
  <2>3. OneOperation'
    BY <1>3, <1>a, NoneAtAll DEF CloseForGood, CloseCurrent, TypeOK, SocketRow, OneOperation, InProgress, Asking, End, Ended, GoneSocket
  <2> QED
    BY <2>1, <2>2, <2>3
<1>4. ASSUME NEW i \in Slot, ProxyIsDown(i), OneOperation'
      PROVE  (Order /\ FlowInv)'
  <2>1. Order'
    BY <1>4, <1>a DEF ProxyIsDown, ScheduleReconnect, TypeOK, SocketRow, RenewRow, OneOperation, Order, OneSocket, InProgress, Asking, Live, End, Ended, GoneSocket, NoRenewal
  <2>2. FlowInv'
    BY <1>4, <1>a DEF ProxyIsDown, ScheduleReconnect, TypeOK, SocketRow, RenewRow, OneOperation, Order, FlowInv, OneSocket, InProgress, Asking, Live, End, Ended, GoneSocket, NoRenewal
  <2> QED
    BY <2>1, <2>2
<1>5. ASSUME NEW i \in Slot, StartThrows(i), OneOperation'
      PROVE  (Order /\ FlowInv)'
  <2>1. Order'
    BY <1>5, <1>a DEF StartThrows, TypeOK, SocketRow, RenewRow, OneOperation, Order, OneSocket, InProgress, Asking, Live, End, Ended, GoneSocket, NoRenewal
  <2>2. FlowInv'
    BY <1>5, <1>a DEF StartThrows, TypeOK, SocketRow, RenewRow, OneOperation, Order, FlowInv, OneSocket, InProgress, Asking, Live, End, Ended, GoneSocket, NoRenewal
  <2> QED
    BY <2>1, <2>2
<1>6. ASSUME NEW i \in Slot, Reconnect(i), OneOperation'
      PROVE  (Order /\ FlowInv)'
  <2>1. Order'
    BY <1>6, <1>a DEF Reconnect, EnterStart, HasFlow, TypeOK, SocketRow, RenewRow, OneOperation, Order, OneSocket, InProgress, Asking, Live, End, Ended, GoneSocket, NoRenewal
  <2>2. FlowInv'
    BY <1>6, <1>a DEF Reconnect, EnterStart, HasFlow, TypeOK, SocketRow, RenewRow, OneOperation, Order, FlowInv, OneSocket, InProgress, Asking, Live, End, Ended, GoneSocket, NoRenewal
  <2> QED
    BY <2>1, <2>2
<1>7. ASSUME NEW i \in Slot, Renew(i), OneOperation'
      PROVE  (Order /\ FlowInv)'
  <2>1. Order'
    BY <1>7, <1>a DEF Renew, TypeOK, SocketRow, RenewRow, OneOperation, Order, OneSocket, InProgress, Asking, Live, End, Ended, GoneSocket, NoRenewal
  <2>2. FlowInv'
    BY <1>7, <1>a DEF Renew, TypeOK, SocketRow, RenewRow, OneOperation, Order, FlowInv, OneSocket, InProgress, Asking, Live, End, Ended, GoneSocket, NoRenewal
  <2> QED
    BY <2>1, <2>2
<1>8. ASSUME NEW i \in Slot, NEW s \in Socket, NEW registered \in BOOLEAN, OpenSocket(i, s, registered), OneOperation'
      PROVE  (Order /\ FlowInv)'
  <2>1. Order'
    BY <1>8, <1>a DEF OpenSocket, Unused, TypeOK, SocketRow, RenewRow, OneOperation, Order, OneSocket, InProgress, Asking, Live, End, Ended, GoneSocket, NoRenewal
  <2>2. FlowInv'
    BY <1>8, <1>a DEF OpenSocket, Unused, TypeOK, SocketRow, RenewRow, OneOperation, Order, FlowInv, OneSocket, InProgress, Asking, Live, End, Ended, GoneSocket, NoRenewal
  <2> QED
    BY <2>1, <2>2
<1>9. ASSUME NEW i \in Slot, NEW phone \in Flows, ReconnectStray(i, phone), OneOperation'
      PROVE  (Order /\ FlowInv)'
  <2>1. Order'
    BY <1>9, <1>a DEF ReconnectStray, EnterStart, HasFlow, TypeOK, SocketRow, RenewRow, OneOperation, Order, OneSocket, InProgress, Asking, Live, End, Ended, GoneSocket, NoRenewal
  <2>2. FlowInv'
    BY <1>9, <1>a DEF ReconnectStray, EnterStart, HasFlow, TypeOK, SocketRow, RenewRow, OneOperation, Order, FlowInv, OneSocket, InProgress, Asking, Live, End, Ended, GoneSocket, NoRenewal
  <2> QED
    BY <2>1, <2>2
<1>10. ASSUME NEW s \in Socket, ReadyForCode(s), OneOperation'
       PROVE  (Order /\ FlowInv)'
  <2>1. Order'
    BY <1>10, <1>a DEF ReadyForCode, TypeOK, SocketRow, RenewRow, OneOperation, Order, OneSocket, InProgress, Asking, Live, End, Ended, GoneSocket, NoRenewal
  <2>2. FlowInv'
    BY <1>10, <1>a DEF ReadyForCode, TypeOK, SocketRow, RenewRow, OneOperation, Order, FlowInv, OneSocket, InProgress, Asking, Live, End, Ended, GoneSocket, NoRenewal
  <2> QED
    BY <2>1, <2>2
<1>11. ASSUME NEW s \in Socket, CodeArrives(s), OneOperation'
       PROVE  (Order /\ FlowInv)'
  <2>1. Order'
    BY <1>11, <1>a DEF CodeArrives, TypeOK, SocketRow, RenewRow, OneOperation, Order, OneSocket, InProgress, Asking, Live, End, Ended, GoneSocket, NoRenewal
  <2>2. FlowInv'
    BY <1>11, <1>a DEF CodeArrives, TypeOK, SocketRow, RenewRow, OneOperation, Order, FlowInv, OneSocket, InProgress, Asking, Live, End, Ended, GoneSocket, NoRenewal
  <2> QED
    BY <2>1, <2>2
<1>12. ASSUME NEW s \in Socket, CodeFails(s), OneOperation'
       PROVE  (Order /\ FlowInv)'
  <2>1. Order'
    BY <1>12, <1>a DEF CodeFails, TypeOK, SocketRow, RenewRow, OneOperation, Order, OneSocket, InProgress, Asking, Live, End, Ended, GoneSocket, NoRenewal
  <2>2. FlowInv'
    BY <1>12, <1>a DEF CodeFails, TypeOK, SocketRow, RenewRow, OneOperation, Order, FlowInv, OneSocket, InProgress, Asking, Live, End, Ended, GoneSocket, NoRenewal
  <2> QED
    BY <2>1, <2>2
<1>13. ASSUME NEW s \in Socket, CodeGivesUp(s), OneOperation'
       PROVE  (Order /\ FlowInv)'
  <2>1. Order'
    BY <1>13, <1>a DEF CodeGivesUp, ScheduleReconnect, TypeOK, SocketRow, RenewRow, OneOperation, Order, OneSocket, InProgress, Asking, Live, End, Ended, GoneSocket, NoRenewal
  <2>2. FlowInv'
    BY <1>13, <1>a DEF CodeGivesUp, ScheduleReconnect, TypeOK, SocketRow, RenewRow, OneOperation, Order, FlowInv, OneSocket, InProgress, Asking, Live, End, Ended, GoneSocket, NoRenewal
  <2> QED
    BY <2>1, <2>2
<1>14. ASSUME NEW s \in Socket, CloseSuperseded(s), OneOperation'
       PROVE  (Order /\ FlowInv)'
  <2>1. Order'
    BY <1>14, <1>a DEF CloseSuperseded, TypeOK, SocketRow, RenewRow, OneOperation, Order, OneSocket, InProgress, Asking, Live, End, Ended, GoneSocket, NoRenewal
  <2>2. FlowInv'
    BY <1>14, <1>a DEF CloseSuperseded, TypeOK, SocketRow, RenewRow, OneOperation, Order, FlowInv, OneSocket, InProgress, Asking, Live, End, Ended, GoneSocket, NoRenewal
  <2> QED
    BY <2>1, <2>2
<1>15. ASSUME NEW s \in Socket, CloseForNow(s), OneOperation'
       PROVE  (Order /\ FlowInv)'
  <2>1. Order'
    BY <1>15, <1>a DEF CloseForNow, CloseCurrent, TypeOK, SocketRow, RenewRow, OneOperation, Order, OneSocket, InProgress, Asking, Live, End, Ended, GoneSocket, NoRenewal
  <2>2. FlowInv'
    BY <1>15, <1>a DEF CloseForNow, CloseCurrent, TypeOK, SocketRow, RenewRow, OneOperation, Order, FlowInv, OneSocket, InProgress, Asking, Live, End, Ended, GoneSocket, NoRenewal
  <2> QED
    BY <2>1, <2>2
<1>16. ASSUME NEW phone \in Flows, RenewStray(phone), OneOperation'
       PROVE  (Order /\ FlowInv)'
  <2>1. Order'
    BY <1>16, <1>a DEF RenewStray, BeginRenewal, TypeOK, SocketRow, RenewRow, OneOperation, Order, OneSocket, InProgress, Asking, Live, End, Ended, GoneSocket, NoRenewal
  <2>2. FlowInv'
    BY <1>16, <1>a DEF RenewStray, BeginRenewal, TypeOK, SocketRow, RenewRow, OneOperation, Order, FlowInv, OneSocket, InProgress, Asking, Live, End, Ended, GoneSocket, NoRenewal
  <2> QED
    BY <2>1, <2>2
<1>17. ASSUME Logout, OneOperation'
       PROVE  (Order /\ FlowInv)'
  <2>1. Order'
    BY <1>17, <1>a DEF Logout, TypeOK, SocketRow, RenewRow, OneOperation, Order, OneSocket, InProgress, Asking, Live, End, Ended, GoneSocket, NoRenewal
  <2>2. FlowInv'
    BY <1>17, <1>a DEF Logout, TypeOK, SocketRow, RenewRow, OneOperation, Order, FlowInv, OneSocket, InProgress, Asking, Live, End, Ended, GoneSocket, NoRenewal
  <2> QED
    BY <2>1, <2>2
<1>18. ASSUME RetryAfterClose, OneOperation'
       PROVE  (Order /\ FlowInv)'
  <2>1. Order'
    BY <1>18, <1>a DEF RetryAfterClose, ScheduleReconnect, TypeOK, SocketRow, RenewRow, OneOperation, Order, OneSocket, InProgress, Asking, Live, End, Ended, GoneSocket, NoRenewal
  <2>2. FlowInv'
    BY <1>18, <1>a DEF RetryAfterClose, ScheduleReconnect, TypeOK, SocketRow, RenewRow, OneOperation, Order, FlowInv, OneSocket, InProgress, Asking, Live, End, Ended, GoneSocket, NoRenewal
  <2> QED
    BY <2>1, <2>2
<1>19. ASSUME RenewSticky, OneOperation'
       PROVE  (Order /\ FlowInv)'
  <2>1. Order'
    BY <1>19, <1>a DEF RenewSticky, BeginRenewal, TypeOK, SocketRow, RenewRow, OneOperation, Order, OneSocket, InProgress, Asking, Live, End, Ended, GoneSocket, NoRenewal
  <2>2. FlowInv'
    BY <1>19, <1>a DEF RenewSticky, BeginRenewal, TypeOK, SocketRow, RenewRow, OneOperation, Order, FlowInv, OneSocket, InProgress, Asking, Live, End, Ended, GoneSocket, NoRenewal
  <2> QED
    BY <2>1, <2>2
<1>20. ASSUME RenewalFails, OneOperation'
       PROVE  (Order /\ FlowInv)'
  <2>1. Order'
    BY <1>20, <1>a DEF RenewalFails, TypeOK, SocketRow, RenewRow, OneOperation, Order, OneSocket, InProgress, Asking, Live, End, Ended, GoneSocket, NoRenewal
  <2>2. FlowInv'
    BY <1>20, <1>a DEF RenewalFails, TypeOK, SocketRow, RenewRow, OneOperation, Order, FlowInv, OneSocket, InProgress, Asking, Live, End, Ended, GoneSocket, NoRenewal
  <2> QED
    BY <2>1, <2>2
<1>b. CASE Command /\ overlapped' = (overlapped \/ Operations # {})
  <2>1. Operations = {}
    BY <1>b
  <2> QED
    BY <1>b, <2>1, <1>1, <1>2, <1>3 DEF Command
<1>c. CASE Step /\ overlapped' = (overlapped \/ \E a, b \in Operations' : a # b)
  <2>1. OneOperation'
    BY <1>c, NoTwoNext
  <2> QED
    BY <1>c, <2>1, <1>4, <1>5, <1>6, <1>7, <1>8, <1>9, <1>10, <1>11, <1>12, <1>13, <1>14, <1>15,
       <1>16, <1>17, <1>18, <1>19, <1>20 DEF Step
<1> QED
  BY <1>b, <1>c DEF Next

\* What the provider keeps of the session keeps its type (baileys-whatsapp.provider.ts).
THEOREM ConnectionTypeCorrect == Spec => []TypeOK
BY ConnectionInit, ConnectionNext, PTL DEF Spec

\* However operations overlap, a session that was started and has not ended has a socket, or something in
\* progress or set that will open one, unless a start threw.
THEOREM SessionsAreNeverForgotten == Spec => []NeverForgotten
BY ConnectionInit, ConnectionNext, PTL DEF Spec

\* While no two operations overlap, the provider holds one socket.
THEOREM OneSocketAlone == Spec => []OneSocket
<1>1. OrderInv => OneSocket
  BY DEF OrderInv, Order, OneSocket
<1> QED
  BY <1>1, ConnectionInit, ConnectionNext, OrderNext, PTL DEF Spec

\* While no two operations overlap, a session that ended stays so.
THEOREM EndedSessionsStayEnded == Spec => []EndedStaysEnded
<1>1. OrderInv => EndedStaysEnded
  BY DEF OrderInv, Order, EndedStaysEnded
<1> QED
  BY <1>1, ConnectionInit, ConnectionNext, OrderNext, PTL DEF Spec

\* While no two operations overlap, and no renewal timer of a flow that was replaced fires, the socket is of
\* the flow the user asked for.
THEOREM SocketsFollowTheUser == Spec => []FlowIsTheUsers
<1>1. OrderInv => FlowIsTheUsers
  BY DEF OrderInv, FlowInv, FlowIsTheUsers
<1> QED
  BY <1>1, ConnectionInit, ConnectionNext, OrderNext, PTL DEF Spec
=============================================================================
