-------------------------- MODULE BaileysConnection --------------------------
(***************************************************************************)
(* The WhatsApp provider of ZaBot for one session in one process: the      *)
(* sockets it opens and the timers that reopen them.                       *)
(*                                                                         *)
(* Every method of the provider checks its maps, awaits the database, the  *)
(* proxy or WhatsApp, and writes its maps afterwards; requests, timers and *)
(* events of the socket act in between.  An action is the code from one    *)
(* await to the next; awaits between which the maps are neither read nor   *)
(* written are one.                                                        *)
(*                                                                         *)
(* A flow is the way a session is paired: a phone that gets a code, or     *)
(* NoPhone, the QR code.  The proxy is configured; without it the renewal  *)
(* timers and the awaits of the proxy are missing.  Left out: the updates  *)
(* and the credentials (SessionSharding has them), the number of the       *)
(* attempts, logs, and the durations of the timers, which may fire at any  *)
(* moment.                                                                 *)
(***************************************************************************)
EXTENDS Naturals

CONSTANTS
    Phones,        \* phones a user may pair by code
    NoPhone,       \* the flow by QR code
    MaxSockets,    \* bound: sockets alive or referred to
    MaxStarts,     \* bound: calls of startSession in progress
    MaxEvents      \* bound: calls of the session service, and failures of proxy or database

None == "none"
NoSocket == 0
Flows == Phones \cup {NoPhone}

ASSUME ConnectionAssumption ==
    /\ NoPhone \notin Phones /\ None \notin Flows
    /\ MaxSockets \in Nat \ {0} /\ MaxStarts \in Nat \ {0}
    /\ MaxEvents \in Nat

Socket == 1 .. MaxSockets
Slot == 1 .. MaxStarts

VARIABLES
    current,      \* the socket in the map of sockets
    socket,       \* every socket: whether it is connected, and its entry of the map
    starts,       \* the flow of every call of startSession in progress
    stopping,     \* the socket of the call of stopSession in progress
    closing,      \* the flow of the handler of a dropped connection in progress
    renewing,     \* the socket and the flow of the performStickyRenewal in progress
    reconnect,    \* the flow of the timer in reconnectTimers
    strays,       \* flows of reconnection timers no longer in the map
    sticky,       \* the flow of the timer in stickyRenewalTimers
    straySticky,  \* flows of renewal timers no longer in the map
    wish,         \* history: the flow last started by the service, None once it ended
    failed,       \* history: a start threw since the service's last call
    misrenewed,   \* history: a renewal of another flow than `wish` began
    overlapped,   \* history: an operation or a command came while another was in progress
    events        \* calls and failures that may still come

memory == <<current, socket, starts, stopping, closing, renewing>>
timers == <<reconnect, strays, sticky, straySticky>>
history == <<wish, failed, misrenewed>>
vars == <<memory, timers, history, overlapped, events>>

-----------------------------------------------------------------------------
SocketRow == [live : BOOLEAN, phone : Flows, code : {"needed", "asking", "done"}]
RenewRow == [sock : Socket \cup {NoSocket}, phone : Flows]

TypeOK ==
    /\ current \in Socket \cup {NoSocket}
    /\ socket \in [Socket -> SocketRow]
    /\ starts \in [Slot -> Flows \cup {None}]
    /\ stopping \in Socket \cup {NoSocket}
    /\ closing \in Flows \cup {None}
    /\ renewing \in RenewRow
    /\ reconnect \in Flows \cup {None}
    /\ strays \subseteq Flows
    /\ sticky \in Flows \cup {None}
    /\ straySticky \subseteq Flows
    /\ wish \in Flows \cup {None}
    /\ failed \in BOOLEAN
    /\ misrenewed \in BOOLEAN
    /\ overlapped \in BOOLEAN
    /\ events \in 0 .. MaxEvents

GoneSocket == [live |-> FALSE, phone |-> NoPhone, code |-> "done"]
NoRenewal == [sock |-> NoSocket, phone |-> NoPhone]

Init ==
    /\ current = NoSocket
    /\ socket = [s \in Socket |-> GoneSocket]
    /\ starts = [i \in Slot |-> None]
    /\ stopping = NoSocket
    /\ closing = None
    /\ renewing = NoRenewal
    /\ reconnect = None
    /\ strays = {}
    /\ sticky = None
    /\ straySticky = {}
    /\ wish = None
    /\ failed = FALSE
    /\ misrenewed = FALSE
    /\ overlapped = FALSE
    /\ events = MaxEvents

-----------------------------------------------------------------------------
Live(s) == socket[s].live
InProgress(i) == starts[i] # None
Asking(s) == socket[s].code = "asking"

\* No operation holds a reference to socket s: its number may be used again.
Unused(s) == ~Live(s) /\ ~Asking(s) /\ stopping # s /\ renewing.sock # s

\* socket.end(): a pending request of a code still holds the socket's entry.
Ended(r) == IF r.code = "asking" THEN [r EXCEPT !.live = FALSE] ELSE GoneSocket
End(s) == [socket EXCEPT ![s] = Ended(@)]

\* scheduleReconnect sets a timer without clearing the one it replaces in the map.
ScheduleReconnect(phone) ==
    /\ strays' = strays \cup ({reconnect} \ {None})
    /\ reconnect' = phone

-----------------------------------------------------------------------------
(* startSession *)

\* Mutant: a session with a socket is taken as started, whatever its flow.
HasAnyFlow(phone) == current # NoSocket

\* The idempotence check of startSession.
HasFlow(phone) == current # NoSocket /\ socket[current].phone = phone

\* Mutant: replacing a flow forgets its socket without ending it.
EnterStartKeepsSocket(i, phone) ==
    /\ ~InProgress(i)
    /\ reconnect' = None
    /\ IF HasFlow(phone)
       THEN UNCHANGED <<current, socket, starts>>
       ELSE /\ current' = NoSocket
            /\ socket' = socket
            /\ starts' = [starts EXCEPT ![i] = phone]

\* A repeated request of a flow that has its socket returns; one of another flow
\* ends the socket.  The renewal timer is left alone.
EnterStart(i, phone) ==
    /\ ~InProgress(i)
    /\ reconnect' = None
    /\ IF HasFlow(phone)
       THEN UNCHANGED <<current, socket, starts>>
       ELSE /\ current' = NoSocket
            /\ socket' = IF current = NoSocket THEN socket ELSE End(current)
            /\ starts' = [starts EXCEPT ![i] = phone]

\* SessionService.connect and recoverConnectedSessions.
ServiceStart(i, phone) ==
    /\ events > 0
    /\ EnterStart(i, phone)
    /\ wish' = phone
    /\ failed' = FALSE
    /\ misrenewed' = FALSE
    /\ events' = events - 1
    /\ UNCHANGED <<stopping, closing, renewing, strays, sticky, straySticky>>

\* Mutant: a proxy that is down is reported and not tried again.
ProxyIsDownForGood(i) ==
    /\ InProgress(i)
    /\ events > 0
    /\ events' = events - 1
    /\ starts' = [starts EXCEPT ![i] = None]
    /\ UNCHANGED <<current, socket, stopping, closing, renewing, timers, history>>

\* prepareProxyAgents: the proxy does not answer; its key is rotated and the connection
\* tried again later.
ProxyIsDown(i) ==
    /\ InProgress(i)
    /\ events > 0
    /\ events' = events - 1
    /\ ScheduleReconnect(starts[i])
    /\ starts' = [starts EXCEPT ![i] = None]
    /\ UNCHANGED <<current, socket, stopping, closing, renewing, sticky, straySticky,
                   history>>

\* getOrCreateConfig, rotateStickyKey or useDbAuthState throws: nothing is scheduled, the
\* callers log or report the error.
StartThrows(i) ==
    /\ InProgress(i)
    /\ events > 0
    /\ events' = events - 1
    /\ starts' = [starts EXCEPT ![i] = None]
    /\ failed' = TRUE
    /\ UNCHANGED <<current, socket, stopping, closing, renewing, timers, wish, misrenewed>>

\* makeWASocket, once the proxy, the credentials and the version were awaited: the entry
\* of the map is overwritten, whatever it is by now, and with it the handle of the
\* renewal timer.  A phone whose credentials are not registered needs a code.
OpenSocket(i, s, registered) ==
    /\ InProgress(i)
    /\ Unused(s)
    /\ \A t \in Socket : Unused(t) => s <= t
    /\ socket' = [socket EXCEPT ![s] =
          [live |-> TRUE, phone |-> starts[i],
           code |-> IF starts[i] = NoPhone \/ registered THEN "done" ELSE "needed"]]
    /\ current' = s
    /\ starts' = [starts EXCEPT ![i] = None]
    /\ straySticky' = straySticky \cup ({sticky} \ {None})
    /\ sticky' = starts[i]
    /\ UNCHANGED <<stopping, closing, renewing, reconnect, strays, history, events>>

-----------------------------------------------------------------------------
(* stopSession *)

\* Mutant: the disconnection leaves the reconnection's timer set.
StopSessionKeepsTimer ==
    /\ events > 0
    /\ stopping = NoSocket
    /\ sticky' = None
    /\ current' = NoSocket
    /\ stopping' = current
    /\ wish' = None
    /\ failed' = FALSE
    /\ events' = events - 1
    /\ UNCHANGED <<socket, starts, closing, renewing, reconnect, strays, straySticky,
                   misrenewed>>

\* Timers of the maps are cleared and the socket taken out before the first await.
StopSession ==
    /\ events > 0
    /\ stopping = NoSocket
    /\ reconnect' = None
    /\ sticky' = None
    /\ current' = NoSocket
    /\ stopping' = current
    /\ wish' = None
    /\ failed' = FALSE
    /\ events' = events - 1
    /\ UNCHANGED <<socket, starts, closing, renewing, strays, straySticky, misrenewed>>

\* The logout returned or threw; the socket is ended either way.
Logout ==
    /\ stopping # NoSocket
    /\ socket' = End(stopping)
    /\ stopping' = NoSocket
    /\ UNCHANGED <<current, starts, closing, renewing, timers, history, events>>

-----------------------------------------------------------------------------
(* Events of a socket: handleConnectionUpdate and the code it asks for *)

\* "connecting", or a QR code, in the flow by phone.
ReadyForCode(s) ==
    /\ current = s
    /\ socket[s].code = "needed"
    /\ socket' = [socket EXCEPT ![s].code = "asking"]
    /\ UNCHANGED <<current, starts, stopping, closing, renewing, timers, history, events>>

\* The code arrived, whichever socket is the current one by now ...
CodeArrives(s) ==
    /\ Asking(s)
    /\ socket' = IF Live(s) THEN [socket EXCEPT ![s].code = "done"]
                            ELSE [socket EXCEPT ![s] = GoneSocket]
    /\ UNCHANGED <<current, starts, stopping, closing, renewing, timers, history, events>>

\* ... or failed: another request is set ...
CodeFails(s) ==
    /\ Asking(s)
    /\ socket' = IF Live(s) THEN [socket EXCEPT ![s].code = "needed"]
                            ELSE [socket EXCEPT ![s] = GoneSocket]
    /\ UNCHANGED <<current, starts, stopping, closing, renewing, timers, history, events>>

\* ... or, at the last, the session's entry is deleted, a reconnection scheduled and the
\* socket that asked ended.
CodeGivesUp(s) ==
    /\ Asking(s)
    /\ current' = NoSocket
    /\ socket' = [socket EXCEPT ![s] = GoneSocket]
    /\ ScheduleReconnect(socket[s].phone)
    /\ UNCHANGED <<starts, stopping, closing, renewing, sticky, straySticky, history,
                   events>>

\* The connection of a socket that was replaced closes: ignored.
CloseSuperseded(s) ==
    /\ Live(s) /\ current # s
    /\ socket' = End(s)
    /\ UNCHANGED <<current, starts, stopping, closing, renewing, timers, history, events>>

\* The connection of the current socket closes, for good (isDefinitive) ...
CloseCurrent(s) ==
    /\ Live(s) /\ current = s
    /\ current' = NoSocket
    /\ socket' = End(s)
    /\ sticky' = None

CloseForGood(s) ==
    /\ CloseCurrent(s)
    /\ wish' = None
    /\ UNCHANGED <<starts, stopping, closing, renewing, reconnect, strays, straySticky,
                   failed, misrenewed, events>>

\* ... or for a while: the sticky key is rotated ...
CloseForNow(s) ==
    /\ CloseCurrent(s)
    /\ closing = None
    /\ closing' = socket[s].phone
    /\ UNCHANGED <<starts, stopping, renewing, reconnect, strays, straySticky, history,
                   events>>

\* ... and the reconnection scheduled.
RetryAfterClose ==
    /\ closing # None
    /\ ScheduleReconnect(closing)
    /\ closing' = None
    /\ UNCHANGED <<current, socket, starts, stopping, renewing, sticky, straySticky,
                   history, events>>

-----------------------------------------------------------------------------
(* Timers *)

\* The reconnection's timer fires; its handle stays in the map until the next start, which
\* here clears it at once.
Reconnect(i) ==
    /\ reconnect # None
    /\ EnterStart(i, reconnect)
    /\ UNCHANGED <<stopping, closing, renewing, strays, sticky, straySticky, history,
                   events>>

\* So does one that was replaced in the map; the start clears the one that replaced it.
ReconnectStray(i, phone) ==
    /\ phone \in strays
    /\ EnterStart(i, phone)
    /\ strays' = strays \ {phone}
    /\ UNCHANGED <<stopping, closing, renewing, sticky, straySticky, history, events>>

\* performStickyRenewal returns at once without a socket ...
BeginRenewal(phone) ==
    IF current = NoSocket THEN UNCHANGED <<renewing, misrenewed>>
    ELSE /\ renewing = NoRenewal
         /\ renewing' = [sock |-> current, phone |-> phone]
         /\ misrenewed' = (misrenewed \/ phone # wish)

RenewSticky ==
    /\ sticky # None
    /\ sticky' = None
    /\ BeginRenewal(sticky)
    /\ UNCHANGED <<current, socket, starts, stopping, closing, reconnect, strays,
                   straySticky, wish, failed, events>>

RenewStray(phone) ==
    /\ phone \in straySticky
    /\ straySticky' = straySticky \ {phone}
    /\ BeginRenewal(phone)
    /\ UNCHANGED <<current, socket, starts, stopping, closing, reconnect, strays, sticky,
                   wish, failed, events>>

\* ... and once the key is rotated deletes the session's entry, whichever socket it is by
\* now, ends the one it read before, and starts again.
Renew(i) ==
    /\ renewing # NoRenewal
    /\ ~InProgress(i)
    /\ current' = NoSocket
    /\ socket' = End(renewing.sock)
    /\ renewing' = NoRenewal
    /\ reconnect' = None
    /\ starts' = [starts EXCEPT ![i] = renewing.phone]
    /\ UNCHANGED <<stopping, closing, strays, sticky, straySticky, history, events>>

RenewalFails ==
    /\ renewing # NoRenewal
    /\ events > 0
    /\ events' = events - 1
    /\ renewing' = NoRenewal
    /\ UNCHANGED <<current, socket, starts, stopping, closing, timers, history>>

-----------------------------------------------------------------------------
\* Operations between two of their awaits.
Operations ==
    {<<"start", i>> : i \in {j \in Slot : InProgress(j)}} \cup
    {<<"code", s>> : s \in {t \in Socket : Asking(t)}} \cup
    {<<"stop", s>> : s \in {stopping} \ {NoSocket}} \cup
    {<<"close", 0>> : phone \in {closing} \ {None}} \cup
    {<<"renew", s>> : s \in {renewing.sock} \ {NoSocket}}

\* The service calls, or WhatsApp ends the session.
Command ==
    \/ \E i \in Slot, phone \in Flows : ServiceStart(i, phone)
    \/ StopSession
    \/ \E s \in Socket : CloseForGood(s)

Step ==
    \/ \E i \in Slot :
        \/ ProxyIsDown(i) \/ StartThrows(i) \/ Reconnect(i) \/ Renew(i)
        \/ \E s \in Socket, registered \in BOOLEAN : OpenSocket(i, s, registered)
        \/ \E phone \in Flows : ReconnectStray(i, phone)
    \/ \E s \in Socket :
        \/ ReadyForCode(s) \/ CodeArrives(s) \/ CodeFails(s) \/ CodeGivesUp(s)
        \/ CloseSuperseded(s) \/ CloseForNow(s)
    \/ \E phone \in Flows : RenewStray(phone)
    \/ Logout \/ RetryAfterClose \/ RenewSticky \/ RenewalFails

Next ==
    \/ Command /\ overlapped' = (overlapped \/ Operations # {})
    \/ Step /\ overlapped' = (overlapped \/ \E a, b \in Operations' : a # b)

Spec == Init /\ [][Next]_vars

-----------------------------------------------------------------------------
(* Properties *)

\* Unless two of its operations overlapped, the provider holds one socket of the session:
\* no other that it opened is still connected.
OneSocket ==
    ~overlapped => \A s \in Socket : Live(s) => s \in {current, stopping}

\* Unless operations overlapped, a session the user disconnected, or WhatsApp logged out,
\* has no socket and nothing that would open one.
EndedStaysEnded ==
    wish = None /\ ~overlapped =>
        /\ current = NoSocket /\ reconnect = None /\ strays = {} /\ closing = None
        /\ \A i \in Slot : ~InProgress(i)

\* A session that was started and has not ended has a socket, or something in progress or
\* set that will open one, unless a start threw.
NeverForgotten ==
    wish # None /\ ~failed =>
        \/ current # NoSocket \/ reconnect # None \/ strays # {} \/ closing # None
        \/ \E i \in Slot : InProgress(i)

\* Unless operations overlapped, the socket is of the flow the user asked for, until a
\* renewal timer left by the flow it replaced fires.
FlowIsTheUsers ==
    current # NoSocket /\ wish # None /\ ~overlapped /\ ~misrenewed =>
        socket[current].phone = wish
=============================================================================
