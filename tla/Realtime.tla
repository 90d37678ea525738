------------------------------ MODULE Realtime ------------------------------
(***************************************************************************)
(* The live channel of one user of ZaBot: the gateway that puts his        *)
(* sockets into his room (SessionGateway), and the app's end of it: the    *)
(* client that opens the sockets (RealtimeClient), and the repository that *)
(* listens and asks for a connection (ApiConnectionRepository).            *)
(*                                                                         *)
(* A QR or a pairing code is published once: it reaches the app only if    *)
(* the app's socket is in the room and has the listener by then.           *)
(*                                                                         *)
(* Two repositories of the app begin to connect when it starts, and the    *)
(* user may ask at any moment.  The app runs one callback at a time, and   *)
(* what awaits a completed future before the next event (Resuming).        *)
(*                                                                         *)
(* Left out: what events say, snapshots over REST, and the end of the      *)
(* app's session, which leaves the socket alone.                           *)
(***************************************************************************)
EXTENDS Naturals

CONSTANTS
    MaxSockets,   \* bound: sockets the app opens
    MaxDrops      \* bound: connections that drop, fail or are refused

ASSUME RealtimeAssumption == MaxSockets \in Nat /\ MaxDrops \in Nat

VARIABLES
    signedIn,     \* the store holds an access token
    current,      \* _socket
    connecting,   \* _connecting: the socket whose handshake it is
    link,         \* sockets, as app and gateway see them
    handshake,    \* the future of every socket's handshake
    caller,       \* calls of ensureConnected in progress
    registered,   \* _listenersRegistered
    hearing,      \* the socket that has the listener of `session`
    asked,        \* history: the socket on which the app awaits the code it asked for
    waited,       \* history: it asked after a handshake, rather than on a socket found connected
    deaf,         \* history: a socket was opened after the listener was registered, or none was there then
    drops         \* drops left

realtimeVars ==
    <<signedIn, current, connecting, link, handshake, caller, registered, hearing, asked, waited, deaf, drops>>

Sockets == 1 .. MaxSockets
NoLink == 0
Callers == {"sessao", "campanhas", "toque"}
Call(pc, s) == [pc |-> pc, sock |-> s]

\* Both repositories are built before anything else happens: each call is at its first await.
RealtimeInit ==
    /\ signedIn \in BOOLEAN
    /\ current = NoLink /\ connecting = NoLink /\ hearing = NoLink /\ asked = NoLink
    /\ link = [s \in Sockets |-> "none"]
    /\ handshake = [s \in Sockets |-> "none"]
    /\ caller = [c \in Callers |-> IF c = "toque" THEN Call("idle", NoLink) ELSE Call("token", NoLink)]
    /\ registered = FALSE /\ waited = FALSE /\ deaf = FALSE
    /\ drops = MaxDrops

Connected(s) == s # NoLink /\ link[s] \in {"open", "joined"}

\* Calls whose future has completed.
Resuming == {c \in Callers : caller[c].pc = "waiting" /\ handshake[caller[c].sock] # "pending"}

-----------------------------------------------------------------------------
(* The app *)

\* _registerRealtimeListeners: once, on whatever socket there is.
Register ==
    /\ registered' = TRUE
    /\ hearing' = IF registered THEN hearing ELSE current
    /\ deaf' = (deaf \/ (~registered /\ current = NoLink))

\* After ensureConnected: the listeners, then the snapshot or, for connect, the request.
Proceed(c, after) ==
    /\ caller' = [caller EXCEPT ![c] = Call("idle", NoLink)]
    /\ IF c = "campanhas" THEN UNCHANGED <<registered, hearing, deaf>> ELSE Register
    /\ IF c = "toque" THEN asked' = current /\ waited' = after ELSE UNCHANGED <<asked, waited>>

\* The user asks for a connection: a connected socket will do, or the handshake in progress.
AskForCode ==
    /\ Resuming = {}
    /\ signedIn /\ caller["toque"].pc = "idle"
    /\ IF Connected(current) THEN Proceed("toque", FALSE)
       ELSE /\ caller' = [caller EXCEPT !["toque"] =
                  IF connecting # NoLink THEN Call("waiting", connecting) ELSE Call("token", NoLink)]
            /\ UNCHANGED <<registered, hearing, deaf, asked, waited>>
    /\ UNCHANGED <<signedIn, current, connecting, link, handshake, drops>>

\* The token is read: without one the call returns, without a socket ...
ReturnUnconnected(c) ==
    /\ Resuming = {}
    /\ caller[c].pc = "token" /\ ~signedIn
    /\ Proceed(c, FALSE)
    /\ UNCHANGED <<signedIn, current, connecting, link, handshake, drops>>

\* ... with one, the socket there is by now is disposed of, and a new one dials.
Dial(c, s) ==
    /\ Resuming = {}
    /\ caller[c].pc = "token" /\ signedIn
    /\ link[s] = "none" /\ \A t \in 1 .. s - 1 : link[t] # "none"
    /\ link' = [t \in Sockets |-> IF t = s THEN "dialing" ELSE IF t = current THEN "gone" ELSE link[t]]
    /\ handshake' = [handshake EXCEPT ![s] = "pending"]
    /\ current' = s /\ connecting' = s
    /\ caller' = [caller EXCEPT ![c] = Call("waiting", s)]
    /\ asked' = NoLink
    /\ deaf' = (deaf \/ registered)
    /\ UNCHANGED <<signedIn, registered, hearing, waited, drops>>

\* finish: whichever handshake is in progress is forgotten.
Settle(s, outcome) ==
    /\ handshake' = [handshake EXCEPT ![s] = IF @ = "pending" THEN outcome ELSE @]
    /\ connecting' = NoLink

\* A call whose handshake is over goes on; at a failure it ends, without listeners or request.
Resume(c) ==
    /\ c \in Resuming
    /\ IF handshake[caller[c].sock] = "done" THEN Proceed(c, TRUE)
       ELSE /\ caller' = [caller EXCEPT ![c] = Call("idle", NoLink)]
            /\ UNCHANGED <<registered, hearing, deaf, asked, waited>>
    /\ UNCHANGED <<signedIn, current, connecting, link, handshake, drops>>

\* The handshake takes too long; disposing of a socket does not stop its timer.
TimeOutHandshake(s) ==
    /\ Resuming = {}
    /\ handshake[s] = "pending"
    /\ Settle(s, "failed")
    /\ UNCHANGED <<signedIn, current, link, caller, registered, hearing, asked, waited, deaf, drops>>

SignIn ==
    /\ Resuming = {}
    /\ ~signedIn
    /\ signedIn' = TRUE
    /\ UNCHANGED <<current, connecting, link, handshake, caller, registered, hearing, asked, waited, deaf, drops>>

-----------------------------------------------------------------------------
(* The connection and the gateway *)

LinkBecomes(s, state) ==
    /\ link' = [link EXCEPT ![s] = state]
    /\ UNCHANGED <<signedIn, current, caller, registered, hearing, waited, deaf>>

\* The websocket opens: for the app, it is connected.
Connect(s) ==
    /\ Resuming = {}
    /\ link[s] = "dialing"
    /\ LinkBecomes(s, "open")
    /\ UNCHANGED <<connecting, handshake, asked, drops>>

\* Mutation of HandleConnection: the app is told before its socket is in the room.
HandleConnectionEarly(s) ==
    /\ Resuming = {}
    /\ link[s] = "open"
    /\ \/ handshake[s] = "pending" /\ Settle(s, "done") /\ LinkBecomes(s, "open")
       \/ handshake[s] # "pending" /\ LinkBecomes(s, "joined") /\ UNCHANGED <<connecting, handshake>>
    /\ UNCHANGED <<asked, drops>>

\* handleConnection: the socket joins the room, and session_ready reaches the app.
HandleConnection(s) ==
    /\ Resuming = {}
    /\ link[s] = "open"
    /\ LinkBecomes(s, "joined")
    /\ Settle(s, "done")
    /\ UNCHANGED <<asked, drops>>

BreakLink(s) ==
    /\ Resuming = {}
    /\ drops > 0 /\ drops' = drops - 1
    /\ asked' = IF asked = s THEN NoLink ELSE asked

\* handleConnection refuses the token, which a socket never reads again.
Refuse(s) ==
    /\ BreakLink(s)
    /\ link[s] = "open"
    /\ LinkBecomes(s, "refused")
    /\ UNCHANGED <<connecting, handshake>>

\* The connection is lost, or was never made ...
LoseConnection(s) ==
    /\ BreakLink(s)
    /\ Connected(s)
    /\ LinkBecomes(s, "down")
    /\ UNCHANGED <<connecting, handshake>>

FailToConnect(s) ==
    /\ BreakLink(s)
    /\ link[s] = "dialing"
    /\ LinkBecomes(s, "down")
    /\ Settle(s, "failed")

\* ... and the socket dials again by itself.
Redial(s) ==
    /\ Resuming = {}
    /\ link[s] = "down"
    /\ LinkBecomes(s, "dialing")
    /\ UNCHANGED <<connecting, handshake, asked, drops>>

RealtimeNext ==
    \/ AskForCode \/ SignIn
    \/ \E c \in Callers : ReturnUnconnected(c) \/ Resume(c) \/ \E s \in Sockets : Dial(c, s)
    \/ \E s \in Sockets :
        \/ TimeOutHandshake(s) \/ Connect(s) \/ HandleConnection(s)
        \/ Refuse(s) \/ LoseConnection(s) \/ FailToConnect(s) \/ Redial(s)

RealtimeSpec == RealtimeInit /\ [][RealtimeNext]_realtimeVars

-----------------------------------------------------------------------------
\* emitSessionEvent reaches the handler of the app through this socket.
Reaches(s) == link[s] = "joined" /\ hearing = s

\* The code the app asks for after a handshake reaches it, unless the connection dropped meanwhile, or the
\* listener was registered without a socket or on one that was replaced (session.gateway.ts, handleConnection:
\* only from the room may the client ask).
CodeReachesApp == asked # NoLink /\ waited /\ ~deaf => Reaches(asked)
=============================================================================
