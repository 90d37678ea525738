--------------------------- MODULE SessionSharding ---------------------------
(***************************************************************************)
(* The WhatsApp session of one user, sharded over the processes of ZaBot:  *)
(* the row of the database that names its owner, and what each process     *)
(* keeps in memory and has in flight.                                      *)
(*                                                                         *)
(* A process claims the row, adds the session to sessionOwners and starts  *)
(* it; the updates of its provider are written to the row by handlers that *)
(* nothing orders; a timer renews the heartbeat of the claim and another   *)
(* looks for connected sessions that nobody owns.  An action is the code   *)
(* from one await to the next, and a task is an await, of which a process  *)
(* has one of each kind.  Of the provider, the module has the socket in    *)
(* the map, the timer, the awaits around them and the credentials.  What   *)
(* overlapping operations leave behind in it, superseded sockets and       *)
(* replaced timers, is in BaileysConnection; here it is noted (`blurred`). *)
(*                                                                         *)
(* A process that crashes comes back at once, with another worker id.      *)
(***************************************************************************)
EXTENDS Naturals

CONSTANTS
    Process,      \* processes of the backend
    NoOne,        \* the owner of a session that is not claimed
    Gone,         \* the owner of a session claimed by a process that crashed
    MaxEvents     \* bound: requests of the user, renewals of the proxy's key, codes asked
                  \* for, writes of the credentials, closed connections, crashes,
                  \* heartbeats that lapse and calls that fail

ASSUME ShardingAssumption ==
    /\ NoOne \notin Process /\ Gone \notin Process /\ NoOne # Gone
    /\ MaxEvents \in Nat

Status == {"DESCONECTADA", "CONECTANDO", "CONECTADA"}

\* Calls of startSession: of a request, of a timer or a renewal, of a recovery.
Starts == {"start", "restart", "resume"}

Task ==
    Starts \cup Status \cup  \* Status: the write of an update
    {"asked", "recovered",   \* the claim of a request, or of a recovery, was made
     "found",                \* a recovery read the row as connected
     "rotate",               \* rotateStickyKey, before a reconnection is scheduled
     "timer",                \* the reconnection's timer
     "renew",                \* rotateStickyKey of performStickyRenewal
     "code",                 \* a QR code or a pairing code
     "end",                  \* clearAuthState of a connection closed for good
     "save",                 \* a write of the credentials or of the keys
     "logout", "leave", "clear",  \* disconnect: stopSession, releaseClaim, session.update
     "release"}              \* releaseClaim, after an end or a recovery that threw

VARIABLES
    status,      \* the row: its status,
    workerId,    \* its owner,
    stale,       \* and whether the owner's heartbeat is older than the threshold
    paired,      \* whether the database has the session's credentials
    owns,        \* processes with the session in sessionOwners
    sock,        \* every process's entry of the map of sockets
    tasks,       \* what every process awaits
    wish,        \* history: whether the user wants the session, as far as WhatsApp lets it
    erased,      \* history: the session's end deleted its credentials
    failed,      \* history: processes where a start or a deletion threw since the last start
    refused,     \* history: a call to the database of the session's end threw
    blurred,     \* history: the session was claimed or ended while something else was going on
    events       \* what the bound still allows

row == <<status, workerId, stale>>
history == <<wish, erased, failed, refused, blurred>>
vars == <<row, paired, owns, sock, tasks, history, events>>

TypeOK ==
    /\ status \in Status
    /\ workerId \in Process \cup {NoOne, Gone}
    /\ stale \in BOOLEAN
    /\ paired \in BOOLEAN
    /\ owns \subseteq Process
    /\ sock \in [Process -> {"none", "up", "open"}]
    /\ tasks \subseteq Process \X Task
    /\ wish \in BOOLEAN
    /\ erased \in BOOLEAN
    /\ failed \subseteq Process
    /\ refused \in BOOLEAN
    /\ blurred \in BOOLEAN
    /\ events \in 0 .. MaxEvents

Init ==
    /\ status = "DESCONECTADA" /\ workerId = NoOne /\ stale = FALSE
    /\ paired = FALSE
    /\ owns = {}
    /\ sock = [p \in Process |-> "none"]
    /\ tasks = {}
    /\ wish = FALSE
    /\ erased = FALSE
    /\ failed = {}
    /\ refused = FALSE
    /\ blurred = FALSE
    /\ events = MaxEvents

-----------------------------------------------------------------------------
Does(p, t) == <<p, t>> \in tasks
DoesAny(p, ts) == \E t \in ts : Does(p, t)

\* Process p ends the awaits `done` and begins those of `next`.
Go(p, done, next) == tasks' = (tasks \ ({p} \X done)) \cup ({p} \X next)

\* What the bound counts: a request, a fault.
Event ==
    /\ events > 0
    /\ events' = events - 1

\* A process has a connection, or is on the way to one.
Holds(p) == sock[p] # "none" \/ DoesAny(p, Starts \cup {"rotate", "timer"})

\* It is between two awaits, of whatever but a save.
Busy(p) == DoesAny(p, Task \ {"timer", "save"})

\* The end of the session is in progress at process p.
Leaving == {"logout", "leave", "clear"}
Parting(p) == DoesAny(p, Leaving \cup {"end", "release", "DESCONECTADA"})

\* Another process has the session, or something to do with it.
Others(p) == \E q \in Process \ {p} : Holds(q) \/ Busy(q)

\* A claim takes over from a process that is alive, or comes while the session ends.
Crossed(p) == (stale /\ Others(p)) \/ \E q \in Process : Parting(q)

Saving == \E p \in Process : Does(p, "save")

\* handleProviderUpdate, up to its first await: an update of a session that is not
\* in sessionOwners is ignored.
Updates(p, s) == IF p \in owns THEN {s} ELSE {}

\* Mutant: whoever asks gets the session.
ClaimableByAll(p) == TRUE

\* Mutant: a claim never expires.
ClaimableNeverStale(p) == workerId \in {NoOne, p}

\* The condition of claimSession.
Claimable(p) == workerId \in {NoOne, p} \/ stale

Claim(p) == workerId' = p /\ stale' = FALSE

\* releaseClaim.
ReleaseRow(p) ==
    IF workerId = p THEN workerId' = NoOne /\ stale' = FALSE
                    ELSE UNCHANGED <<workerId, stale>>

\* startSession, up to its first await: the reconnection's timer is cleared, a socket of
\* the same flow is enough and one of another flow is ended.
Start(p, by, how) ==
    \/ /\ sock[p] # "none"
       /\ Go(p, {by, "timer"}, {})
       /\ sock' = sock
    \/ /\ ~Does(p, how)
       /\ Go(p, {by, "timer"}, {how})
       /\ sock' = [sock EXCEPT ![p] = "none"]

-----------------------------------------------------------------------------
(* connect *)

Connect(p) ==
    /\ Event
    /\ Claimable(p) /\ ~Does(p, "asked")
    /\ Claim(p)
    /\ Go(p, {}, {"asked"})
    /\ wish' = TRUE
    /\ erased' = FALSE
    /\ refused' = FALSE
    /\ blurred' = (blurred \/ Crossed(p) \/ DoesAny(p, {"recovered", "resume"}))
    /\ UNCHANGED <<status, paired, owns, sock, failed>>

\* The session is another process's: the request is ignored.
ConnectDenied(p) ==
    /\ Event
    /\ ~Claimable(p)
    /\ UNCHANGED <<row, paired, owns, sock, tasks, history>>

StartClaimed(p, by, how) ==
    /\ Does(p, by)
    /\ Start(p, by, how)
    /\ owns' = owns \cup {p}
    /\ failed' = failed \ {p}
    /\ UNCHANGED <<row, paired, wish, erased, refused, blurred, events>>

StartAsked(p) == StartClaimed(p, "asked", "start")

-----------------------------------------------------------------------------
(* disconnect *)

\* Mutant: stopSession leaves the reconnection's timer set.
DisconnectKeepsTimer(p) ==
    /\ Event
    /\ ~DoesAny(p, Leaving)
    /\ IF sock[p] = "none" THEN Go(p, {}, {"leave"}) /\ owns' = owns \ {p}
                           ELSE Go(p, {}, {"logout"}) /\ owns' = owns
    /\ sock' = [sock EXCEPT ![p] = "none"]
    /\ wish' = FALSE
    /\ refused' = FALSE
    /\ blurred' = (blurred \/ Others(p) \/ Busy(p))
    /\ UNCHANGED <<row, paired, erased, failed>>

\* stopSession takes out timer and socket, but reaches no start, rotation or renewal in
\* progress.
Disconnect(p) ==
    /\ Event
    /\ ~DoesAny(p, Leaving)
    /\ IF sock[p] = "none" THEN Go(p, {"timer"}, {"leave"}) /\ owns' = owns \ {p}
                           ELSE Go(p, {"timer"}, {"logout"}) /\ owns' = owns
    /\ sock' = [sock EXCEPT ![p] = "none"]
    /\ wish' = FALSE
    /\ refused' = FALSE
    /\ blurred' = (blurred \/ Others(p) \/ Busy(p))
    /\ UNCHANGED <<row, paired, erased, failed>>

\* The logout returned or threw; the credentials are deleted, and the provider says so.
\* A save in flight by now writes some of them again.
LoggedOut(p) ==
    /\ Does(p, "logout")
    /\ Go(p, {"logout"}, {"leave"} \cup Updates(p, "DESCONECTADA"))
    /\ owns' = owns \ {p}
    /\ paired' = FALSE
    /\ erased' = TRUE
    /\ blurred' = (blurred \/ Saving)
    /\ UNCHANGED <<row, sock, wish, failed, refused, events>>

DisconnectReleases(p) ==
    /\ Does(p, "leave")
    /\ Go(p, {"leave"}, {"clear"})
    /\ ReleaseRow(p)
    /\ UNCHANGED <<status, paired, owns, sock, history, events>>

\* The last update of disconnect, whoever owns the row by now.
DisconnectUpdates(p) ==
    /\ Does(p, "clear")
    /\ Go(p, {"clear"}, {})
    /\ status' = "DESCONECTADA" /\ workerId' = NoOne /\ stale' = FALSE
    /\ UNCHANGED <<paired, owns, sock, history, events>>

\* The deletion, the release or the update throws, and with it the request.  After the
\* deletion the session is still in sessionOwners.
DisconnectThrows(p, t) ==
    /\ Event
    /\ t \in Leaving /\ Does(p, t)
    /\ Go(p, {t}, {})
    /\ failed' = IF t = "logout" THEN failed \cup {p} ELSE failed
    /\ refused' = TRUE
    /\ UNCHANGED <<row, paired, owns, sock, wish, erased, blurred>>

-----------------------------------------------------------------------------
(* Heartbeats and recovery *)

RenewHeartbeat(p) ==
    /\ p \in owns /\ workerId = p
    /\ stale
    /\ stale' = FALSE
    /\ UNCHANGED <<status, workerId, paired, owns, sock, tasks, history, events>>

\* No process renews the claim: it gets stale.
Expire ==
    /\ workerId # NoOne /\ workerId \notin owns
    /\ ~stale
    /\ stale' = TRUE
    /\ UNCHANGED <<status, workerId, paired, owns, sock, tasks, history, events>>

\* The owner's heartbeat lapses: a pause, or updates that failed.
Lapse ==
    /\ Event
    /\ workerId \in owns
    /\ ~stale
    /\ stale' = TRUE
    /\ UNCHANGED <<status, workerId, paired, owns, sock, tasks, history>>

\* recoverConnectedSessions reads the row ...
FindConnected(p) ==
    /\ p \notin owns /\ ~DoesAny(p, {"found", "recovered", "resume"})
    /\ status = "CONECTADA"
    /\ Go(p, {}, {"found"})
    /\ UNCHANGED <<row, paired, owns, sock, history, events>>

\* ... and claims it, whatever its status is by now.  If the session ended meanwhile, or a
\* call of its end threw and left the row as it was, this brings it back (`blurred`) ...
Recover(p) ==
    /\ Does(p, "found")
    /\ IF Claimable(p)
       THEN /\ Claim(p)
            /\ Go(p, {"found"}, {"recovered"})
            /\ blurred' = (blurred \/ Crossed(p) \/ ~wish \/ p \in owns \/ Does(p, "asked"))
       ELSE Go(p, {"found"}, {}) /\ UNCHANGED <<workerId, stale, blurred>>
    /\ UNCHANGED <<status, paired, owns, sock, wish, erased, failed, refused, events>>

\* ... and starts it.
StartRecovered(p) == StartClaimed(p, "recovered", "resume")

-----------------------------------------------------------------------------
(* handleProviderUpdate *)

\* An update that says the session was logged out ends with the release of the claim.
GoOn(p, s) ==
    IF s = "DESCONECTADA" THEN Go(p, {s}, {"release"}) /\ owns' = owns \ {p}
                          ELSE Go(p, {s}, {}) /\ owns' = owns

\* Mutant: the end of a session is written and its claim kept.
WriteKeepsClaim(p, s) ==
    /\ Does(p, s)
    /\ Go(p, {s}, {})
    /\ status' = s
    /\ UNCHANGED <<workerId, stale, paired, owns, sock, history, events>>

\* The row is written by the user's id, whoever owns it.
Write(p, s) ==
    /\ Does(p, s)
    /\ GoOn(p, s)
    /\ status' = s
    /\ UNCHANGED <<workerId, stale, paired, sock, history, events>>

\* An update that cannot be written is logged, and the handler goes on.
WriteThrows(p, s) ==
    /\ Event
    /\ Does(p, s)
    /\ GoOn(p, s)
    /\ refused' = (refused \/ s = "DESCONECTADA")
    /\ UNCHANGED <<row, paired, sock, wish, erased, failed, blurred>>

Release(p) ==
    /\ Does(p, "release")
    /\ Go(p, {"release"}, {})
    /\ ReleaseRow(p)
    /\ UNCHANGED <<status, paired, owns, sock, history, events>>

\* Logged, or the end of the recovery's scan.
ReleaseThrows(p) ==
    /\ Event
    /\ Does(p, "release")
    /\ Go(p, {"release"}, {})
    /\ refused' = TRUE
    /\ UNCHANGED <<row, paired, owns, sock, wish, erased, failed, blurred>>

-----------------------------------------------------------------------------
(* The provider of a process *)

\* The session's entry is overwritten, whatever it is by now.
OpenSocket(p, how) ==
    /\ Does(p, how)
    /\ Go(p, {how}, {})
    /\ sock' = [sock EXCEPT ![p] = "up"]
    /\ blurred' = (blurred \/ sock[p] # "none" \/ DoesAny(p, {"renew", "code"}))
    /\ UNCHANGED <<row, paired, owns, wish, erased, failed, refused, events>>

\* A start that throws is undone by the recovery only.
StartThrows(p, how) ==
    /\ Event
    /\ Does(p, how)
    /\ IF how = "resume"
       THEN Go(p, {how}, {"release"}) /\ owns' = owns \ {p} /\ failed' = failed
       ELSE Go(p, {how}, {}) /\ owns' = owns /\ failed' = failed \cup {p}
    /\ UNCHANGED <<row, paired, sock, wish, erased, refused, blurred>>

\* The proxy does not answer: its key is rotated ...
ProxyFails(p, how) ==
    /\ Event
    /\ Does(p, how)
    /\ Go(p, {how}, {"rotate"} \cup Updates(p, "CONECTANDO"))
    /\ UNCHANGED <<row, paired, owns, sock, history>>

\* ... as when the connection is lost for a while, or the pairing needs a new one, ...
Drop(p) ==
    /\ Event
    /\ sock[p] # "none"
    /\ sock' = [sock EXCEPT ![p] = "none"]
    /\ Go(p, {}, {"rotate"} \cup Updates(p, "CONECTANDO"))
    /\ UNCHANGED <<row, paired, owns, history>>

\* ... and a reconnection scheduled, whether or not the session was ended meanwhile.
ScheduleReconnect(p) ==
    /\ Does(p, "rotate")
    /\ Go(p, {"rotate"}, {"timer"})
    /\ blurred' = (blurred \/ Does(p, "timer"))
    /\ UNCHANGED <<row, paired, owns, sock, wish, erased, failed, refused, events>>

Reconnect(p) ==
    /\ Does(p, "timer")
    /\ Start(p, "timer", "restart")
    /\ UNCHANGED <<row, paired, owns, history, events>>

\* The proxy's key is rotated under an open socket ...
BeginRenewal(p) ==
    /\ Event
    /\ sock[p] # "none" /\ ~Does(p, "renew")
    /\ Go(p, {}, {"renew"})
    /\ UNCHANGED <<row, paired, owns, sock, history>>

\* ... which is then ended, and the session started again.
Renew(p) ==
    /\ Does(p, "renew") /\ ~Does(p, "restart")
    /\ Go(p, {"renew", "timer"}, {"restart"} \cup Updates(p, "CONECTANDO"))
    /\ sock' = [sock EXCEPT ![p] = "none"]
    /\ UNCHANGED <<row, paired, owns, history, events>>

RenewalThrows(p) ==
    /\ Event
    /\ Does(p, "renew")
    /\ Go(p, {"renew"}, {})
    /\ UNCHANGED <<row, paired, owns, sock, history>>

\* A code to pair the device is asked for, or drawn, ...
AskCode(p) ==
    /\ Event
    /\ sock[p] = "up" /\ ~Does(p, "code")
    /\ Go(p, {}, {"code"})
    /\ UNCHANGED <<row, paired, owns, sock, history>>

\* ... and published, as is a failure that will be tried again.
CodeComes(p) ==
    /\ Does(p, "code")
    /\ Go(p, {"code"}, Updates(p, "CONECTANDO"))
    /\ UNCHANGED <<row, paired, owns, sock, history, events>>

\* The last failure takes the socket out and schedules a reconnection, whether or not the
\* session was ended meanwhile.
CodeGivesUp(p) ==
    /\ Does(p, "code")
    /\ Go(p, {"code"}, {"timer"} \cup Updates(p, "CONECTANDO"))
    /\ sock' = [sock EXCEPT ![p] = "none"]
    /\ blurred' = (blurred \/ Does(p, "timer"))
    /\ UNCHANGED <<row, paired, owns, wish, erased, failed, refused, events>>

\* WhatsApp accepts the credentials, or the user paired the device.
Opens(p) ==
    /\ sock[p] = "up"
    /\ sock' = [sock EXCEPT ![p] = "open"]
    /\ Go(p, {}, Updates(p, "CONECTADA"))
    /\ UNCHANGED <<row, paired, owns, history, events>>

\* The library changes credentials or keys while its socket lives, the logout included ...
BeginSave(p) ==
    /\ Event
    /\ sock[p] # "none" \/ Does(p, "logout")
    /\ ~Does(p, "save")
    /\ Go(p, {}, {"save"})
    /\ UNCHANGED <<row, paired, owns, sock, history>>

\* ... and rows of session_auth_keys are written.
SaveCreds(p) ==
    /\ Does(p, "save")
    /\ Go(p, {"save"}, {})
    /\ paired' = TRUE
    /\ UNCHANGED <<row, owns, sock, history, events>>

\* WhatsApp logs the device out, or gives its connection to another process ...
CloseForGood(p) ==
    /\ Event
    /\ sock[p] # "none" /\ ~Does(p, "end")
    /\ sock' = [sock EXCEPT ![p] = "none"]
    /\ Go(p, {}, {"end"})
    /\ refused' = FALSE
    /\ blurred' = (blurred \/ Busy(p) \/ Does(p, "timer"))
    /\ UNCHANGED <<row, paired, owns, wish, erased, failed>>

\* ... and the credentials are deleted, whoever uses them by now.
Ended(p) ==
    /\ Does(p, "end")
    /\ Go(p, {"end"}, Updates(p, "DESCONECTADA"))
    /\ paired' = FALSE
    /\ erased' = TRUE
    /\ wish' = FALSE
    /\ blurred' = (blurred \/ Saving)
    /\ UNCHANGED <<row, owns, sock, failed, refused, events>>

\* The deletion throws, and nobody catches it.  The process goes on, still an owner, if
\* it listens to such errors, as Sentry does; else it dies, which is a crash.
EndThrows(p) ==
    /\ Event
    /\ Does(p, "end")
    /\ Go(p, {"end"}, {})
    /\ wish' = FALSE
    /\ failed' = failed \cup {p}
    /\ refused' = TRUE
    /\ UNCHANGED <<row, paired, owns, sock, erased, blurred>>

\* A crash loses the memory of the process, and what it had in flight.
Crash(p) ==
    /\ Event
    /\ owns' = owns \ {p}
    /\ sock' = [sock EXCEPT ![p] = "none"]
    /\ tasks' = tasks \ ({p} \X Task)
    /\ workerId' = IF workerId = p THEN Gone ELSE workerId
    /\ failed' = failed \ {p}
    /\ blurred' = (blurred \/ (~wish /\ Busy(p)) \/ Does(p, "end"))
    /\ UNCHANGED <<status, stale, paired, wish, erased, refused>>

-----------------------------------------------------------------------------
\* Steps that follow from what a process awaited, and from the timers of the service.
Continue(p) ==
    \/ StartAsked(p) \/ StartRecovered(p)
    \/ LoggedOut(p) \/ DisconnectReleases(p) \/ DisconnectUpdates(p)
    \/ FindConnected(p) \/ Recover(p)
    \/ Release(p) \/ Ended(p)
    \/ \E s \in Status : Write(p, s)

\* Calls to the database that fail.
Throws(p) ==
    \/ \E t \in Task : DisconnectThrows(p, t)
    \/ \E s \in Status : WriteThrows(p, s)
    \/ \E how \in Starts : StartThrows(p, how)
    \/ ReleaseThrows(p) \/ RenewalThrows(p) \/ EndThrows(p)

Provider(p) ==
    \/ \E how \in Starts : OpenSocket(p, how) \/ ProxyFails(p, how)
    \/ Drop(p) \/ ScheduleReconnect(p) \/ Reconnect(p)
    \/ BeginRenewal(p) \/ Renew(p)
    \/ AskCode(p) \/ CodeComes(p) \/ CodeGivesUp(p)
    \/ Opens(p) \/ BeginSave(p) \/ SaveCreds(p) \/ CloseForGood(p)

Next ==
    \/ Expire \/ Lapse
    \/ \E p \in Process :
        \/ Connect(p) \/ ConnectDenied(p) \/ Disconnect(p)
        \/ RenewHeartbeat(p)
        \/ Continue(p) \/ Throws(p) \/ Provider(p)
        \/ Crash(p)

\* A process goes on, and a claim that nobody renews expires.
Fairness == WF_vars(Expire) /\ \A p \in Process : WF_vars(Continue(p))

Spec == Init /\ [][Next]_vars /\ Fairness

-----------------------------------------------------------------------------
(* Properties *)

\* Only the owner of the row has a connection to WhatsApp, or is on the way to one, unless
\* its claim or its end crossed something (startSession, stopSession, claimSession).
HolderIsOwner == ~blurred => \A p \in Process : Holds(p) => workerId = p /\ p \in owns

Quiet == \A p \in Process : ~Busy(p)

\* Once the user disconnected, or WhatsApp logged the session out, no process brings it
\* back, whichever calls to the database failed, but for the recovery that claims a row
\* left as connected (Recover); if no call of the end failed, its row says so and is free;
\* and credentials that were deleted stay so (disconnect, handleConnectionUpdate,
\* handleProviderUpdate).
EndedStaysEnded ==
    ~blurred =>
        /\ ~wish => \A p \in Process : ~Holds(p)
        /\ ~wish /\ ~refused /\ Quiet => status = "DESCONECTADA" /\ workerId \in {NoOne, Gone}
        /\ erased /\ Quiet => ~paired

\* A process that owns the row and renews its claim has the connection, is getting to it
\* or leaving it, unless the start it asked for, or the deletion of the credentials,
\* threw.
ClaimIsBacked ==
    \A p \in Process : workerId = p /\ p \in owns => Holds(p) \/ Parting(p) \/ p \in failed

\* A session that is connected but that no process holds, for its process crashed or its
\* recovery failed, is resumed, unless a call that threw left a process as its owner
\* (recoverConnectedSessions, as lines 92-98 of session.service.ts mean it; its header, lines
\* 43-48, says that nothing resumes by itself).
ConnectedIsResumed ==
    status = "CONECTADA" /\ (\A p \in Process : ~Holds(p)) ~>
        \/ status # "CONECTADA"
        \/ \E p \in Process : Holds(p) \/ (p \in owns /\ p \in failed)
=============================================================================
