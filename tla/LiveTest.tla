------------------------------ MODULE LiveTest ------------------------------
(***************************************************************************)
(* The live test of ZaBot's way to WhatsApp (testLiveConnection, behind    *)
(* GET /health/whatsapp-connect): a socket with credentials of its own is  *)
(* opened, and what happens first decides: a QR code, a closed connection  *)
(* or the timer.                                                           *)
(*                                                                         *)
(* Ending the socket makes it report its own closing, on the spot, to      *)
(* whoever still listens; other reports may be on their way as well.       *)
(*                                                                         *)
(* Left out: the answer's measurements, and the wording of status codes.   *)
(***************************************************************************)
EXTENDS Naturals

CONSTANT MaxReports   \* bound: reports of the socket before the test ends

ASSUME ReportsAssumption == MaxReports \in Nat

VARIABLES
    step,       \* where testLiveConnection is
    socket,     \* "none", "open", "ended"
    listening,  \* the listeners of connection.update and creds.update are registered
    timing,     \* the timer of the test is set
    settled,    \* settled
    answer,     \* what the promise is resolved with
    first,      \* history: what happened first
    reports     \* reports left

testVars == <<step, socket, listening, timing, settled, answer, first, reports>>

TestInit ==
    /\ step = "fetching"
    /\ socket = "none"
    /\ listening = FALSE /\ timing = FALSE /\ settled = FALSE
    /\ answer = "none" /\ first = "none"
    /\ reports = MaxReports

\* fetchLatestBaileysVersion fails, buildTestAgents throws, or makeWASocket does: the test answers without a socket.
FailEarly(cause) ==
    /\ \/ step = "fetching" /\ cause = "versao"
       \/ step = "building" /\ cause \in {"agents", "socket"}
    /\ step' = "done"
    /\ answer' = cause
    /\ first' = cause
    /\ UNCHANGED <<socket, listening, timing, settled, reports>>

Fetched ==
    /\ step = "fetching"
    /\ step' = "building"
    /\ UNCHANGED <<socket, listening, timing, settled, answer, first, reports>>

\* The promise's executor, up to its end.
Open ==
    /\ step = "building"
    /\ step' = "testing"
    /\ socket' = "open"
    /\ listening' = TRUE
    /\ timing' = TRUE
    /\ UNCHANGED <<settled, answer, first, reports>>

\* Mutation of Finish: the socket is ended before the test counts as settled and stops listening.
FinishLate(result) ==
    /\ socket' = "ended"
    /\ step' = "ending"
    /\ answer' = result
    /\ UNCHANGED <<settled, listening, timing>>

\* finish, up to the end of the socket.
Finish(result) ==
    /\ settled' = TRUE
    /\ timing' = FALSE
    /\ listening' = FALSE
    /\ socket' = "ended"
    /\ answer' = result
    /\ step' = "ending"

\* connection.update: a QR code, a closed connection with or without a status code, or anything else.
Report(what) ==
    /\ socket = "open" /\ listening
    /\ reports > 0
    /\ reports' = reports - 1
    /\ IF settled \/ what = "other"
       THEN UNCHANGED <<step, socket, listening, timing, settled, answer, first>>
       ELSE first' = what /\ Finish(what)

\* The timer of LIVE_TEST_TIMEOUT_MS.
TimeOut ==
    /\ timing /\ step = "testing"
    /\ first' = "timeout"
    /\ Finish("timeout")
    /\ UNCHANGED reports

\* socket.end reports the closing it causes; a socket that is dead already may not, or throws.
EndReports(reported) ==
    /\ step = "ending"
    /\ step' = "done"
    /\ IF reported /\ listening /\ ~settled THEN answer' = "closed" ELSE UNCHANGED answer
    /\ UNCHANGED <<socket, listening, timing, settled, first, reports>>

\* The answer has been given.
Answered ==
    /\ step = "done"
    /\ UNCHANGED testVars

TestNext ==
    \/ \E cause \in {"versao", "agents", "socket"} : FailEarly(cause)
    \/ Fetched \/ Open \/ TimeOut \/ Answered
    \/ \E what \in {"qr", "closed", "codigo", "other"} : Report(what)
    \/ \E reported \in BOOLEAN : EndReports(reported)

TestSpec == TestInit /\ [][TestNext]_testVars

-----------------------------------------------------------------------------
\* The test answers with what happened first, not with the closing it causes itself, and leaves no socket,
\* listener or timer behind (whatsapp-diagnostics.service.ts, finish).
TestEndsClean ==
    step = "done" => answer = first /\ socket # "open" /\ ~listening /\ ~timing
=============================================================================
