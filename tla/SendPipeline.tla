---------------------------- MODULE SendPipeline ----------------------------
(***************************************************************************)
(* The life of a campaign in the ZaBot backend, for one user: its creation *)
(* in one database transaction, the jobs put on the user's BullMQ queue,   *)
(* the single worker that sends one message at a time, and the listener    *)
(* that makes a failure definitive once the attempts are used up.          *)
(*                                                                         *)
(* Every withTenantContext call is one PostgreSQL transaction at READ      *)
(* COMMITTED, so it is one step here, except applyRecipientOutcome: it     *)
(* reads rows without locking them and writes them later, and another      *)
(* transaction may commit in between, so its reads and its writes are two  *)
(* steps.  The handlers await between transactions, so the worker, the     *)
(* failure listeners, the requests and the user interleave at those points *)
(* only: one backend process runs them all.                                *)
(*                                                                         *)
(* Left out because nothing here branches on them: Envio.attempts,         *)
(* Envio.failureReason, sentAt, metrics, logs and websocket publications.  *)
(***************************************************************************)
EXTENDS Integers, FiniteSets

CONSTANTS
    Campaigns,       \* campaigns the user may create
    Contacts,        \* the user's contacts
    Messages,        \* messages of every campaign
    SplitMessages,   \* messages that leave as several WhatsApp messages
    MaxAttempts,     \* SEND_MAX_ATTEMPTS: attempts of a BullMQ job
    InitialBalance,  \* credits in the wallet when the run starts
    MaxReschedules,  \* bound: times one envio may fall outside its sending window
    MaxFinalizers,   \* bound: failure listeners that may overlap
    Budget           \* bound: how often each kind of fault or user edit occurs

FaultKinds == {"crash", "infra", "ack", "clear", "remove", "edit"}

ASSUME SetsAssumption ==
    /\ IsFiniteSet(Campaigns)
    /\ IsFiniteSet(Contacts)
    /\ IsFiniteSet(Messages)
    /\ Messages # {}
    /\ SplitMessages \subseteq Messages

ASSUME BoundsAssumption ==
    /\ MaxAttempts \in Nat \ {0}
    /\ InitialBalance \in Nat
    /\ MaxReschedules \in Nat
    /\ MaxFinalizers \in Nat \ {0}
    /\ Budget \in [FaultKinds -> Nat]

VARIABLES
    contacts,       \* table contacts: verification status, or "removed"
    sessionStatus,  \* sessions.status, written by the WhatsApp session module
    balance,        \* wallets.balance
    campaign,       \* table campaigns: status and the denormalised counters
    recipient,      \* table campaign_recipients: status, "none" when there is no row
    envio,          \* table envios: status, "none" when there is no row
    session,        \* the send counters of table sessions
    jobs,           \* BullMQ: state of every job of the queue send-message:<sessionId>
    worker,         \* the Worker of the session and the job it is processing
    finalizers,     \* the running handleFailed listeners, by job
    requests,       \* POST /campaigns after its transaction committed
    deadLetter,     \* jobs pushed to the dead-letter queue, by envio
    delivered,      \* history: times something of an envio was handed to WhatsApp
    budget          \* faults and edits that may still occur

dbVars == <<contacts, balance, campaign, recipient, envio, session>>
processVars == <<worker, finalizers, requests>>
vars == <<dbVars, sessionStatus, jobs, processVars, deadLetter, delivered, budget>>

-----------------------------------------------------------------------------
(* Rows and jobs *)

Recipient == Campaigns \X Contacts
Envio == Recipient \X Messages
Job == Envio \X (0 .. MaxReschedules)  \* <<e, 0>> has jobId = e; <<e, n>> is its n-th reschedule
NoJob == <<>>

RowStatus == {"none", "PENDENTE", "ENVIADO", "FALHOU"}
CampaignRow ==
    [status : {"none", "PENDENTE", "ENVIADA", "deleted"},
     total : Nat, pending : Int, sent : Int, failed : Int]
JobRow ==
    [state : {"none", "wait", "active", "completed", "failed"},
     made : 0 .. MaxAttempts, stalls : 0 .. 1]
WorkerPc ==
    {"idle", "claimed", "sending", "marking", "reading", "writing", "settling",
     "returned", "threw"}
FinalizerPc ==
    {"off", "started", "failing", "reading", "writing", "settling", "pushing"}
RequestPc == {"none", "enqueue", "count", "ensure", "end"}

TypeOK ==
    /\ contacts \in [Contacts -> {"VALIDO", "PENDENTE", "removed"}]
    /\ sessionStatus \in {"CONECTADA", "DESCONECTADA"}
    /\ balance \in Nat
    /\ campaign \in [Campaigns -> CampaignRow]
    /\ recipient \in [Recipient -> RowStatus]
    /\ envio \in [Envio -> RowStatus]
    /\ session \in [sent : Int, pending : Int, failures : Int]
    /\ jobs \in [Job -> JobRow]
    /\ worker \in [on : BOOLEAN, pc : WorkerPc, job : Job \cup {NoJob}, phone : BOOLEAN]
    /\ finalizers \in [Job -> FinalizerPc]
    /\ requests \in [Campaigns -> [pc : RequestPc, n : Nat]]
    /\ deadLetter \in [Envio -> Nat]
    /\ delivered \in [Envio -> Nat]
    /\ budget \in [FaultKinds -> Nat]

-----------------------------------------------------------------------------
(* Initial state: no campaign yet, every contact validated, nothing queued. *)

NoCampaign == [status |-> "none", total |-> 0, pending |-> 0, sent |-> 0, failed |-> 0]
NoJobRow == [state |-> "none", made |-> 0, stalls |-> 0]
IdleWorker(on) == [on |-> on, pc |-> "idle", job |-> NoJob, phone |-> FALSE]

Init ==
    /\ contacts = [k \in Contacts |-> "VALIDO"]
    /\ sessionStatus = "CONECTADA"
    /\ balance = InitialBalance
    /\ campaign = [c \in Campaigns |-> NoCampaign]
    /\ recipient = [r \in Recipient |-> "none"]
    /\ envio = [e \in Envio |-> "none"]
    /\ session = [sent |-> 0, pending |-> 0, failures |-> 0]
    /\ jobs = [j \in Job |-> NoJobRow]
    /\ worker = IdleWorker(FALSE)
    /\ finalizers = [j \in Job |-> "off"]
    /\ requests = [c \in Campaigns |-> [pc |-> "none", n |-> 0]]
    /\ deadLetter = [e \in Envio |-> 0]
    /\ delivered = [e \in Envio |-> 0]
    /\ budget = Budget

Spend(kind) ==
    /\ budget[kind] > 0
    /\ budget' = [budget EXCEPT ![kind] = @ - 1]

-----------------------------------------------------------------------------
(* POST /campaigns *)

PendingEnvios(c) == {e \in Envio : e[1][1] = c /\ envio[e] = "PENDENTE"}

\* createCampaign up to its commit.  "chosen" is what resolveRecipientContactIds
\* returns: all or some of the VALIDO contacts, never none.  The wallet is
\* debited one credit per envio or nothing at all is created.
CreateCampaign(c, chosen) ==
    LET rows == {c} \X chosen
        quantity == Cardinality(rows \X Messages)
    IN  /\ campaign[c].status = "none"
        /\ sessionStatus = "CONECTADA"
        /\ chosen # {}
        /\ \A k \in chosen : contacts[k] = "VALIDO"
        /\ quantity <= balance
        /\ balance' = balance - quantity
        /\ campaign' = [campaign EXCEPT ![c] =
               [status |-> "PENDENTE", total |-> Cardinality(rows),
                pending |-> Cardinality(rows), sent |-> 0, failed |-> 0]]
        /\ recipient' = [r \in Recipient |-> IF r \in rows THEN "PENDENTE" ELSE recipient[r]]
        /\ envio' = [e \in Envio |-> IF e[1] \in rows THEN "PENDENTE" ELSE envio[e]]
        /\ requests' = [requests EXCEPT ![c].pc = "enqueue"]
        /\ UNCHANGED <<contacts, sessionStatus, session, jobs, worker, finalizers,
                       deadLetter, delivered, budget>>

\* enqueueCampaign: read the PENDENTE envios and addBulk one job for each.
EnqueueCampaign(c) ==
    LET batch == PendingEnvios(c)
    IN  /\ requests[c].pc = "enqueue"
        /\ jobs' = [j \in Job |-> IF j[1] \in batch /\ j[2] = 0 /\ jobs[j].state = "none"
                                 THEN [jobs[j] EXCEPT !.state = "wait"]
                                 ELSE jobs[j]]
        /\ requests' = [requests EXCEPT ![c] =
               IF batch = {} THEN [pc |-> "end", n |-> 0]
                             ELSE [pc |-> "count", n |-> Cardinality(batch)]]
        /\ UNCHANGED <<dbVars, sessionStatus, worker, finalizers, deadLetter, delivered, budget>>

\* enqueueCampaign: messagesPending grows only after the jobs are visible to a worker.
CountPending(c) ==
    /\ requests[c].pc = "count"
    /\ session' = [session EXCEPT !.pending = @ + requests[c].n]
    /\ requests' = [requests EXCEPT ![c] = [pc |-> "ensure", n |-> 0]]
    /\ UNCHANGED <<contacts, balance, campaign, recipient, envio, sessionStatus, jobs,
                   worker, finalizers, deadLetter, delivered, budget>>

\* ensureWorker: opens the Worker of the session unless this process has one.
EnsureWorker(c) ==
    /\ requests[c].pc = "ensure"
    /\ worker' = [worker EXCEPT !.on = TRUE]
    /\ requests' = [requests EXCEPT ![c].pc = "end"]
    /\ UNCHANGED <<dbVars, sessionStatus, jobs, finalizers, deadLetter, delivered, budget>>

\* A Redis or database call after the commit fails: the client gets an error.
RequestFails(c) ==
    /\ requests[c].pc \in {"enqueue", "count"}
    /\ Spend("infra")
    /\ requests' = [requests EXCEPT ![c] = [pc |-> "end", n |-> 0]]
    /\ UNCHANGED <<dbVars, sessionStatus, jobs, worker, finalizers, deadLetter, delivered>>

-----------------------------------------------------------------------------
(* The rollup shared by markSent and finalizeFailure: applyRecipientOutcome. *)

\* Mutations of OutcomeApplies: without the "terminal, never reverts" check of
\* recipient.status, and without the allEnvioSent check.
OutcomeAppliesAgain(r, outcome) ==
    /\ recipient[r] # "none"
    /\ outcome = "ENVIADO" => \A m \in Messages : envio[<<r, m>>] = "ENVIADO"
OutcomeAppliesEarly(r, outcome) == recipient[r] \notin {"none", "FALHOU"}

\* Its reads let the outcome through: the row exists and is not FALHOU, and for
\* ENVIADO every sibling envio is already ENVIADO.
OutcomeApplies(r, outcome) ==
    /\ recipient[r] \notin {"none", "FALHOU"}
    /\ outcome = "ENVIADO" => \A m \in Messages : envio[<<r, m>>] = "ENVIADO"

\* markDoneIfFinished, called with the counter just decremented.
DoneIfFinished(status, left) == IF left > 0 THEN status ELSE "ENVIADA"

\* The counters after one more recipient left PENDENTE.
CampaignAfter(row, outcome) ==
    LET left == row.pending - 1
    IN  [status |-> DoneIfFinished(row.status, left), total |-> row.total, pending |-> left,
         sent |-> row.sent + (IF outcome = "ENVIADO" THEN 1 ELSE 0),
         failed |-> row.failed + (IF outcome = "FALHOU" THEN 1 ELSE 0)]

\* Its writes: recipient and campaign in one transaction, whatever the rows hold
\* by now, as long as they still exist.
WriteOutcome(r, outcome) ==
    /\ recipient' = [recipient EXCEPT ![r] = outcome]
    /\ campaign' = [campaign EXCEPT ![r[1]] = CampaignAfter(@, outcome)]

-----------------------------------------------------------------------------
(* The worker: concurrency 1, one job at a time, SendMessageProcessor.process *)

Goto(pc) == worker' = [worker EXCEPT !.pc = pc]
CurrentEnvio == worker.job[1]

\* Mutation of Unresolved: process only asks whether the envio still exists.
StillExists(e) == envio[e] # "none"

\* The idempotence check of process.
Unresolved(e) == envio[e] = "PENDENTE"

\* BullMQ hands a waiting job to the Worker.  Backoff and reschedule delays make
\* any waiting job a possible next one.
TakeJob(j) ==
    /\ worker.on
    /\ worker.pc = "idle"
    /\ jobs[j].state = "wait"
    /\ jobs' = [jobs EXCEPT ![j].state = "active"]
    /\ worker' = [worker EXCEPT !.pc = "claimed", !.job = j]
    /\ UNCHANGED <<dbVars, sessionStatus, finalizers, requests, deadLetter, delivered, budget>>

\* Mutation of RecoverStalled: a Worker opened without the stalled-job check.
NeverRecoverStalled(j) == FALSE

\* The stalled-job check of a running Worker: a job nobody is processing any more
\* goes back to waiting once, and the second time it is failed by BullMQ itself,
\* with attempts left, so handleFailed ignores it.
RecoverStalled(j) ==
    /\ worker.on
    /\ jobs[j].state = "active"
    /\ worker.job # j
    /\ jobs' = [jobs EXCEPT ![j] =
           IF @.stalls = 0 THEN [state |-> "wait", made |-> @.made, stalls |-> 1]
                           ELSE [@ EXCEPT !.state = "failed"]]
    /\ UNCHANGED <<dbVars, sessionStatus, processVars, deadLetter, delivered, budget>>

\* The job of an envio that is gone or already resolved does nothing.
SkipResolved ==
    /\ worker.pc = "claimed"
    /\ ~ Unresolved(CurrentEnvio)
    /\ Goto("returned")
    /\ UNCHANGED <<dbVars, sessionStatus, jobs, finalizers, requests, deadLetter, delivered, budget>>

\* Outside the contact's sending window a new job, with fresh attempts, replaces
\* the current one, which then returns normally.
Reschedule(n) ==
    /\ worker.pc = "claimed"
    /\ Unresolved(CurrentEnvio)
    /\ jobs[<<CurrentEnvio, n>>].state = "none"
    /\ \A i \in 1 .. n - 1 : jobs[<<CurrentEnvio, i>>].state # "none"
    /\ jobs' = [jobs EXCEPT ![<<CurrentEnvio, n>>].state = "wait"]
    /\ Goto("returned")
    /\ UNCHANGED <<dbVars, sessionStatus, finalizers, requests, deadLetter, delivered, budget>>

\* Inside the window: the contact was read together with the envio, and the
\* attempt goes on with that copy after the anti-ban delay.
BeginAttempt ==
    /\ worker.pc = "claimed"
    /\ Unresolved(CurrentEnvio)
    /\ worker' = [worker EXCEPT !.pc = "sending", !.phone = contacts[CurrentEnvio[1][2]] = "VALIDO"]
    /\ UNCHANGED <<dbVars, sessionStatus, jobs, finalizers, requests, deadLetter, delivered, budget>>

\* provider.sendMessage resolves: the message is on its way to the contact.
SendMessage ==
    /\ worker.pc = "sending"
    /\ worker.phone
    /\ delivered' = [delivered EXCEPT ![CurrentEnvio] = @ + 1]
    /\ Goto("marking")
    /\ UNCHANGED <<dbVars, sessionStatus, jobs, finalizers, requests, deadLetter, budget>>

\* The attempt throws before or inside sendMessage: no number, media unreadable,
\* no socket, WhatsApp refused.  A message made of several items may have left in
\* part.
AttemptFails ==
    /\ worker.pc = "sending"
    /\ \/ delivered' = delivered
       \/ /\ worker.phone
          /\ CurrentEnvio[2] \in SplitMessages
          /\ delivered' = [delivered EXCEPT ![CurrentEnvio] = @ + 1]
    /\ Goto("threw")
    /\ UNCHANGED <<dbVars, sessionStatus, jobs, finalizers, requests, deadLetter, budget>>

\* markSent, first transaction.  An envio deleted meanwhile makes the update throw.
MarkSent ==
    /\ worker.pc = "marking"
    /\ IF envio[CurrentEnvio] = "none"
       THEN Goto("threw") /\ UNCHANGED envio
       ELSE Goto("reading") /\ envio' = [envio EXCEPT ![CurrentEnvio] = "ENVIADO"]
    /\ UNCHANGED <<contacts, balance, campaign, recipient, session, sessionStatus, jobs,
                   finalizers, requests, deadLetter, delivered, budget>>

\* Mutation of ReadOutcome: nothing more to do unless the recipient is complete.
ReadOutcomeOrReturn ==
    /\ worker.pc = "reading"
    /\ Goto(IF OutcomeApplies(CurrentEnvio[1], "ENVIADO") THEN "writing" ELSE "returned")
    /\ UNCHANGED <<dbVars, sessionStatus, jobs, finalizers, requests, deadLetter, delivered, budget>>

\* markSent, rollup: what applyRecipientOutcome reads.
ReadOutcome ==
    /\ worker.pc = "reading"
    /\ Goto(IF OutcomeApplies(CurrentEnvio[1], "ENVIADO") THEN "writing" ELSE "settling")
    /\ UNCHANGED <<dbVars, sessionStatus, jobs, finalizers, requests, deadLetter, delivered, budget>>

\* markSent, rollup: what it writes.
ApplySent ==
    /\ worker.pc = "writing"
    /\ IF recipient[CurrentEnvio[1]] = "none"
       THEN Goto("threw") /\ UNCHANGED <<recipient, campaign>>
       ELSE Goto("settling") /\ WriteOutcome(CurrentEnvio[1], "ENVIADO")
    /\ UNCHANGED <<contacts, balance, envio, session, sessionStatus, jobs, finalizers,
                   requests, deadLetter, delivered, budget>>

\* markSent, last transaction: the session's counters.
SettleSent ==
    /\ worker.pc = "settling"
    /\ session' = [sent |-> session.sent + 1, pending |-> session.pending - 1, failures |-> session.failures]
    /\ Goto("returned")
    /\ UNCHANGED <<contacts, balance, campaign, recipient, envio, sessionStatus, jobs,
                   finalizers, requests, deadLetter, delivered, budget>>

\* A transaction of process, or the Redis call of reschedule, fails: process
\* throws.  After the send, its catch cannot tell that from a failed send.
StepFails ==
    /\ worker.pc \in {"claimed", "marking", "reading", "writing", "settling"}
    /\ Spend("infra")
    /\ Goto("threw")
    /\ UNCHANGED <<dbVars, sessionStatus, jobs, finalizers, requests, deadLetter, delivered>>

\* process returned: BullMQ completes the job.
CompleteJob ==
    /\ worker.pc = "returned"
    /\ jobs' = [jobs EXCEPT ![worker.job].state = "completed"]
    /\ worker' = IdleWorker(TRUE)
    /\ UNCHANGED <<dbVars, sessionStatus, finalizers, requests, deadLetter, delivered, budget>>

\* Mutation of Definitive: one attempt too many.
DefinitiveLate(made) == made > MaxAttempts

\* BullMQ: no attempt is left.
Exhausted(made) == made >= MaxAttempts

\* handleFailed: the failure is definitive, not one more attempt that threw.
Definitive(made) == made >= MaxAttempts

\* process threw: one more attempt made; with attempts left the job waits for its
\* backoff, otherwise it is failed and the listener starts finalizeFailure without
\* the worker waiting for it.
FailJob ==
    LET made == jobs[worker.job].made + 1
    IN  /\ worker.pc = "threw"
        /\ Definitive(made) => Cardinality({j \in Job : finalizers[j] # "off"}) < MaxFinalizers
        /\ jobs' = [jobs EXCEPT ![worker.job].made = made,
                                ![worker.job].state = IF Exhausted(made) THEN "failed" ELSE "wait"]
        /\ finalizers' = [finalizers EXCEPT ![worker.job] = IF Definitive(made) THEN "started" ELSE @]
        /\ worker' = IdleWorker(TRUE)
        /\ UNCHANGED <<dbVars, sessionStatus, requests, deadLetter, delivered, budget>>

\* The Redis call that would complete or fail the job is lost: the job stays active.
LoseAck ==
    /\ worker.pc \in {"returned", "threw"}
    /\ Spend("ack")
    /\ worker' = IdleWorker(TRUE)
    /\ UNCHANGED <<dbVars, sessionStatus, jobs, finalizers, requests, deadLetter, delivered>>

-----------------------------------------------------------------------------
(* handleFailed and finalizeFailure: asynchronous, concurrent with the worker *)

MoveTo(j, pc) == finalizers' = [finalizers EXCEPT ![j] = pc]

\* Idempotence check: a missing or already FALHOU envio ends the listener.
BeginFinalize(j) ==
    /\ finalizers[j] = "started"
    /\ MoveTo(j, IF envio[j[1]] \in {"none", "FALHOU"} THEN "off" ELSE "failing")
    /\ UNCHANGED <<dbVars, sessionStatus, jobs, worker, requests, deadLetter, delivered, budget>>

\* The terminal transition of the envio, whatever its status is by now.
MarkFailed(j) ==
    /\ finalizers[j] = "failing"
    /\ IF envio[j[1]] = "none"
       THEN MoveTo(j, "off") /\ UNCHANGED envio
       ELSE MoveTo(j, "reading") /\ envio' = [envio EXCEPT ![j[1]] = "FALHOU"]
    /\ UNCHANGED <<contacts, balance, campaign, recipient, session, sessionStatus, jobs,
                   worker, requests, deadLetter, delivered, budget>>

ReadFailedOutcome(j) ==
    /\ finalizers[j] = "reading"
    /\ MoveTo(j, IF OutcomeApplies(j[1][1], "FALHOU") THEN "writing" ELSE "settling")
    /\ UNCHANGED <<dbVars, sessionStatus, jobs, worker, requests, deadLetter, delivered, budget>>

ApplyFailed(j) ==
    /\ finalizers[j] = "writing"
    /\ IF recipient[j[1][1]] = "none"
       THEN MoveTo(j, "off") /\ UNCHANGED <<recipient, campaign>>
       ELSE MoveTo(j, "settling") /\ WriteOutcome(j[1][1], "FALHOU")
    /\ UNCHANGED <<contacts, balance, envio, session, sessionStatus, jobs, worker, requests,
                   deadLetter, delivered, budget>>

SettleFailed(j) ==
    /\ finalizers[j] = "settling"
    /\ session' = [sent |-> session.sent, pending |-> session.pending - 1, failures |-> session.failures + 1]
    /\ MoveTo(j, "pushing")
    /\ UNCHANGED <<contacts, balance, campaign, recipient, envio, sessionStatus, jobs, worker,
                   requests, deadLetter, delivered, budget>>

PushDeadLetter(j) ==
    /\ finalizers[j] = "pushing"
    /\ deadLetter' = [deadLetter EXCEPT ![j[1]] = @ + 1]
    /\ MoveTo(j, "off")
    /\ UNCHANGED <<dbVars, sessionStatus, jobs, worker, requests, delivered, budget>>

\* A step of finalizeFailure throws: handleFailed logs it and nothing tries again.
FinalizeFails(j) ==
    /\ finalizers[j] # "off"
    /\ Spend("infra")
    /\ MoveTo(j, "off")
    /\ UNCHANGED <<dbVars, sessionStatus, jobs, worker, requests, deadLetter, delivered>>

-----------------------------------------------------------------------------
(* The user, the other modules of the backend, and the process itself *)

\* clearHistory: the campaigns and, by cascade, their recipients and envios.
\* Jobs, running handlers and the session's counters are left as they are.
ClearHistory ==
    /\ Spend("clear")
    /\ campaign' = [c \in Campaigns |-> IF campaign[c].status = "none" THEN NoCampaign
                                        ELSE [NoCampaign EXCEPT !.status = "deleted"]]
    /\ recipient' = [r \in Recipient |-> "none"]
    /\ envio' = [e \in Envio |-> "none"]
    /\ UNCHANGED <<contacts, balance, session, sessionStatus, jobs, processVars, deadLetter, delivered>>

\* removeContact: the contact and, by cascade, its recipients and envios, but not
\* their share of the campaign's counters.
RemoveContact(k) ==
    /\ contacts[k] # "removed"
    /\ Spend("remove")
    /\ contacts' = [contacts EXCEPT ![k] = "removed"]
    /\ recipient' = [r \in Recipient |-> IF r[2] = k THEN "none" ELSE recipient[r]]
    /\ envio' = [e \in Envio |-> IF e[1][2] = k THEN "none" ELSE envio[e]]
    /\ UNCHANGED <<balance, campaign, session, sessionStatus, jobs, processVars, deadLetter, delivered>>

\* updateContact with another phone: back to PENDENTE, without a normalised number.
EditContact(k) ==
    /\ contacts[k] = "VALIDO"
    /\ Spend("edit")
    /\ contacts' = [contacts EXCEPT ![k] = "PENDENTE"]
    /\ UNCHANGED <<balance, campaign, recipient, envio, session, sessionStatus, jobs,
                   processVars, deadLetter, delivered>>

\* The number-validation worker finds the number of a PENDENTE contact.
ValidateContact(k) ==
    /\ contacts[k] = "PENDENTE"
    /\ contacts' = [contacts EXCEPT ![k] = "VALIDO"]
    /\ UNCHANGED <<balance, campaign, recipient, envio, session, sessionStatus, jobs,
                   processVars, deadLetter, delivered, budget>>

\* The WhatsApp session connects or drops.
ChangeSessionStatus ==
    /\ sessionStatus' \in {"CONECTADA", "DESCONECTADA"} \ {sessionStatus}
    /\ UNCHANGED <<dbVars, jobs, processVars, deadLetter, delivered, budget>>

\* The backend process dies and restarts: handlers in progress are gone, and no
\* worker exists until a new campaign calls ensureWorker.
Crash ==
    /\ Spend("crash")
    /\ worker' = IdleWorker(FALSE)
    /\ finalizers' = [j \in Job |-> "off"]
    /\ requests' = [c \in Campaigns |-> IF requests[c].pc = "none" THEN requests[c]
                                                              ELSE [pc |-> "end", n |-> 0]]
    /\ UNCHANGED <<dbVars, sessionStatus, jobs, deadLetter, delivered>>

-----------------------------------------------------------------------------
Request(c) == EnqueueCampaign(c) \/ CountPending(c) \/ EnsureWorker(c)

Process ==
    \/ SkipResolved \/ (\E n \in 1 .. MaxReschedules : Reschedule(n)) \/ BeginAttempt
    \/ SendMessage \/ AttemptFails
    \/ MarkSent \/ ReadOutcome \/ ApplySent \/ SettleSent
    \/ CompleteJob \/ FailJob

Finalize(j) ==
    \/ BeginFinalize(j) \/ MarkFailed(j) \/ ReadFailedOutcome(j)
    \/ ApplyFailed(j) \/ SettleFailed(j) \/ PushDeadLetter(j)

Disturbance ==
    \/ \E c \in Campaigns : RequestFails(c)
    \/ StepFails \/ LoseAck \/ Crash \/ ClearHistory
    \/ \E j \in Job : FinalizeFails(j)
    \/ \E k \in Contacts : RemoveContact(k) \/ EditContact(k)

Next ==
    \/ \E c \in Campaigns, chosen \in SUBSET Contacts : CreateCampaign(c, chosen)
    \/ \E c \in Campaigns : Request(c)
    \/ \E j \in Job : TakeJob(j) \/ RecoverStalled(j) \/ Finalize(j)
    \/ Process
    \/ \E k \in Contacts : ValidateContact(k)
    \/ ChangeSessionStatus
    \/ Disturbance

Spec == Init /\ [][Next]_vars

\* The event loop runs every handler that has work: requests, worker, listeners.
\* Nothing is assumed of the user, of WhatsApp or of the faults.
Fairness ==
    /\ \A c \in Campaigns : WF_vars(Request(c))
    /\ WF_vars(\E j \in Job : TakeJob(j))
    /\ \A j \in Job : WF_vars(RecoverStalled(j)) /\ WF_vars(Finalize(j))
    /\ WF_vars(Process)

FairSpec == Spec /\ Fairness

-----------------------------------------------------------------------------
(* Properties *)

Live(c) == campaign[c].status \in {"PENDENTE", "ENVIADA"}
RecipientsIn(c, status) == {r \in Recipient : r[1] = c /\ recipient[r] = status}
EnviosIn(status) == {e \in Envio : envio[e] = status}
Busy(e) == worker.job # NoJob /\ CurrentEnvio = e
Finalizing(e) == \E j \in Job : j[1] = e /\ finalizers[j] # "off"
Queued(e) == \E j \in Job : j[1] = e /\ jobs[j].state \in {"wait", "active"}

\* The denormalised counters of a campaign are the counts of its recipients in
\* each status: a recipient is in exactly one bucket at any moment, whichever of
\* the worker and the listeners resolves it (schema.prisma 360-370).
BucketsMatchRecipients ==
    \A c \in Campaigns : Live(c) =>
        /\ campaign[c].pending = Cardinality(RecipientsIn(c, "PENDENTE"))
        /\ campaign[c].sent = Cardinality(RecipientsIn(c, "ENVIADO"))
        /\ campaign[c].failed = Cardinality(RecipientsIn(c, "FALHOU"))

\* A recipient is ENVIADO only when every one of its envios is, and FALHOU only
\* when one of them is definitively FALHOU (schema.prisma 473-481).
RecipientReflectsEnvios ==
    \A r \in Recipient :
        /\ recipient[r] = "ENVIADO" => \A m \in Messages : envio[<<r, m>>] = "ENVIADO"
        /\ recipient[r] = "FALHOU" => \E m \in Messages : envio[<<r, m>>] = "FALHOU"

\* Nobody is forgotten: an unresolved recipient always has somebody who will go on
\* with one of its envios, the creating request, a job, the worker or a listener.
NoRecipientForgotten ==
    \A r \in Recipient : recipient[r] = "PENDENTE" =>
        \/ requests[r[1]].pc = "enqueue"
        \/ \E m \in Messages : LET e == <<r, m>> IN
               \/ envio[e] = "PENDENTE" /\ (Queued(e) \/ Finalizing(e))
               \/ envio[e] # "PENDENTE" /\ (Busy(e) \/ Finalizing(e))

\* When nothing is queued or running any more, the session's counters and the
\* dead-letter queue say what became of the envios, each counted once.
CountersSettle ==
    (/\ \A c \in Campaigns : requests[c].pc \in {"none", "end"}
     /\ \A e \in Envio : ~ Queued(e) /\ ~ Finalizing(e))
    => /\ session.pending = 0
       /\ session.sent = Cardinality(EnviosIn("ENVIADO"))
       /\ session.failures = Cardinality(EnviosIn("FALHOU"))
       /\ \A e \in Envio : deadLetter[e] = IF envio[e] = "FALHOU" THEN 1 ELSE 0

\* ENVIADO and FALHOU are final, for an envio and for a recipient: until the row
\* is deleted no retry, listener or sibling turns one into the other.
OutcomeIsFinal ==
    [][/\ \A e \in Envio : envio[e] \in {"ENVIADO", "FALHOU"} => envio'[e] \in {envio[e], "none"}
       /\ \A r \in Recipient :
              recipient[r] \in {"ENVIADO", "FALHOU"} => recipient'[r] \in {recipient[r], "none"}]_vars

\* Whatever fails, the history never says ENVIADO of a message that was never
\* handed to WhatsApp, and a recipient counted as sent got every message.
SentMeansDelivered ==
    /\ \A e \in Envio : envio[e] = "ENVIADO" => delivered[e] > 0
    /\ \A r \in Recipient : recipient[r] = "ENVIADO" => \A m \in Messages : delivered[<<r, m>>] > 0

\* Redelivered, retried and rescheduled jobs of one envio do not repeat a message
\* that leaves whole or not at all; only a crash or a failed transaction between
\* the send and its record can, once each.
FaultsSoFar == (Budget["crash"] - budget["crash"]) + (Budget["infra"] - budget["infra"])
RepeatsNeedAFault == \A e \in Envio : e[2] \notin SplitMessages => delivered[e] <= 1 + FaultsSoFar

\* README.md 132: processing the same job again never repeats a message.
NoDuplicateMessage == \A e \in Envio : delivered[e] <= 1

\* Every campaign gets to ENVIADA unless the user clears it, as long as no process crashed,
\* no acknowledgement or transaction was lost and no contact was removed.
Disturbed == \E kind \in FaultKinds \ {"edit"} : budget[kind] < Budget[kind]
CampaignFinishes ==
    \A c \in Campaigns :
        campaign[c].status = "PENDENTE" ~> Disturbed \/ campaign[c].status \in {"ENVIADA", "deleted"}

\* A job left over by a crash is taken up once a worker exists again, and ends.
BacklogResumes ==
    \A j \in Job : (worker.on /\ jobs[j].state \in {"wait", "active"})
                   ~> (~ worker.on \/ jobs[j].state \in {"completed", "failed"})

\* The campaigns, seen through their counters, implement CampaignProgress.
Progress == INSTANCE CampaignProgress WITH progress <- campaign, Sizes <- 1 .. Cardinality(Contacts)
ImplementsProgress == Progress!Spec

=============================================================================
