# Verification of the ZaBot backend

TLA+ specifications of the parts of ZaBot where several things happen at once
to data that money and other people's phones depend on: the sending of a
campaign, the wallet that pays for it, the verification of the contacts it
is sent to, the WhatsApp session it goes through, and the account behind it.
Smaller parts, whose hazard is in a boundary or in one race, have a small module
each. Paths below are relative to the repository; `backend/` is the NestJS server, `lib/` the Flutter application.

## The system

ZaBot sends WhatsApp campaigns for a user. The application creates a campaign
(one to five messages to a set of validated contacts, paid in credits) with one
request; the backend does the rest in the background.

| Part | State it keeps | Operations | Talks to |
|---|---|---|---|
| Campaigns, `campaigns/campaigns.service.ts` | `campaigns`, `campaign_recipients`, `envios`, with counters of recipients per outcome | create, list, clear history | wallet (debit in the same transaction), queue, worker |
| Send queue, `sending/send-message.queue.ts` | a BullMQ queue per session | enqueue a campaign, reschedule one envio | Redis, `sessions.messagesPending` |
| Worker, `sending/send-message.worker.ts` | one BullMQ Worker per session in memory | open a worker, listen for failures | processor |
| Processor, `sending/send-message-processor.service.ts` | the status of envio, recipient and campaign, the session's counters | process, markSent, finalizeFailure | database, provider, dead-letter queue, websocket |
| Anti-ban delay and sending window, `sending/anti-ban-delay.service.ts`, `sending/timezone.service.ts` | none | durations and times of day on the contact's clock | processor |
| Dead-letter queue | a BullMQ queue nobody consumes | push | Redis |
| Wallet, `wallet/*` | `wallets.balance`, `wallet_transactions` | recharge by Pix or card, webhook, polling, debit | Mercado Pago |
| Contacts, `contacts/contacts.service.ts` | `contacts`: raw and normalised number, status, log; `sessions.contactsImported` | import, add, edit, remove | validation queue |
| Number validation, `contacts/validate-numbers.*`, `phone-number.service.ts` | the queue `validate-numbers`, one worker in each process | enqueue, verify one contact | contacts, provider |
| WhatsApp session, `whatsapp/session.service.ts` | `sessions`: status, owner process, heartbeat | connect, disconnect, recover at boot | provider, gateway |
| Baileys provider, `whatsapp/baileys-whatsapp.provider.ts` | sockets, timers and backoff in memory | start, stop, reconnect, renew proxy, send | WhatsApp |
| Baileys authentication state, `whatsapp/db-auth-state.ts` | credentials and keys in `session_auth_keys` | load, save, clear | provider |
| Proxy, `whatsapp/proxy-config.service.ts` | one row per session, sticky keys | create, rotate, build URLs and agents | provider |
| Authentication, `auth/auth.service.ts` | users, codes, families of refresh tokens | register, confirm, login, refresh, logout, delete | mail |
| Campaign media, `campaigns/media.service.ts` | `campaign_media` and the files | upload, adopt, load | storage, processor |
| Alerts, `metrics/alerts.service.ts` | times of the last alerts in memory | a cycle of checks on a timer | SMTP |
| Live test, `whatsapp/whatsapp-diagnostics.service.ts` | a socket of its own | test the way to WhatsApp | proxy, WhatsApp |
| Settings, metrics, health, mail, error categories | single rows and counters | simple reads and writes | SMTP |
| Flutter application | cached screens | requests, websocket | all the above |

What is hard about it:

* A handler is a sequence of short transactions with awaits between them. The
  worker, the failure listeners, HTTP requests, webhooks and polls of one user
  interleave at those awaits.
* Transactions run at READ COMMITTED: two statements of one transaction may
  see two different states.
* BullMQ delivers a job at least once. A job is retried when it throws,
  delivered again when its completion was lost, and replaced by another job when
  it is rescheduled.
* Any step may fail after an earlier one committed, and the process may stop
  between any two.
* WhatsApp and Mercado Pago cannot be rolled back, and their answers may be lost.
* A session belongs to one of several processes, by a claim in its row that
  expires; its sockets, timers and maps are in that process's memory, and every
  method of the provider reads its maps, awaits, and writes them.

What each part promises, in short: a recipient is counted exactly once and its
outcome is final; nobody is forgotten; nothing is reported sent that was not;
a message is not sent twice; a campaign ends; the balance is never negative and
agrees with the statement; a payment approved is credited, once; the verdict on a
contact is that of its phone, and every contact gets one; one process holds a
session's connection, one socket, of the flow the user asked for, and none once it
ended; a refresh token is exchanged once and a revoked family stays revoked.
`PROJECT.json` lists every component and every hazard with the line where it
bites.

## Modules

| Module | Role |
|---|---|
| `SendPipeline` | campaign creation, queue, worker, processor and failure listeners, composed in one specification, because every hazard of sending is between two of them |
| `CampaignProgress` | abstract specification of a campaign as its progress bar shows it |
| `MCSendPipeline` | constants of `SendPipeline` for TLC |
| `SendPipelineProofs` | theorems about `SendPipeline` under every fault |
| `SendOutcomeProofs` | theorems about its outcomes and counters, under the assumptions they need |
| `Wallet` | recharges, webhooks, polling, application of payments, debits |
| `MCWallet`, `WalletProofs` | constants for TLC, theorems |
| `ContactValidation` | contacts of a user, their requests, the validation queue and its workers in several processes |
| `MCContactValidation`, `ContactValidationProofs` | constants for TLC, theorems |
| `SessionSharding` | the session of one user over several processes: claims, heartbeats, recovery, connect, disconnect, the provider's updates, the credentials |
| `MCSessionSharding`, `SessionShardingProofs` | constants for TLC, theorems |
| `BaileysConnection` | the provider inside one process: sockets, starts, reconnection and renewal timers, pairing codes |
| `MCBaileysConnection`, `BaileysConnectionProofs` | constants for TLC, theorems |
| `Authentication` | one account: registration, codes, families of refresh tokens, overlapping requests |
| `MCAuthentication`, `AuthenticationProofs` | constants for TLC, theorems |
| `Alerts`, `AlertPolicy` | cycles of alerts, and the abstract policy they implement |
| `MediaAdoption` | uploads of media and the campaigns that adopt them |
| `LiveTest` | the live test of the connection |
| `SendingWindow` | the window on the contact's clock and the pause before a send |
| `RechargePackages` | the catalogue of recharges |
| `PhoneNumbers` | the candidate numbers of a typed phone |
| `Realtime` | the app's live channel: the gateway's rooms, the client's sockets, the listener of the connection screen |
| `MCSupport`, `SupportProofs` | the seven small machines in one run, theorems about each |

### SendPipeline

One user, one session, one backend process.

* Tables are functions: `contacts`, `campaign`, `recipient`, `envio`, `session`,
  `balance`; a status `"none"` stands for a row that does not exist. Recipients
  are pairs (campaign, contact), envios are triples with the message.
* `jobs` is the BullMQ queue: state, attempts made and stall count of every job.
  The job `<<e, 0>>` is the one `enqueueCampaign` adds with `jobId = envioId`;
  `<<e, n>>` is the n-th rescheduling of the same envio, with fresh attempts.
* `worker`, `finalizers` and `requests` hold the program counters of the code in
  memory: `SendMessageProcessor.process`, the running `handleFailed` listeners,
  and `POST /campaigns` after its commit. A crash empties all three.
* `delivered` is a history variable: how often something of an envio was handed
  to WhatsApp. `budget` bounds the faults and edits of a run.

One `withTenantContext` call is one action, as in the code; the exception is
`applyRecipientOutcome`, whose transaction reads rows it does not lock and
writes them later: its reads (`ReadOutcome`, `ReadFailedOutcome`) and its writes
(`ApplySent`, `ApplyFailed`) are separate actions. The anti-ban delay is the
interval between `BeginAttempt`, which reads the contact, and `SendMessage`,
which uses that copy. `AttemptFails` may always happen: sending may throw.
`StepFails`, `FinalizeFails` and `RequestFails` are failed transactions or Redis
calls, `LoseAck` a job whose completion never reached Redis, `RecoverStalled`
BullMQ's check for such jobs.

| Code | Actions |
|---|---|
| `createCampaign` | `CreateCampaign`, then `EnqueueCampaign`, `CountPending`, `EnsureWorker` |
| `process` | `TakeJob`, `SkipResolved`, `Reschedule`, `BeginAttempt`, `SendMessage`, `AttemptFails` |
| `markSent` | `MarkSent`, `ReadOutcome`, `ApplySent`, `SettleSent` |
| end of a job | `CompleteJob`, `FailJob`, `LoseAck` |
| `finalizeFailure` | `BeginFinalize`, `MarkFailed`, `ReadFailedOutcome`, `ApplyFailed`, `SettleFailed`, `PushDeadLetter` |
| other modules | `ClearHistory`, `RemoveContact`, `EditContact`, `ValidateContact`, `ChangeSessionStatus` |

Left out because nothing branches on them: `Envio.attempts`, `failureReason`,
`sentAt`, metrics, logs, websocket events. Sizes and times are abstracted: a
waiting job may be taken at any moment, whatever its backoff, and an envio may
be outside its sending window whenever the bound allows.

### CampaignProgress

What the front relies on: a campaign is created with all its recipients pending,
each leaves "pending" once for "sent" or "failed", the campaign is `ENVIADA` when
none is pending, a cleared campaign never returns. `SendPipeline` implements it
with `progress <- campaign`; the property is `ImplementsProgress`.

### Wallet

`recharge` holds the `RECARGA` rows (status, and whether `pixPaymentId` is
stored), `debit` the `CONSUMO` rows and the debits in progress, `payment` the
payments at Mercado Pago, `creator` the `POST /wallet/recharge` requests, and
`applier` whoever applies a payment: a webhook, a status request of the app, or
the card request itself. `applyPaymentUpdate` is split at its statements, because
at READ COMMITTED others commit between them: `ReadRecharge` (idempotence check),
`ReadWallet`, then `CreditRecharge` or `CreditConflict` (compare-and-swap, PAGO and
commit, one step since the updated wallet row stays locked). `debitWalletOrThrow`
is `CheckBalance`, then `Debit` or `DebitConflict`; `SendPipeline` has the same
debit as one step of `CreateCampaign`.

`raced` is a history variable: the recharges settled while another applier was
past its check. A Pix can be paid only by a user who was shown its code, so only
after the request returned.

### ContactValidation

`contact` holds the rows, `request` the imports, additions (an import of one line)
and edits in progress, `jobs` the queue, one job for each enqueue since the code
gives no `jobId`, and `worker` the one worker of each backend process.
`registered` is what WhatsApp knows, constant through a behaviour; `Candidates` gives
the numbers `generateCandidates` would try for each phone; `holder` is the process
whose provider holds the session's socket, and it may change at any moment.

| Code | Actions |
|---|---|
| `importContacts`, `addContact` | `BeginImport`, `CreateContact` per row, `EndImport`, `CountImported`, then `Enqueue` or `EnqueueFails` per contact, in any order (`Promise.all`) |
| `updateContact` | `ReadForUpdate`, `UpdateContact`, then `Enqueue` if the phone changed |
| `removeContact` | `RemoveContact` |
| `process` | `TakeJob`, `SkipContact` or `ReadContact`, `CheckNumbers`, `Persist` |
| end of a job | `CompleteJob`, `FailJob`, `RecoverStalled` |
| failures | `RequestFails`, `StepFails`, `Crash` |

The worker's copy of phone and log lives from `ReadContact` to `Persist`; requests and
other workers act in between. `SendPipeline` sees of all this only its result, the
status of a contact changing (`ValidateContact`).

`raced` is a history variable: the contacts written from a copy no longer
current (by `Persist`, or by an edit that kept the phone it had read). A later edit to
another phone takes the contact out of it. `lost` holds the contacts whose enqueue
failed. The properties set these contacts aside, so they say that nothing but an
outdated write, or a failed enqueue, can break them.

### SessionSharding

`status`, `workerId` and `stale` are the session's row, `paired` whether
`session_auth_keys` has its credentials. Of each process the model has `owns`
(`sessionOwners`), `sock` (its entry of the provider's map of sockets) and `tasks`: the
reconnection's timer and everything the process awaits, be it a start, a
`rotateStickyKey` before a reconnection or a renewal, a code, a write of credentials, a step of
`disconnect`, the deletion after a definitive closing, a claim, a release or the write of an
update. Nothing orders the tasks of a process. A process has at most one of each kind, which is
a bound of the model.

| Code | Actions |
|---|---|
| `connect` | `Connect`, `ConnectDenied`, `StartAsked` |
| `disconnect` with `stopSession` | `Disconnect`, `LoggedOut`, `DisconnectReleases`, `DisconnectUpdates`, `DisconnectThrows` |
| heartbeats | `RenewHeartbeat`, `Lapse`, `Expire` |
| `recoverConnectedSessions` | `FindConnected`, `Recover`, `StartRecovered` |
| `handleProviderUpdate` | the writes the provider's steps add, `Write`, `WriteThrows`, `Release`, `ReleaseThrows` |
| `startSession`, the proxy | `Start` (up to the first await), `OpenSocket`, `StartThrows`, `ProxyFails` |
| `connection.update`, reconnection | `Opens`, `Drop`, `ScheduleReconnect`, `Reconnect`, `CloseForGood`, `Ended`, `EndThrows` |
| `performStickyRenewal` | `BeginRenewal`, `Renew`, `RenewalThrows` |
| QR and pairing codes | `AskCode`, `CodeComes`, `CodeGivesUp` |
| `creds.update`, `keys.set` | `BeginSave`, `SaveCreds` |

A process that crashes comes back at once under another worker id, which the code draws
at start; the owner it left in the row is `Gone`. (With a fixed `WORKER_ID` it would find
its own id and claim at once; that is not modelled.)

Three history variables say what went wrong. `failed` holds the processes where a start or a
deletion of credentials threw since the last start, `refused` that some call to the database
of the session's end threw. `blurred` records that

* a claim crossed another live process, the session's end or, in its own process, another claim;
* the session was disconnected or closed for good while anything else of it was awaited (not a
  timer that `stopSession` clears, nor a save, unless it is still in flight when the
  credentials are deleted);
* a recovery claimed a session the user had ended, whose row still said connected;
* a process crashed in the middle of an end; or
* a socket or a timer was replaced while still in use.

The properties say what holds otherwise, so that whatever breaks them needs such a
crossing.

### BaileysConnection

An action is the code of the provider from one await to the next. `current` and `socket`
are the map of sockets, `reconnect` and `sticky` the maps of timers; `strays` and
`straySticky` are timers whose handle the maps no longer have, because a schedule or
a start overwrote it. `starts`, `stopping`, `closing` and `renewing` are the calls between
two awaits. `EnterStart` is the part of `startSession` before its first await, shared by the
service's calls, both timers and the renewal; `OpenSocket` is `makeWASocket` and the
writes after it. `SessionSharding` has the same awaits with one socket, one timer and one flow
(`sock`, `tasks`); the correspondence is by reading, the two are not composed: the product is
beyond TLC and the provider never reads the row.

`wish` is what the service last asked for, `overlapped` records that an operation or a
command came while another was between two awaits, and `misrenewed` that a renewal of a
replaced flow began.

### Authentication

`user`, `password`, `codes` and `tokens` are the rows of one e-mail; `requests` holds, for
each request in progress, the statement it is about to run. Every service method is a
read (`Register`, `Confirm`, `Refresh`, `Logout`, ...) and later writes
(`CreateUser`, `UpdateUser`, `IssueCode`, `Consume`, `Rotate`, `Issue`, `Revoke`), without a
transaction around both. `offered`, `ended` and `crossed` are history: passwords registered while
the account was not confirmed, revoked families, and families two requests used together.

### The small modules

* `SendingWindow`: one job, in minutes of absolute time. `OffsetFor`, `IsWithin`,
  `UntilNextWindow` and `Pauses` are the pure functions of `timezone.service.ts` and
  `anti-ban-delay.service.ts`; the actions are the processor's use of them.
  `SendPipeline` keeps of it only that an envio may be out of its window.
* `RechargePackages`: `findRechargePackage`; `Wallet` takes the credits of a recharge as given.
* `PhoneNumbers`: `generateCandidates` on digit sequences, compared with a definition of
  what two spellings of one phone are; `ContactValidation` takes the lists as a constant.
* `MediaAdoption`: statement by statement, as `updateMany` of rows read earlier is what
  can go wrong.
* `Alerts` implements `AlertPolicy`: for each kind and user, an alert while the
  condition lasts, at most once per cooldown of a process, by
  `INSTANCE AlertPolicy WITH lasting <- condition, quiet <- unalerted, alerts <- raised`.
* `Realtime`: `link` is a socket as the app and the gateway see it, `handshake` the future
  `ensureConnected` returns for it. An action is a callback of the app, which runs whatever awaits
  a completed future before the next event, or a step of the gateway. `HandleConnection` is
  `handleConnection` with the arrival of its `session_ready`; `Reaches` is a `session` event
  on its way from room to listener. `SessionSharding` ends where such an event is published.
* `LiveTest`: which of QR code, closed connection and timer came first, with the closing
  that ending the socket itself causes.

## What the runs show

| Run | Instance | Result |
|---|---|---|
| `SendCore` | 1 campaign, 2 contacts, 2 messages, 2 attempts, a contact edited once; 0.64 M states | counters equal the recipients in each status, recipients reflect envios, nobody is forgotten, counters and dead letters settle, outcomes are final |
| `SendFaults` | 2 campaigns, a crash, a lost acknowledgement, a cleared history, fair event loop | undisturbed campaigns end; jobs delivered again change nothing twice (`CampaignProgress` is implemented); what a crash left behind resumes with the next campaign's worker |
| `SendStorm` | 2 messages, 2 overlapping listeners, a failed transaction, a lost acknowledgement, a removed contact, a rescheduling; 5.5 M states | reported sent means sent; a whole message is repeated only once per fault |
| `SendDuplicate` | one failed transaction | **violated**: a message is sent twice, against `README.md:132` |
| `WalletCore` | recharges of 1 and 2 credits, Pix or card, 1 handler beside the card requests, 2 campaigns, a crash, a failed call; 0.46 M states | balance not negative and covering the statement, PAGO only if approved, approved is FALHOU only by a fault, statement exact unless two appliers overlapped, polling recovers |
| `WalletRace` | 1 recharge, 2 handlers, no fault | **violated**: a recharge is credited twice |
| `ContactCore` | 1 contact, phones with two, one and no candidates, 2 requests, 2 processes, 2 attempts; 0.95 M states | a verdict is of the phone beside it and the log tells the attempts unless two writers overlapped; every pending contact has a job or a request that will enqueue it |
| `ContactImport` | 2 contacts, 2 requests, 1 process, a failed call or crash, fair; 0.92 M states | the counter of imported contacts is exact, nobody is forgotten silently, every contact gets a verdict or uses up its attempts |
| `SessionCore` | 2 processes, 3 requests, renewals, codes, saves, faults or failing calls, fair; 0.66 M states | only the owner holds the connection and an ended session stays ended, without credentials, unless something crossed; a renewed claim is backed by a connection unless a call threw; a connected session nobody holds is resumed |
| `ConnCore` | the QR flow and one phone, 2 sockets, 2 overlapping starts, 2 calls or failures; 1.7 M states | a started session is never forgotten, however operations overlap; one socket, of the user's flow, and none after the end, unless they did |
| `AuthCore` | 2 overlapping requests, 2 codes, 3 tokens, 2 passwords, 2 attempts; 2.1 M states | an exchanged token is spent, a revoked family stays revoked unless two requests used it together, guesses are bounded, the password was offered before the confirmation |
| `Support` | the seven small machines, one after the other; 0.12 M states | alerts implement their policy, a code the app asks for after a handshake reaches it unless its listener was left behind, the live test answers with what came first and leaves nothing behind, media stay with their campaign unless two creations raced, messages leave on time, the catalogue is monotone, all spellings of a phone give one set of candidates |

The two violations are disagreements between the code and what its own
documentation says; `PROJECT.json` quotes both.

1. *Duplicate send.* `process` sends, then records. When the first transaction of
   `markSent` fails, its error is caught as if the send had failed, and the retry
   sends again. `RepeatsNeedAFault` shows the damage is bounded by the faults.
2. *Credited twice.* The recharge is read before the balance. A second handler
   that read `PENDENTE` before the first committed, and the balance after,
   passes the compare-and-swap.

The history variables and premises of the other properties set aside what else the code
permits. A reader should know that:

* A contact is valid with a number of another phone: `persist` writes by id; if the
  user changes the phone while the worker waits for WhatsApp, the reopened contact
  becomes `VALIDO` with the old number.
* One recipient is counted as sent and as failed: if the last attempt fails
  after `ENVIADO` was written and counted, the listener overwrites it and decrements
  `pendingCount` again.
* A campaign whose contact was removed never ends: the cascade removes
  recipients and envios, not their share of `pendingCount`.
* A rescheduled job whose own completion is lost leaves two jobs of one envio, and
  both may be counted (`SendFaults` has no rescheduling for this reason).
* A process whose heartbeat lapsed and whose session was taken over gets
  `connectionReplaced`, which counts as definitive: it deletes the credentials the new
  holder uses and writes `DESCONECTADA` over it, against the comment at
  `session.service.ts:37-41`.
* A disconnection at a process that holds no socket leaves the credentials; one at a
  process that is not the owner clears the claim and leaves the owner's socket; an
  update read as owned may write `CONECTADA` after it.
* Ended while its provider awaits a rotated proxy key, a start, a renewal or a code, a session
  comes back: `stopSession` finds neither socket nor timer, `disconnect` releases the row, and the
  provider then schedules a reconnection, or opens a socket, for a session nobody owns
  (`baileys-whatsapp.provider.ts:379-387`, `514-520`, `556-566`).
* A disconnection whose deletion of the credentials throws (`baileys-whatsapp.provider.ts:176`)
  leaves an owner with a heartbeat and no connection, and the row as it was.
* An end whose update cannot be written is logged and releases the claim all the same
  (`session.service.ts:300-316`): the row keeps `CONECTADA`, and the next recovery resumes
  what the user or WhatsApp ended. So does a crash in mid-disconnect.
* A write of credentials or keys in flight when they are deleted puts some of them back.
* A session whose process crashed while `CONECTANDO` is not recovered
  (`session.service.ts:250` looks for `CONECTADA`), and a `connect` whose start threw
  keeps claim and heartbeat without a connection.
* Two starts that overlap leave two sockets; a pairing code given up after a logout
  schedules a reconnection; a flow that replaces another leaves its renewal timer,
  which later throws the user back to the old flow, against
  `baileys-whatsapp.provider.ts:97-99`; a reconnection that throws is logged and not
  tried again.
* A registration between its lookup and its update may overwrite the password of an
  account confirmed meanwhile; a refresh in flight during a logout leaves an
  active token in the revoked family; parallel guesses may exceed the attempts by
  the number of parallel requests minus one.
* Two creations may adopt one medium; the campaign that committed first then sends without it.
* The app's listeners stay on the socket they were first registered on. Started without a saved
  token, which is how the first login goes, it registers them on no socket, and no code
  or status reaches it before it is started again, although `realtime_client.dart:29-32` asks
  for a socket first; started with one, each later replacement of the socket (a refused token, a connection
  down when the user asks) leaves it deaf too.
* At its start the app's two repositories both pass the check of a handshake in progress and
  then await the token, so that the second disposes of the first's socket, whose call fails after
  ten seconds, against `realtime_client.dart:36-38`; and a socket found connected counts as
  ready before it is in the room, against `realtime_client.dart:70-72`.
* A window that begins after its end never opens; the window is checked before the
  pause, so that a message may leave just after its end.

`ConnectedIsResumed` takes a side in a disagreement. Two comments and the backend's README say that
no session is resumed by itself after a restart: `session.service.ts:43-48` calls it deliberately
out of scope, `alerts.service.ts:14-18` counts on it, and `backend/README.md:38` repeats it. The same
`session.service.ts` implements it: `recoverConnectedSessions` (240-278) claims and starts every
connected session without a live owner, soon after the start and on a timer, so that a redeploy
does not ask for a new QR code (92-98). The model follows the code, the property says what the
recovery promises, and the other comments are out of date.

`ContactImport` shows one more thing worth knowing: an attempt made by a process that
does not hold the session's socket fails as "disconnected", so a contact may use up
its attempts and stay `PENDENTE` while its session is connected elsewhere. That is
why `EveryContactSettles` admits a failed job, and needs no assumption on the session.

### Bounds, and why they are enough

Two contacts and two messages are the smallest instance where a recipient has
siblings and a campaign has recipients at different stages; two attempts the
smallest with both a retry and a last attempt; one rescheduling the smallest where
two jobs of one envio coexist; two campaigns the smallest where one opens the
worker that finds the other's jobs. Each kind of fault has a budget: one is enough
for each two-step hazard, and the theorems have any number of them. Contacts are symmetric in `SendCore`, which checks no liveness.
In `WalletCore` the two recharges may both be cards, so three appliers can overlap:
the two card requests and the handler. In `ContactCore` the three phones are the three
kinds of candidate lists, one number being a candidate of two phones; two requests
suffice for an edit and its undoing to bracket a check, two processes for two jobs of
one contact to overlap. It has no faults: they are `ContactImport`'s, whose
two contacts make an import that fails half way differ from one that fails whole.
In `SessionCore` three events are a claim, what crosses it, and what ends the session; requests,
renewals, codes, saves, faults and calls that throw all count, what follows from them does not.
Two processes are the smallest number with a takeover. In `ConnCore` two sockets and two starts
are the smallest numbers that can overlap, and two flows the smallest with a replaced one;
the two events are calls of the service or failures, beside which timers, closings and codes
are free. In `AuthCore` a family needs three tokens to have a parent, a child and a stranger,
and each hazard is between two requests. `Support` takes moments, hours, sizes and
amounts on both sides of every boundary of the code. Three sockets are those the two
repositories and the user can open together, and one drop each for two of them. The theorems below have none of these bounds.

`MaxFinalizers` deserves a word. Failure listeners are not awaited by the worker,
so nothing in the code forbids two of them to overlap; a listener takes a few
short transactions, and the next job of the session cannot fail before its own
anti-ban delay of seconds. The exact counters are therefore checked with one
listener at a time beside the worker (`SendCore`, `SendFaults`). With two listeners
of sibling envios overlapping, both can pass the check in
`applyRecipientOutcome` and the recipient is counted twice: the code relies on
timing here. `SendStorm` and all theorems but the two about these counters allow any overlap.

### Fairness

The event loop runs what is runnable: weak fairness of each request, of the worker's
steps, of each listener, of taking a waiting job and of BullMQ's stalled-job check,
which its Worker runs on a timer. In the wallet, weak fairness of each applier, and
strong fairness of the app's polling of a pending recharge: the app polls
`GET /wallet` while the user waits, and the number of handlers is a bound of
the model, not of the server. In `ContactValidation`, weak fairness of each request's and
each worker's next step, of taking a waiting job and of the stalled-job check; none of
the socket. In `SessionSharding`, weak fairness of what a process awaited and of the
recovery, which the service repeats on a timer, and of the expiry of a claim that
nobody renews, which is the clock; none of the socket, nor of a user. In `Alerts`, of the
clock, the timer that begins cycles and the loops' awaits. Nothing is assumed of the user, of WhatsApp, of
Mercado Pago, of webhooks or of faults.

`BacklogResumes` holds with a crash; `CampaignFinishes` sets aside campaigns that a crash
or a cleared history disturbed, since after a restart no worker exists until the user's
next campaign.

## What is proved

TLAPS checks the theorems for every value of the constants, under the named
assumptions of each module (finite sets, positive bounds): any number of campaigns,
contacts, messages, attempts, reschedulings, listeners, recharges, handlers, faults.
Every invariant the runs check is stated by a theorem, and so are the action property
`OutcomeIsFinal` and the refinement `ImplementsProgress`. Seven theorems have
a hypothesis about constants; it is given with them.

### Sending

Under every fault:

* `TypeCorrect`: `SendPipeline` is well typed. `TypeOK` alone is not
  inductive: that a job never exceeds its attempts needs `AttemptsLeft` (a job that
  can still be taken has one left), and the worker's accesses need
  `WorkerHoldsJob` (a busy worker's job is active). Together they are `TypeInv`.
* `SentIsDelivered`: `SentMeansDelivered`, strengthened by what the worker knows
  between the send and its record (`DeliveredInv`).
* `RepeatsAreFaults`: `RepeatsNeedAFault`. `RepeatInv` counts one delivery fewer while
  the envio is still `PENDENTE` and not being recorded; `FreshInv` says that
  a campaign not yet created has no jobs, so a creation cannot reset an envio that
  was sent.

Under assumptions on the faults, each a formula about the constants that the run which
checks the property satisfies, and each set where the property fails without it:

| Assumption | Says | Without it |
|---|---|---|
| `NoFailedTransaction` | the transactions of a handler succeed once begun | the listener of a job whose last attempt failed after `ENVIADO` was written overwrites it |
| `NoReplacedJobRuns` | there is no rescheduling, or the end of every job is recorded | a rescheduled job delivered again runs beside its replacement |
| `NoLostStep` | no transaction fails, no process crashes, no acknowledgement is lost | nobody goes on with what was in memory |
| `OneByOne` | contacts are not removed, one listener runs at a time | `removeContact` leaves the counters; two listeners both pass the check of `applyRecipientOutcome` |
| `NoDeletion` | no contact and no history is removed | both leave the counters of the session |

`Sober` is the first two together.

* `RecipientsReflectEnvios` and `OutcomesAreFinal` (`Sober`): the core is `SoloInv`, that of the
  jobs of one envio at most one acts, counting a job until its listener has ended, and a
  listener runs only after the last job. Then `FateInv` says what a listener, a queued job
  and the worker may find in their envio and in its siblings. Crashes and lost
  acknowledgements are allowed as long as no job was rescheduled, and listeners of
  different envios may overlap.
* `NobodyForgotten` (`NoLostStep`): `WorkInv` adds who carries what is pending: a `PENDENTE`
  envio has its request or a job that acts, and whoever made the last envio of a recipient
  final is about to write the recipient.
* `BucketsAreExact` (`Sober`, `OneByOne`): `BucketInv` adds that whoever is about to write an
  outcome writes the first one of its recipient; each step then moves one element between
  two finite sets.
* `PipelineImplementsProgress` (`Sober`, `OneByOne`): with the counters known to be exact, each
  action maps to a step of `CampaignProgress` or to a stutter.
* `CountersAreExact` (`NoLostStep`, `NoDeletion`): the envios in each state are those counted
  plus those that the worker, a listener or a request still owes the session (`SentInv`,
  `FailedInv`, `PendingInv`), and a failed envio whose listener has ended is one dead letter
  (`LetterInv`). It needs no bound on listeners: the counters of the session are
  increments, not derived from a count of siblings.

### Wallet

* `WalletTypeCorrect` and `NeverNegative`: a debit past its check fits in the balance it
  read (`DebitFits`), and it writes only if the balance is still that.
* `PaidIsApproved`: final statuses of Mercado Pago stay (`PaymentIsFinal`), so what an
  applier was answered stays true however long it waits (`ApplierInv`, `CreatorInv`).
* `FailsOnlyByFault`: without a fault, a request that gives up knows that no payment
  was created (`FailedInv`).
* `NeverOverstated`: `PaidIsCovered` by the types and `KnowledgeInv`, step by step: whatever adds to the
  sum of the recharges paid adds as much to the balance, and a debit takes from both.
* `StatementIsExact`: without a fault, the recharge of an applier past its check is open, or
  raced (`RaceInv`).

The sums of the statement are written as cardinalities, of the set of all single credits
(`Total`): a sum by recursion or fold is out of the provers' reach, which cannot induct
over a set. The proof attempt also showed that the cases of `ReadRecharge` overlapped; TLC
takes the first that holds, the logic any, and they now exclude each other.

### Contacts

* `ContactTypeCorrect`: as above, a job never exceeds its attempts because a busy worker's
  job is active and held by no other (`WorkersHoldJobs`), and a request enqueues a
  contact once (`JobsFollowRequests`).
* `VerdictOfOwnPhone`: `VerdictMatchesPhone`. The status alone does not show that a
  worker's copy is outdated: a worker that read `PENDENTE` may write after another made
  the contact `VALIDO`. The log does. A worker never holds a log with a success
  (`AnswerInv`), a valid contact's log has one (`LogInv`), so a write that finds the
  log it read finds an unresolved contact.
* `ContactsAreCarried`: `NoContactForgotten` is not inductive, for an active job may already have
  returned; `CarriedInv` counts only jobs that will still look at their contact.
* `LogsAreComplete`: `LogTellsAttempts` is inductive with the types, by a lemma about what
  appending to a log does to its judgements.
* `ImportsAreExact`: the counter has all contacts but those of requests under way, which
  hold contacts of their own (`CountInv`).

### Session, provider, account

* `ShardingTypeCorrect` and `ClaimsAreBacked`: by `OwnsInv`, which is stronger and simpler
  than the property: whoever is in `sessionOwners` has a connection or is getting to it, is on
  its way out, or had a call that threw.
* `OnlyTheOwnerHolds`: `HoldInv` says who may await what while nothing crosses. Sockets, timers,
  starts, rotations, renewals and codes are the owner's; nobody has any of them while
  some process parts with the session, so that a release cannot take the claim from under a holder;
  and a process that recovers it does nothing else with it.
* `EndedSessionsStayEnded` of `SessionSharding`: `EndInv` adds that nobody claims a session
  that is not wanted, that its row is on its way to be cleared unless a call of the end threw, and that
  deleted credentials have no write in flight.
* `ConnectionTypeCorrect` and `SessionsAreNeverForgotten`: `NeverForgotten` is inductive
  with the types, since a timer always carries a flow; it needs nothing about overlaps.
* `OneSocketAlone`, `EndedSessionsStayEnded`, `SocketsFollowTheUser` of `BaileysConnection`: while nothing has
  overlapped, at most one operation is in progress (`OneOperation`), and
  `Order` says what it may find: a start in progress means no socket and no timer, a
  renewal's socket is still the current one, no timer is astray. `FlowInv` says that
  whatever is set or in progress is of the wished flow. Each is false after an overlap,
  which is why `overlapped` has to be an antecedent and not an assumption.
* `AuthTypeCorrect`, `ExchangedTokensAreSpent`, `RevocationHolds`, `PasswordWasOffered`: by
  `AuthInv`, which says what each request in progress knows and what no other request can have
  changed since: a token about to be exchanged has begun, the token a new one is issued for is spent,
  two requests of one family have crossed.
* `GuessesAreBounded`: the attempts written plus the requests about to write one
  (`Wrong(c)`, a cardinality) never exceed the bound (`AttemptsInv`).

### The small modules (`SupportProofs`)

* `WindowTypeCorrect`, `SendsOnTime`: `NextOpening` is arithmetic on minutes, for every hour and area
  code: outside a regular window, the wait ends at the next opening and every minute before is
  outside.
* `CatalogueIsMonotone`: the bonus grows with the amount and integer division is monotone; the
  fixed packages are custom packages of their amounts.
* `TestLeavesNothing`: the first event is the one answered, since `finish` removes the
  listener before it closes the socket (`TestInv`).
* `CodesReachTheApp`: a socket in use is one the app opened, its handshake is done only in the room, and
  the listener is on it unless it was left elsewhere (`ChannelInv`).
* `MediaStayAdopted`: whoever did not race adopts free media, and owns exactly what it adopted, which
  no creation under way has adopted too (`UnracedKeep`); rows have files (`RowsHaveFiles`).
* `AlertsKeepPolicy`: the safety part of `ImplementsPolicy`, from `since = unalerted`: the map of
  last alerts is true to the alerts raised.
* `SpellingDoesNotMatter`, where two numbers may be tried (`TriesBoth`; the configuration admits
  one, see below): by lemmas on sequences, that a concatenation splits where it was joined and that a number
  that begins with another digit does not begin with the country code. It assumes that
  area codes do not begin with zero, which holds of all Brazil's.

### What stays with TLC

Each invariant was checked by TLC before it was proved, and still is. Type invariants are proved and no longer
part of the runs. Only model-checked is liveness, which the prover does not do:
`CampaignFinishes`, `BacklogResumes`, `PollingRecovers`, `EveryContactSettles`,
`ConnectedIsResumed` and the liveness part of `ImplementsPolicy`.

## What is left

A refinement from `BaileysConnection` to the provider's part of `SessionSharding`; outcomes
under failed transactions, with the recipients they may disturb named by a history
variable rather than assumed away.

## What is not modelled

* The Flutter application, but its live channel, and the platform shells: screens over REST.
* Personalisation, settings, application info, health (but the live test), mail, logging,
  the error categories and the counters of the metrics endpoint: I/O, text, or single-row
  reads and writes.
* What events on the websocket say: copies of states other modules hold, whose order on the
  wire nothing in the code promises; and the snapshots over REST that may overtake them.
* The rows of proxy configuration, the encryption of their credentials and of the signal keys, and
  the two storages of media: what matters of them here is whether they answer, and in
  `BaileysConnection` they may not.
* Webhook signatures, access tokens and password hashes: stateless functions of libraries.
* Row-level security, which PostgreSQL enforces; the models have one user, and
  `withTenantContext` is the boundary of their transactions.
* `isStructurallyValid` of `phone-number.service.ts`, which nothing calls. (It would
  reject numbers of area code 55 without a country code.) With
  `CONTACT_MAX_VERIFICATION_ATTEMPTS=1` the list of candidates is cut to one, and the spellings
  of a phone no longer agree; `Support` has the default of three.
* Floating point: `RechargePackages` has the integer division that the code's
  `Math.floor` gives for every amount it accepts (1000 to 9,999,999 cents).
* Files of media are never deleted, also not with their campaigns; the order of a message's
  attachments is always 0, that is, unspecified.
