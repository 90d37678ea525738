-------------------------- MODULE ContactValidation --------------------------
(***************************************************************************)
(* The contacts of one user of ZaBot and the queue that verifies them:     *)
(* requests that import, edit and remove contacts, and the workers (one in *)
(* each instance of the backend) that ask WhatsApp whether a number of the *)
(* contact exists.                                                         *)
(*                                                                         *)
(* A worker reads the contact, waits for WhatsApp, and writes its verdict  *)
(* over whatever the row holds by then; requests and other workers act in  *)
(* between.  Only the instance that holds the session's socket can ask.    *)
(*                                                                         *)
(* Left out: custom fields, timestamps, the wording of the log, lines of   *)
(* an import that are skipped, and the delays of the queue's backoff.      *)
(***************************************************************************)
EXTENDS Naturals, Sequences, FiniteSets

CONSTANTS
    Contacts,     \* ids of contacts
    Phones,       \* raw phones a user may type
    Numbers,      \* numbers WhatsApp may know
    Candidates,   \* generateCandidates: the numbers to try for each phone, in order
    Requests,     \* requests that add, import or edit contacts
    Workers,      \* instances of the backend, each with one worker
    MaxAttempts,  \* attempts of a job
    Budget        \* bound: how many calls and instances fail

ASSUME ContactAssumption ==
    /\ IsFiniteSet(Contacts) /\ Contacts # {} /\ Requests # {} /\ Phones # {}
    /\ Candidates \in [Phones -> Seq(Numbers)]
    /\ "none" \notin Numbers /\ "none" \notin Workers
    /\ MaxAttempts \in Nat \ {0}
    /\ Budget \in Nat

VARIABLES
    registered,  \* numbers with a WhatsApp account
    holder,      \* the instance whose provider holds the session's socket
    contact,     \* contacts
    imported,    \* sessions.contactsImported
    request,     \* requests in progress
    jobs,        \* jobs of the validate-numbers queue: one for each enqueue of a request
    worker,      \* workers
    raced,       \* history: contacts written from a copy that was no longer current
    lost,        \* history: contacts whose job a failed request did not enqueue
    budget       \* faults that may still occur

vars == <<registered, holder, contact, imported, request, jobs, worker, raced, lost, budget>>

-----------------------------------------------------------------------------
Job == Requests \X Contacts
Verdicts == {"found", "absent", "malformed", "offline"}
Reasons == {"none", "absent", "malformed", "offline"}

ContactRow ==
    [status : {"none", "PENDENTE", "VALIDO", "INVALIDO", "removed"},
     phone : Phones, number : Numbers \cup {"none"},
     reason : Reasons, attempts : Nat, log : Seq(Verdicts)]
RequestRow ==
    [pc : {"new", "creating", "counting", "editing", "enqueuing", "done", "failed"},
     made : SUBSET Contacts, edits : SUBSET Contacts, seen : Phones, phone : Phones]
JobRow ==
    [state : {"none", "wait", "active", "completed", "failed"}, made : 0 .. MaxAttempts, stalled : BOOLEAN]
WorkerRow ==
    [pc : {"idle", "claimed", "checking", "persisting", "returned", "threw"},
     job : Job, phone : Phones, log : Seq(Verdicts), verdict : Verdicts, number : Numbers \cup {"none"}]

TypeOK ==
    /\ registered \subseteq Numbers
    /\ holder \in Workers \cup {"none"}
    /\ contact \in [Contacts -> ContactRow]
    /\ imported \in Nat
    /\ request \in [Requests -> RequestRow]
    /\ jobs \in [Job -> JobRow]
    /\ worker \in [Workers -> WorkerRow]
    /\ raced \subseteq Contacts
    /\ lost \subseteq Contacts
    /\ budget \in Nat

FreshContact(phone) ==
    [status |-> "PENDENTE", phone |-> phone, number |-> "none",
     reason |-> "none", attempts |-> 0, log |-> << >>]
SomePhone == CHOOSE p \in Phones : TRUE
IdleWorker ==
    [pc |-> "idle", job |-> CHOOSE j \in Job : TRUE, phone |-> SomePhone,
     log |-> << >>, verdict |-> "offline", number |-> "none"]

Init ==
    /\ registered \in SUBSET Numbers
    /\ holder \in Workers \cup {"none"}
    /\ contact = [c \in Contacts |-> [FreshContact(SomePhone) EXCEPT !.status = "none"]]
    /\ imported = 0
    /\ request = [r \in Requests |-> [pc |-> "new", made |-> {}, edits |-> {},
                                      seen |-> SomePhone, phone |-> SomePhone]]
    /\ jobs = [j \in Job |-> [state |-> "none", made |-> 0, stalled |-> FALSE]]
    /\ worker = [w \in Workers |-> IdleWorker]
    /\ raced = {}
    /\ lost = {}
    /\ budget = Budget

Exists(c) == contact[c].status \notin {"none", "removed"}

Fault ==
    /\ budget > 0
    /\ budget' = budget - 1

-----------------------------------------------------------------------------
(* Requests of the user *)

\* importContacts and addContact (an import of one line): the rows are created
\* one after the other, each in a transaction of its own.
BeginImport(r) ==
    /\ request[r].pc = "new"
    /\ request' = [request EXCEPT ![r].pc = "creating"]
    /\ UNCHANGED <<registered, holder, contact, imported, jobs, worker, raced, lost, budget>>

CreateContact(r, c, phone) ==
    /\ request[r].pc = "creating"
    /\ contact[c].status = "none"
    /\ contact' = [contact EXCEPT ![c] = FreshContact(phone)]
    /\ request' = [request EXCEPT ![r].made = @ \cup {c}]
    /\ UNCHANGED <<registered, holder, imported, jobs, worker, raced, lost, budget>>

EndImport(r) ==
    /\ request[r].pc = "creating"
    /\ request' = [request EXCEPT ![r].pc = IF request[r].made = {} THEN "done" ELSE "counting"]
    /\ UNCHANGED <<registered, holder, contact, imported, jobs, worker, raced, lost, budget>>

\* Mutation of Received: every import counts one.
ReceivedOne(made) == 1

\* By how much an import raises the counter.
Received(made) == Cardinality(made)

\* incrementContactsImported.
CountImported(r) ==
    /\ request[r].pc = "counting"
    /\ imported' = imported + Received(request[r].made)
    /\ request' = [request EXCEPT ![r].pc = "enqueuing"]
    /\ UNCHANGED <<registered, holder, contact, jobs, worker, raced, lost, budget>>

\* The request has one contact fewer to enqueue.
Dequeued(r, c) ==
    request' = [request EXCEPT ![r].made = @ \ {c},
                               ![r].pc = IF request[r].made = {c} THEN "done" ELSE @]

\* Enqueues run concurrently (Promise.all): in any order, and on after one failed.
Enqueue(r, c) ==
    /\ request[r].pc = "enqueuing"
    /\ c \in request[r].made
    /\ jobs' = [jobs EXCEPT ![<<r, c>>].state = "wait"]
    /\ Dequeued(r, c)
    /\ UNCHANGED <<registered, holder, contact, imported, worker, raced, lost, budget>>

EnqueueFails(r, c) ==
    /\ request[r].pc = "enqueuing"
    /\ c \in request[r].made
    /\ Fault
    /\ lost' = lost \cup {c}
    /\ Dequeued(r, c)
    /\ UNCHANGED <<registered, holder, contact, imported, jobs, worker, raced>>

\* updateContact, the read.
ReadForUpdate(r, c, phone) ==
    /\ request[r].pc = "new"
    /\ Exists(c)
    /\ request' = [request EXCEPT ![r] = [pc |-> "editing", made |-> {}, edits |-> {c},
                                          seen |-> contact[c].phone, phone |-> phone]]
    /\ UNCHANGED <<registered, holder, contact, imported, jobs, worker, raced, lost, budget>>

\* Mutation of Edited: the number found for the old phone is kept.
EditedKeepingNumber(row, phone, phoneChanged) ==
    IF phoneChanged THEN [FreshContact(phone) EXCEPT !.number = row.number] ELSE [row EXCEPT !.phone = phone]

\* What updateContact writes: a changed phone reopens the verification.
Edited(row, phone, phoneChanged) ==
    IF phoneChanged THEN FreshContact(phone) ELSE [row EXCEPT !.phone = phone]

\* Mutation of NeedsJob: an edit never enqueues.
NeedsNoJob(phoneChanged) == FALSE

\* The job of an edit: only a changed phone is verified again.
NeedsJob(phoneChanged) == phoneChanged

\* updateContact, the write: phoneChanged is decided with the phone that was read.
UpdateContact(r, c) ==
    LET edit == request[r]
        phoneChanged == edit.phone # edit.seen
    IN  /\ edit.pc = "editing"
        /\ c \in edit.edits
        /\ IF Exists(c)
           THEN /\ contact' = [contact EXCEPT ![c] = Edited(@, edit.phone, phoneChanged)]
                /\ request' = [request EXCEPT
                       ![r].pc = IF NeedsJob(phoneChanged) THEN "enqueuing" ELSE "done",
                       ![r].made = IF NeedsJob(phoneChanged) THEN {c} ELSE {}]
                /\ raced' = IF phoneChanged THEN raced \ {c}
                            ELSE IF contact[c].phone = edit.phone THEN raced
                            ELSE raced \cup {c}
           ELSE /\ request' = [request EXCEPT ![r].pc = "failed"]
                /\ UNCHANGED <<contact, raced>>
        /\ UNCHANGED <<registered, holder, imported, jobs, worker, lost, budget>>

\* A statement of the request fails, or its instance dies: what it created stays.
RequestFails(r) ==
    /\ request[r].pc \in {"creating", "counting", "editing", "enqueuing"}
    /\ Fault
    /\ request' = [request EXCEPT ![r].pc = "failed"]
    /\ lost' = lost \cup request[r].made
    /\ UNCHANGED <<registered, holder, contact, imported, jobs, worker, raced>>

RemoveContact(c) ==
    /\ Exists(c)
    /\ contact' = [contact EXCEPT ![c].status = "removed"]
    /\ UNCHANGED <<registered, holder, imported, request, jobs, worker, raced, lost, budget>>

-----------------------------------------------------------------------------
(* The worker of one instance: process(job) *)

Of(w) == worker[w].job[2]

TakeJob(w, j) ==
    /\ worker[w].pc = "idle"
    /\ jobs[j].state = "wait"
    /\ jobs' = [jobs EXCEPT ![j].state = "active"]
    /\ worker' = [worker EXCEPT ![w].pc = "claimed", ![w].job = j]
    /\ UNCHANGED <<registered, holder, contact, imported, request, raced, lost, budget>>

Verified(c) == contact[c].status = "VALIDO"

\* Removed, or validated by another job.
SkipContact(w) ==
    /\ worker[w].pc = "claimed"
    /\ ~ Exists(Of(w)) \/ Verified(Of(w))
    /\ worker' = [worker EXCEPT ![w].pc = "returned"]
    /\ UNCHANGED <<registered, holder, contact, imported, request, jobs, raced, lost, budget>>

\* The contact is read: phone and log are copies from here on.
ReadContact(w) ==
    LET row == contact[Of(w)]
    IN  /\ worker[w].pc = "claimed"
        /\ Exists(Of(w)) /\ ~ Verified(Of(w))
        /\ worker' = [worker EXCEPT
               ![w].pc = IF Candidates[row.phone] = << >> THEN "persisting" ELSE "checking",
               ![w].phone = row.phone, ![w].log = row.log,
               ![w].verdict = "malformed", ![w].number = "none"]
        /\ UNCHANGED <<registered, holder, contact, imported, request, jobs, raced, lost, budget>>

\* The candidates that exist, by position, and the first of them.
Hits(phone) == {i \in DOMAIN Candidates[phone] : Candidates[phone][i] \in registered}
FirstHit(phone) == Candidates[phone][CHOOSE i \in Hits(phone) : \A k \in Hits(phone) : i <= k]

\* checkNumbers: without the socket of the session, SESSAO_DESCONECTADA.
CheckNumbers(w) ==
    LET phone == worker[w].phone
        found == holder = w /\ Hits(phone) # {}
    IN  /\ worker[w].pc = "checking"
        /\ worker' = [worker EXCEPT
               ![w].pc = "persisting",
               ![w].verdict = IF holder # w THEN "offline" ELSE IF found THEN "found" ELSE "absent",
               ![w].number = IF found THEN FirstHit(phone) ELSE "none"]
        /\ UNCHANGED <<registered, holder, contact, imported, request, jobs, raced, lost, budget>>

\* Mutation of Judged: being offline counts as an attempt.
JudgedCountingOffline(row, log, verdict, number) ==
    IF verdict = "offline"
    THEN [row EXCEPT !.reason = "offline", !.attempts = @ + 1, !.log = Append(log, verdict)]
    ELSE [row EXCEPT !.status = IF verdict = "found" THEN "VALIDO" ELSE "INVALIDO",
                     !.number = number,
                     !.reason = IF verdict = "found" THEN "none" ELSE verdict,
                     !.attempts = @ + 1,
                     !.log = Append(log, verdict)]

\* What persist writes: the log that was read and one entry more.
Judged(row, log, verdict, number) ==
    IF verdict = "offline"
    THEN [row EXCEPT !.reason = "offline", !.log = Append(log, verdict)]
    ELSE [row EXCEPT !.status = IF verdict = "found" THEN "VALIDO" ELSE "INVALIDO",
                     !.number = number,
                     !.reason = IF verdict = "found" THEN "none" ELSE verdict,
                     !.attempts = @ + 1,
                     !.log = Append(log, verdict)]

Persist(w) ==
    LET c == Of(w)
        me == worker[w]
    IN  /\ me.pc = "persisting"
        /\ IF Exists(c)
           THEN /\ contact' = [contact EXCEPT ![c] = Judged(@, me.log, me.verdict, me.number)]
                /\ raced' = IF contact[c].phone = me.phone /\ contact[c].log = me.log
                            THEN raced ELSE raced \cup {c}
                /\ worker' = [worker EXCEPT ![w].pc = IF me.verdict = "offline" THEN "threw" ELSE "returned"]
           ELSE /\ worker' = [worker EXCEPT ![w].pc = "threw"]
                /\ UNCHANGED <<contact, raced>>
        /\ UNCHANGED <<registered, holder, imported, request, jobs, lost, budget>>

\* A read, the question to WhatsApp or the write fails: process throws.
StepFails(w) ==
    /\ worker[w].pc \in {"claimed", "checking", "persisting"}
    /\ Fault
    /\ worker' = [worker EXCEPT ![w].pc = "threw"]
    /\ UNCHANGED <<registered, holder, contact, imported, request, jobs, raced, lost>>

CompleteJob(w) ==
    /\ worker[w].pc = "returned"
    /\ jobs' = [jobs EXCEPT ![worker[w].job].state = "completed"]
    /\ worker' = [worker EXCEPT ![w] = IdleWorker]
    /\ UNCHANGED <<registered, holder, contact, imported, request, raced, lost, budget>>

Exhausted(made) == made >= MaxAttempts

\* The attempt failed: another one after a delay, or none.
FailJob(w) ==
    LET j == worker[w].job
        made == jobs[j].made + 1
    IN  /\ worker[w].pc = "threw"
        /\ jobs' = [jobs EXCEPT ![j].made = made,
                                ![j].state = IF Exhausted(made) THEN "failed" ELSE "wait"]
        /\ worker' = [worker EXCEPT ![w] = IdleWorker]
        /\ UNCHANGED <<registered, holder, contact, imported, request, raced, lost, budget>>

-----------------------------------------------------------------------------
(* The instances *)

\* The instance dies and comes up again: its job stays active, its socket is gone.
Crash(w) ==
    /\ worker[w].pc # "idle"
    /\ Fault
    /\ worker' = [worker EXCEPT ![w] = IdleWorker]
    /\ holder' = IF holder = w THEN "none" ELSE holder
    /\ UNCHANGED <<registered, contact, imported, request, jobs, raced, lost>>

\* Mutation of Held: no stalled job is ever found.
AlwaysHeld(j) == TRUE

Held(j) == \E w \in Workers : worker[w].pc # "idle" /\ worker[w].job = j

\* BullMQ finds an active job whose lock expired: it waits again, the second time it fails.
RecoverStalled(j) ==
    /\ jobs[j].state = "active"
    /\ ~ Held(j)
    /\ jobs' = [jobs EXCEPT ![j].state = IF jobs[j].stalled THEN "failed" ELSE "wait",
                            ![j].stalled = TRUE]
    /\ UNCHANGED <<registered, holder, contact, imported, request, worker, raced, lost, budget>>

\* The session connects at an instance, or disconnects.
MoveSocket(h) ==
    /\ holder # h
    /\ holder' = h
    /\ UNCHANGED <<registered, contact, imported, request, jobs, worker, raced, lost, budget>>

-----------------------------------------------------------------------------
Answer(r) ==
    \/ EndImport(r) \/ CountImported(r)
    \/ \E c \in Contacts : Enqueue(r, c) \/ UpdateContact(r, c)

Work(w) ==
    \/ SkipContact(w) \/ ReadContact(w) \/ CheckNumbers(w) \/ Persist(w)
    \/ CompleteJob(w) \/ FailJob(w)

Next ==
    \/ \E r \in Requests : BeginImport(r) \/ Answer(r) \/ RequestFails(r)
    \/ \E r \in Requests, c \in Contacts : EnqueueFails(r, c)
    \/ \E r \in Requests, c \in Contacts, p \in Phones : CreateContact(r, c, p) \/ ReadForUpdate(r, c, p)
    \/ \E c \in Contacts : RemoveContact(c)
    \/ \E w \in Workers, j \in Job : TakeJob(w, j)
    \/ \E w \in Workers : Work(w) \/ StepFails(w) \/ Crash(w)
    \/ \E j \in Job : RecoverStalled(j)
    \/ \E h \in Workers \cup {"none"} : MoveSocket(h)

Spec == Init /\ [][Next]_vars

\* Requests and workers go on, an idle worker takes a waiting job, and BullMQ looks
\* for stalled jobs.  Nothing is assumed of the session: the socket may never come back.
Fairness ==
    /\ \A r \in Requests : WF_vars(Answer(r))
    /\ \A w \in Workers : WF_vars(Work(w))
    /\ WF_vars(\E w \in Workers, j \in Job : TakeJob(w, j))
    /\ \A j \in Job : WF_vars(RecoverStalled(j))

FairSpec == Spec /\ Fairness

-----------------------------------------------------------------------------
(* Properties *)

Judgements(log) == Cardinality({i \in DOMAIN log : log[i] # "offline"})

\* The verdict a contact shows is that of the phone it shows: a valid contact has
\* the first existing candidate of its own phone, any other has no number, and the
\* reason fits.  Only a write from an outdated copy breaks it: an edit that reopens
\* the verification makes it true again.
VerdictOfPhone(c) ==
    LET row == contact[c]
    IN  CASE row.status = "VALIDO"   -> /\ Hits(row.phone) # {}
                                        /\ row.number = FirstHit(row.phone)
                                        /\ row.reason = "none"
          [] row.status = "INVALIDO" -> /\ Hits(row.phone) = {} /\ row.number = "none"
                                        /\ row.reason = "malformed" => Candidates[row.phone] = << >>
                                        /\ row.reason # "none"
          [] row.status = "PENDENTE" -> row.number = "none" /\ row.reason \in {"none", "offline"}
          [] OTHER                   -> TRUE

VerdictMatchesPhone == \A c \in Contacts \ raced : VerdictOfPhone(c)

\* The log of a contact holds an entry for every attempt that was counted, across
\* edits, retries and duplicate jobs, unless two writers overlapped.
LogTellsAttempts ==
    \A c \in Contacts \ raced : Exists(c) => contact[c].attempts = Judgements(contact[c].log)

JobOf(c, states) == \E r \in Requests : jobs[<<r, c>>].state \in states

\* A contact waits for its verdict only while somebody is about to give it one: a
\* job, or the request that enqueues it.  Otherwise its job used all attempts, or a
\* failed request never enqueued it.
NoContactForgotten ==
    \A c \in Contacts :
        contact[c].status = "PENDENTE" =>
            \/ JobOf(c, {"wait", "active", "failed"})
            \/ \E r \in Requests : c \in request[r].made /\ request[r].pc \in {"creating", "counting", "enqueuing"}
            \/ c \in lost

\* The counter of imported contacts is the number of contacts ever created, once no
\* import is on its way and none has failed half way.
ImportsAreCounted ==
    (\A r \in Requests : request[r].pc \notin {"creating", "counting", "failed"})
    => imported = Cardinality({c \in Contacts : contact[c].status # "none"})

\* Every pending contact gets a verdict, or runs out of attempts, whatever happens
\* to the session.
EveryContactSettles ==
    \A c \in Contacts :
        contact[c].status = "PENDENTE" ~> (contact[c].status # "PENDENTE" \/ c \in lost \/ JobOf(c, {"failed"}))

=============================================================================
