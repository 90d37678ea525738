----------------------- MODULE ContactValidationProofs -----------------------
(***************************************************************************)
(* What holds of ContactValidation for every set of contacts, phones,      *)
(* requests and instances and any number of faults: type correctness, that *)
(* a job is in one worker's hands at a time, that a verdict is of the      *)
(* phone beside it and the log complete unless somebody wrote from an      *)
(* outdated copy, that no pending contact is forgotten, and that imports   *)
(* are counted.                                                            *)
(***************************************************************************)
EXTENDS ContactValidation, FiniteSetTheorems, WellFoundedInduction, TLAPS

-----------------------------------------------------------------------------
(* Type correctness *)

\* A job a worker works on is active and no other worker has it.
WorkersHoldJobs ==
    \A w \in Workers : worker[w].pc # "idle" =>
        /\ jobs[worker[w].job].state = "active"
        /\ \A v \in Workers : v # w /\ worker[v].pc # "idle" => worker[v].job # worker[w].job

\* A job that may still run has an attempt left.
AttemptsLeft == \A j \in Job : jobs[j].state \in {"none", "wait", "active"} => jobs[j].made < MaxAttempts

\* A request that has a job has enqueued it, and does so only once.
JobsFollowRequests ==
    \A r \in Requests, c \in Contacts : jobs[<<r, c>>].state # "none" =>
        request[r].pc \in {"enqueuing", "done", "failed"} /\ c \notin request[r].made

TypeInv == TypeOK /\ WorkersHoldJobs /\ AttemptsLeft /\ JobsFollowRequests

\* The fillers of unused fields are typed.
LEMMA IdleType == SomePhone \in Phones /\ IdleWorker \in WorkerRow /\ IdleWorker.pc = "idle"
<1>1. SomePhone \in Phones
  BY ContactAssumption DEF SomePhone
<1>2. PICK r \in Requests, c \in Contacts : TRUE
  BY ContactAssumption
<1>3. <<r, c>> \in Job
  BY DEF Job
<1>4. (CHOOSE j \in Job : TRUE) \in Job
  BY <1>3
<1>5. << >> \in Seq(Verdicts)
  OBVIOUS
<1> QED
  BY <1>1, <1>4, <1>5 DEF IdleWorker, WorkerRow, Verdicts

\* A contact as it is created is typed.
LEMMA FreshType == ASSUME NEW p \in Phones PROVE FreshContact(p) \in ContactRow
BY DEF FreshContact, ContactRow, Reasons

\* Initially.
LEMMA TypeInvInit == Init => TypeInv
<1> SUFFICES ASSUME Init PROVE TypeInv
  OBVIOUS
<1>1. contact \in [Contacts -> ContactRow]
  <2>1. [FreshContact(SomePhone) EXCEPT !.status = "none"] \in ContactRow
    BY IdleType, FreshType DEF ContactRow
  <2> QED
    BY <2>1 DEF Init
<1>2. request \in [Requests -> RequestRow]
  BY IdleType DEF Init, RequestRow
<1>3. jobs \in [Job -> JobRow] /\ AttemptsLeft /\ JobsFollowRequests
  BY ContactAssumption DEF Init, JobRow, AttemptsLeft, JobsFollowRequests, Job
<1>4. worker \in [Workers -> WorkerRow] /\ WorkersHoldJobs
  BY IdleType DEF Init, WorkersHoldJobs
<1> QED
  BY <1>1, <1>2, <1>3, <1>4, ContactAssumption DEF Init, TypeInv, TypeOK

\* A set of naturals has a least element.
LEMMA LeastNat ==
    ASSUME NEW T \in SUBSET Nat, T # {}
    PROVE  \E i \in T : \A k \in T : i <= k
<1>1. \E i \in T : \A k \in T : ~ (<<k, i>> \in OpToRel(<, Nat))
  BY NatLessThanWellFounded, WFMin
<1>2. PICK i \in T : \A k \in T : ~ (<<k, i>> \in OpToRel(<, Nat))
  BY <1>1
<1>3. ASSUME NEW k \in T PROVE ~ (k < i)
  BY <1>2, k \in Nat, i \in Nat, Zenon DEF OpToRel
<1>4. i \in Nat /\ \A k \in T : k \in Nat /\ ~ (k < i)
  BY <1>3
<1> HIDE <1>2
<1> QED
  BY <1>4

\* The first existing candidate is a number.
LEMMA HitType ==
    ASSUME NEW phone \in Phones, Hits(phone) # {}
    PROVE  FirstHit(phone) \in Numbers
<1> DEFINE First(i) == \A k \in Hits(phone) : i <= k
<1>1. Candidates[phone] \in Seq(Numbers)
  BY ContactAssumption
<1>2. Hits(phone) \subseteq Nat
  BY <1>1 DEF Hits
<1>3. \E i \in Hits(phone) : First(i)
  BY <1>2, LeastNat
<1> QED
  BY <1>1, <1>3 DEF FirstHit, Hits

\* A contact stays typed under what updateContact and persist write.
LEMMA EditType ==
    ASSUME NEW row \in ContactRow, NEW phone \in Phones, NEW changed \in BOOLEAN
    PROVE  Edited(row, phone, changed) \in ContactRow
<1>1. [row EXCEPT !.phone = phone] \in ContactRow
  BY DEF ContactRow
<1> QED
  BY <1>1, FreshType DEF Edited

LEMMA JudgeType ==
    ASSUME NEW row \in ContactRow, NEW log \in Seq(Verdicts), NEW verdict \in Verdicts,
           NEW number \in Numbers \cup {"none"}
    PROVE  Judged(row, log, verdict, number) \in ContactRow
<1> DEFINE next == Append(log, verdict)
           tries == row.attempts + 1
<1>1. next \in Seq(Verdicts)
  OBVIOUS
<1>2. tries \in Nat
  BY DEF ContactRow
<1> HIDE DEF next, tries
<1>3. [row EXCEPT !.reason = "offline", !.log = next] \in ContactRow
  BY <1>1 DEF ContactRow, Reasons
<1>4. ASSUME NEW status \in {"VALIDO", "INVALIDO"}, NEW reason \in Reasons
      PROVE  [row EXCEPT !.status = status, !.number = number, !.reason = reason,
                         !.attempts = tries, !.log = next] \in ContactRow
  BY <1>1, <1>2 DEF ContactRow
<1>5. ASSUME verdict # "offline"
      PROVE  (IF verdict = "found" THEN "none" ELSE verdict) \in Reasons
  BY <1>5 DEF Reasons, Verdicts
<1> QED
  BY <1>3, <1>4, <1>5 DEF Judged, next, tries

\* A request goes on: what it has enqueued stays enqueued once.
LEMMA RequestChanges ==
    ASSUME TypeInv, NEW r \in Requests, request' \in [Requests -> RequestRow], jobs' = jobs,
           \A q \in Requests : q # r => request'[q] = request[q],
           \/ request[r].pc \in {"new", "creating", "counting", "editing"}
           \/ request'[r].pc \in {"enqueuing", "done", "failed"} /\ request'[r].made \subseteq request[r].made
    PROVE  JobsFollowRequests'
BY DEF TypeInv, JobsFollowRequests

\* A worker goes on with its job, or lets it go.
LEMMA WorkerChanges ==
    ASSUME TypeInv, NEW w \in Workers, NEW row \in WorkerRow,
           worker' = [worker EXCEPT ![w] = row], jobs' = jobs,
           row.pc # "idle" => worker[w].pc # "idle" /\ row.job = worker[w].job
    PROVE  worker' \in [Workers -> WorkerRow] /\ WorkersHoldJobs' /\ AttemptsLeft'
BY DEF TypeInv, TypeOK, WorkersHoldJobs, AttemptsLeft

\* Every step preserves the type invariant.
LEMMA TypeInvStep == TypeInv /\ [Next]_vars => TypeInv'
<1> SUFFICES ASSUME TypeInv, [Next]_vars PROVE TypeInv'
  OBVIOUS
<1>0. /\ registered \subseteq Numbers /\ holder \in Workers \cup {"none"}
      /\ contact \in [Contacts -> ContactRow] /\ imported \in Nat
      /\ request \in [Requests -> RequestRow] /\ jobs \in [Job -> JobRow]
      /\ worker \in [Workers -> WorkerRow] /\ raced \subseteq Contacts
      /\ lost \subseteq Contacts /\ budget \in Nat
      /\ WorkersHoldJobs /\ AttemptsLeft /\ JobsFollowRequests
  BY DEF TypeInv, TypeOK
<1> DEFINE WorkType == /\ jobs' \in [Job -> JobRow] /\ worker' \in [Workers -> WorkerRow]
                       /\ WorkersHoldJobs' /\ AttemptsLeft'
<1>1. UNCHANGED <<jobs, worker>> => WorkType
  BY <1>0 DEF WorkersHoldJobs, AttemptsLeft
<1>2. Fault => budget' \in Nat
  BY <1>0 DEF Fault
<1>3. UNCHANGED <<jobs, request>> => JobsFollowRequests'
  BY <1>0 DEF JobsFollowRequests
<1> HIDE DEF WorkType
<1>4. ASSUME NEW r \in Requests, BeginImport(r) \/ EndImport(r) PROVE TypeInv'
  <2>1. request' \in [Requests -> RequestRow]
    BY <1>0, <1>4 DEF BeginImport, EndImport, RequestRow
  <2>2. JobsFollowRequests'
    BY <1>0, <1>4, <2>1, RequestChanges DEF BeginImport, EndImport
  <2> QED
    BY <1>0, <1>1, <1>4, <2>1, <2>2 DEF BeginImport, EndImport, TypeInv, TypeOK, WorkType
<1>5. ASSUME NEW r \in Requests, NEW c \in Contacts, NEW p \in Phones, CreateContact(r, c, p) PROVE TypeInv'
  <2>1. contact' \in [Contacts -> ContactRow]
    BY <1>0, <1>5, FreshType DEF CreateContact
  <2>2. request' \in [Requests -> RequestRow]
    BY <1>0, <1>5 DEF CreateContact, RequestRow
  <2>3. JobsFollowRequests'
    BY <1>0, <1>5, <2>2, RequestChanges DEF CreateContact
  <2> QED
    BY <1>0, <1>1, <1>5, <2>1, <2>2, <2>3 DEF CreateContact, TypeInv, TypeOK, WorkType
<1>6. ASSUME NEW r \in Requests, CountImported(r) PROVE TypeInv'
  <2>1. request[r].made \subseteq Contacts
    BY <1>0 DEF RequestRow
  <2>2. Received(request[r].made) \in Nat
    BY <2>1, ContactAssumption, FS_Subset, FS_CardinalityType DEF Received
  <2>3. request' \in [Requests -> RequestRow]
    BY <1>0, <1>6 DEF CountImported, RequestRow
  <2>4. imported' \in Nat
    BY <1>0, <1>6, <2>2 DEF CountImported
  <2>5. JobsFollowRequests'
    BY <1>0, <1>6, <2>3, RequestChanges DEF CountImported
  <2> QED
    BY <1>0, <1>1, <1>6, <2>3, <2>4, <2>5 DEF CountImported, TypeInv, TypeOK, WorkType
<1>7. ASSUME NEW r \in Requests, NEW c \in Contacts, Dequeued(r, c), request[r].pc = "enqueuing"
      PROVE  /\ request' \in [Requests -> RequestRow]
             /\ request'[r].pc \in {"enqueuing", "done"} /\ request'[r].made = request[r].made \ {c}
             /\ \A q \in Requests : q # r => request'[q] = request[q]
  BY ZenonT(60), <1>0, <1>7 DEF Dequeued, RequestRow
<1>8. ASSUME NEW r \in Requests, NEW c \in Contacts, Enqueue(r, c) PROVE TypeInv'
  <2>1. <<r, c>> \in Job /\ jobs[<<r, c>>].state = "none"
    BY <1>0, <1>8 DEF Job, JobsFollowRequests, Enqueue
  <2>2. jobs' = [jobs EXCEPT ![<<r, c>>].state = "wait"]
    BY <1>8 DEF Enqueue
  <2>3. jobs' \in [Job -> JobRow] /\ AttemptsLeft'
    BY <1>0, <2>1, <2>2 DEF JobRow, AttemptsLeft
  <2>4. WorkersHoldJobs'
    BY <1>0, <1>8, <2>1, <2>2 DEF Enqueue, WorkersHoldJobs, WorkerRow
  <2>5. Dequeued(r, c) /\ request[r].pc = "enqueuing"
    BY <1>8 DEF Enqueue
  <2>6. JobsFollowRequests'
    <3> SUFFICES ASSUME NEW q \in Requests, NEW d \in Contacts, jobs'[<<q, d>>].state # "none"
                 PROVE  request'[q].pc \in {"enqueuing", "done", "failed"} /\ d \notin request'[q].made
      BY DEF JobsFollowRequests
    <3>1. CASE q = r /\ d = c
      BY <1>7, <2>5, <3>1
    <3>2. CASE ~ (q = r /\ d = c)
      <4>1. <<q, d>> \in Job /\ <<q, d>> # <<r, c>>
        BY <3>2 DEF Job
      <4>2. jobs[<<q, d>>].state # "none"
        BY <1>0, <2>2, <4>1
      <4> QED
        BY <1>0, <1>7, <2>5, <4>2 DEF JobsFollowRequests
    <3> QED
      BY <3>1, <3>2
  <2> QED
    BY <1>0, <1>7, <1>8, <2>3, <2>4, <2>5, <2>6 DEF Enqueue, TypeInv, TypeOK
<1>9. ASSUME NEW r \in Requests, NEW c \in Contacts, EnqueueFails(r, c) PROVE TypeInv'
  <2>1. Dequeued(r, c) /\ request[r].pc = "enqueuing"
    BY <1>9 DEF EnqueueFails
  <2>2. JobsFollowRequests'
    BY <1>7, <1>9, <2>1, RequestChanges DEF EnqueueFails
  <2> QED
    BY <1>0, <1>1, <1>2, <1>7, <1>9, <2>1, <2>2 DEF EnqueueFails, TypeInv, TypeOK, WorkType
<1>10. ASSUME NEW r \in Requests, NEW c \in Contacts, NEW p \in Phones, ReadForUpdate(r, c, p) PROVE TypeInv'
  <2>1. contact[c].phone \in Phones
    BY <1>0 DEF ContactRow
  <2>2. request' \in [Requests -> RequestRow]
    BY <1>0, <1>10, <2>1 DEF ReadForUpdate, RequestRow
  <2>3. JobsFollowRequests'
    BY <1>0, <1>10, <2>2, RequestChanges DEF ReadForUpdate
  <2> QED
    BY <1>0, <1>1, <1>10, <2>2, <2>3 DEF ReadForUpdate, TypeInv, TypeOK, WorkType
<1>11. ASSUME NEW r \in Requests, NEW c \in Contacts, UpdateContact(r, c) PROVE TypeInv'
  <2> DEFINE changed == request[r].phone # request[r].seen
  <2>1. request[r].phone \in Phones
    BY <1>0 DEF RequestRow
  <2>2. Edited(contact[c], request[r].phone, changed) \in ContactRow
    BY <1>0, <2>1, EditType
  <2>3. contact' \in [Contacts -> ContactRow]
    BY <1>0, <1>11, <2>2 DEF UpdateContact
  <2>4. request' \in [Requests -> RequestRow]
    BY <1>0, <1>11 DEF UpdateContact, RequestRow
  <2>5. raced' \subseteq Contacts
    BY <1>0, <1>11 DEF UpdateContact
  <2>6. JobsFollowRequests'
    BY <1>0, <1>11, <2>4, RequestChanges DEF UpdateContact
  <2> QED
    BY <1>0, <1>1, <1>11, <2>3, <2>4, <2>5, <2>6 DEF UpdateContact, TypeInv, TypeOK, WorkType
<1>12. ASSUME NEW r \in Requests, RequestFails(r) PROVE TypeInv'
  <2>1. request' \in [Requests -> RequestRow] /\ lost' \subseteq Contacts
    BY <1>0, <1>12 DEF RequestFails, RequestRow
  <2>2. JobsFollowRequests'
    BY <1>0, <1>12, <2>1, RequestChanges DEF RequestFails
  <2> QED
    BY <1>0, <1>1, <1>2, <1>12, <2>1, <2>2 DEF RequestFails, TypeInv, TypeOK, WorkType
<1>13. ASSUME NEW c \in Contacts, RemoveContact(c) PROVE TypeInv'
  <2>1. contact' \in [Contacts -> ContactRow]
    BY <1>0, <1>13 DEF RemoveContact, ContactRow
  <2> QED
    BY <1>0, <1>1, <1>3, <1>13, <2>1 DEF RemoveContact, TypeInv, TypeOK, WorkType
<1>14. ASSUME NEW w \in Workers, NEW j \in Job, TakeJob(w, j) PROVE TypeInv'
  <2>1. jobs' \in [Job -> JobRow] /\ AttemptsLeft'
    BY <1>0, <1>14 DEF TakeJob, JobRow, AttemptsLeft
  <2>2. worker' \in [Workers -> WorkerRow]
    <3>1. /\ worker' = [worker EXCEPT ![w] = [worker[w] EXCEPT !.pc = "claimed", !.job = j]]
          /\ worker[w] \in WorkerRow
      BY <1>0, <1>14 DEF TakeJob, WorkerRow
    <3>2. [worker[w] EXCEPT !.pc = "claimed", !.job = j] \in WorkerRow
      BY <3>1 DEF WorkerRow
    <3> QED
      BY <1>0, <3>1, <3>2
  <2>3. WorkersHoldJobs'
    BY <1>0, <1>14 DEF TakeJob, WorkersHoldJobs, WorkerRow, JobRow
  <2>4. JobsFollowRequests'
    BY <1>0, <1>14 DEF TakeJob, JobsFollowRequests
  <2> QED
    BY <1>0, <1>14, <2>1, <2>2, <2>3, <2>4 DEF TakeJob, TypeInv, TypeOK
<1>15. ASSUME NEW w \in Workers, NEW row \in WorkerRow, worker' = [worker EXCEPT ![w] = row], jobs' = jobs,
              row.pc # "idle" => worker[w].pc # "idle" /\ row.job = worker[w].job
       PROVE  WorkType
  BY <1>0, <1>15, WorkerChanges DEF WorkType
<1>16. ASSUME NEW w \in Workers, NEW pc \in {"returned", "threw"}, worker[w].pc # "idle",
              worker' = [worker EXCEPT ![w].pc = pc], jobs' = jobs
       PROVE  WorkType
  <2>1. [worker[w] EXCEPT !.pc = pc] \in WorkerRow
    BY <1>0 DEF WorkerRow
  <2> QED
    BY <1>0, <1>15, <1>16, <2>1 DEF WorkerRow
<1>17. ASSUME NEW w \in Workers, SkipContact(w) \/ StepFails(w) PROVE TypeInv'
  <2>1. WorkType
    BY <1>16, <1>17 DEF SkipContact, StepFails
  <2> QED
    BY <1>0, <1>2, <1>3, <1>17, <2>1 DEF SkipContact, StepFails, TypeInv, TypeOK, WorkType
<1>18. ASSUME NEW w \in Workers, ReadContact(w) PROVE TypeInv'
  <2> DEFINE c == Of(w)
             row == [worker[w] EXCEPT !.pc = IF Candidates[contact[c].phone] = << >> THEN "persisting" ELSE "checking",
                                      !.phone = contact[c].phone, !.log = contact[c].log,
                                      !.verdict = "malformed", !.number = "none"]
  <2>1. c \in Contacts
    BY <1>0 DEF Of, Job, WorkerRow
  <2>2. contact[c].phone \in Phones /\ contact[c].log \in Seq(Verdicts)
    BY <1>0, <2>1 DEF ContactRow
  <2>3. row \in WorkerRow /\ row.job = worker[w].job
    BY <1>0, <2>2 DEF WorkerRow, Verdicts
  <2>4. worker' = [worker EXCEPT ![w] = row] /\ worker[w].pc # "idle"
    BY <1>18 DEF ReadContact
  <2> HIDE DEF row
  <2>5. WorkType
    BY <1>15, <1>18, <2>3, <2>4 DEF ReadContact
  <2> QED
    BY <1>0, <1>3, <1>18, <2>5 DEF ReadContact, TypeInv, TypeOK, WorkType
<1>19. ASSUME NEW w \in Workers, CheckNumbers(w) PROVE TypeInv'
  <2> DEFINE found == holder = w /\ Hits(worker[w].phone) # {}
             verdict == IF holder # w THEN "offline" ELSE IF found THEN "found" ELSE "absent"
             number == IF found THEN FirstHit(worker[w].phone) ELSE "none"
             row == [worker[w] EXCEPT !.pc = "persisting", !.verdict = verdict, !.number = number]
  <2>1. number \in Numbers \cup {"none"}
    BY <1>0, HitType DEF WorkerRow
  <2>2. verdict \in Verdicts
    BY DEF Verdicts
  <2>3. worker' = [worker EXCEPT ![w] = row] /\ worker[w].pc # "idle"
    BY <1>19 DEF CheckNumbers
  <2> HIDE DEF number, verdict
  <2>4. row \in WorkerRow /\ row.job = worker[w].job
    BY <1>0, <2>1, <2>2 DEF WorkerRow
  <2> HIDE DEF row
  <2>5. WorkType
    BY <1>15, <1>19, <2>3, <2>4 DEF CheckNumbers
  <2> QED
    BY <1>0, <1>3, <1>19, <2>5 DEF CheckNumbers, TypeInv, TypeOK, WorkType
<1>20. ASSUME NEW w \in Workers, Persist(w) PROVE TypeInv'
  <2> DEFINE c == Of(w)
             row == Judged(contact[c], worker[w].log, worker[w].verdict, worker[w].number)
  <2>1. c \in Contacts
    BY <1>0 DEF Of, Job, WorkerRow
  <2>2. row \in ContactRow
    BY <1>0, <2>1, JudgeType DEF WorkerRow
  <2>3. contact' = contact \/ contact' = [contact EXCEPT ![c] = row]
    BY <1>20 DEF Persist
  <2> HIDE DEF row
  <2>4. contact' \in [Contacts -> ContactRow]
    BY <1>0, <2>2, <2>3
  <2>5. raced' \subseteq Contacts
    BY <1>0, <1>20, <2>1 DEF Persist
  <2>6. WorkType
    <3>1. PICK pc \in {"returned", "threw"} : worker' = [worker EXCEPT ![w].pc = pc]
      BY <1>20 DEF Persist
    <3> QED
      BY <1>16, <1>20, <3>1 DEF Persist
  <2> QED
    BY <1>0, <1>3, <1>20, <2>4, <2>5, <2>6 DEF Persist, TypeInv, TypeOK, WorkType
<1>21. ASSUME NEW w \in Workers, NEW row \in JobRow, worker[w].pc # "idle",
              row.state \in {"completed", "failed", "wait"}, row.state = "wait" => row.made < MaxAttempts,
              jobs' = [jobs EXCEPT ![worker[w].job] = row], worker' = [worker EXCEPT ![w] = IdleWorker],
              request' = request
       PROVE  WorkType /\ JobsFollowRequests'
  <2>1. worker[w].job \in Job /\ jobs[worker[w].job].state = "active"
    BY <1>0, <1>21 DEF WorkerRow, WorkersHoldJobs
  <2>2. jobs' \in [Job -> JobRow] /\ AttemptsLeft'
    BY <1>0, <1>21, <2>1 DEF AttemptsLeft
  <2>3. worker' \in [Workers -> WorkerRow]
    BY <1>0, <1>21, IdleType
  <2>4. WorkersHoldJobs'
    <3> SUFFICES ASSUME NEW v \in Workers, worker'[v].pc # "idle"
                 PROVE  /\ jobs'[worker'[v].job].state = "active"
                        /\ \A u \in Workers : u # v /\ worker'[u].pc # "idle" => worker'[u].job # worker'[v].job
      BY DEF WorkersHoldJobs
    <3>1. v # w /\ worker'[v] = worker[v]
      BY <1>0, <1>21, IdleType
    <3>2. worker[v].job # worker[w].job /\ worker[v].job \in Job
      BY <1>0, <1>21, <3>1 DEF WorkersHoldJobs, WorkerRow
    <3>3. jobs'[worker'[v].job] = jobs[worker[v].job]
      BY <1>0, <1>21, <3>1, <3>2
    <3>4. \A u \in Workers : worker'[u].pc # "idle" => worker'[u] = worker[u]
      BY <1>0, <1>21, IdleType
    <3> QED
      BY <1>0, <3>1, <3>3, <3>4 DEF WorkersHoldJobs
  <2>5. JobsFollowRequests'
    <3>1. ASSUME NEW j \in Job, jobs'[j].state # "none" PROVE jobs[j].state # "none"
      BY <1>0, <1>21, <2>1, <3>1
    <3> QED
      BY <1>0, <1>21, <3>1 DEF JobsFollowRequests, Job
  <2> QED
    BY <2>2, <2>3, <2>4, <2>5 DEF WorkType
<1>22. ASSUME NEW w \in Workers, CompleteJob(w) PROVE TypeInv'
  <2>1. worker[w].job \in Job
    BY <1>0 DEF WorkerRow
  <2>2. [jobs[worker[w].job] EXCEPT !.state = "completed"] \in JobRow
    BY <1>0, <2>1 DEF JobRow
  <2>3. WorkType /\ JobsFollowRequests'
    BY <1>0, <1>21, <1>22, <2>1, <2>2 DEF CompleteJob, JobRow
  <2> QED
    BY <1>0, <1>22, <2>3 DEF CompleteJob, TypeInv, TypeOK, WorkType
<1>23. ASSUME NEW w \in Workers, FailJob(w) PROVE TypeInv'
  <2> DEFINE j == worker[w].job
             made == jobs[j].made + 1
             state == IF Exhausted(made) THEN "failed" ELSE "wait"
             row == [jobs[j] EXCEPT !.made = made, !.state = state]
  <2>1. j \in Job /\ jobs[j].state = "active"
    BY <1>0, <1>23 DEF FailJob, WorkerRow, WorkersHoldJobs
  <2>2. made \in 0 .. MaxAttempts
    BY <1>0, <2>1, ContactAssumption DEF AttemptsLeft, JobRow
  <2>3. state \in {"failed", "wait"} /\ (state = "wait" => made < MaxAttempts)
    BY <2>2, ContactAssumption DEF Exhausted
  <2>4. jobs' = [jobs EXCEPT ![j] = row]
    BY <1>23 DEF FailJob
  <2> HIDE DEF made, state
  <2>5. row \in JobRow /\ row.state = state /\ row.made = made
    BY <1>0, <2>1, <2>2, <2>3 DEF JobRow
  <2> HIDE DEF row
  <2>6. WorkType /\ JobsFollowRequests'
    BY <1>21, <1>23, <2>3, <2>4, <2>5 DEF FailJob
  <2> QED
    BY <1>0, <1>23, <2>6 DEF FailJob, TypeInv, TypeOK, WorkType
<1>24. ASSUME NEW w \in Workers, Crash(w) PROVE TypeInv'
  <2>1. WorkType
    BY <1>15, <1>24, IdleType DEF Crash
  <2>2. holder' \in Workers \cup {"none"}
    BY <1>0, <1>24 DEF Crash
  <2> QED
    BY <1>0, <1>2, <1>3, <1>24, <2>1, <2>2 DEF Crash, TypeInv, TypeOK, WorkType
<1>25. ASSUME NEW j \in Job, RecoverStalled(j) PROVE TypeInv'
  <2> DEFINE state == IF jobs[j].stalled THEN "failed" ELSE "wait"
             row == [jobs[j] EXCEPT !.state = state, !.stalled = TRUE]
  <2>1. row \in JobRow /\ row.made = jobs[j].made /\ row.state \in {"failed", "wait"}
    BY <1>0 DEF JobRow
  <2>2. jobs' = [jobs EXCEPT ![j] = row] /\ jobs[j].state = "active"
    BY <1>25 DEF RecoverStalled
  <2> HIDE DEF row
  <2>3. jobs' \in [Job -> JobRow] /\ AttemptsLeft'
    BY <1>0, <2>1, <2>2 DEF AttemptsLeft
  <2>4. WorkersHoldJobs'
    BY <1>0, <1>25, <2>2 DEF RecoverStalled, Held, WorkersHoldJobs, WorkerRow
  <2>5. JobsFollowRequests'
    <3>1. ASSUME NEW i \in Job, jobs'[i].state # "none" PROVE jobs[i].state # "none"
      BY <1>0, <2>2, <3>1
    <3> QED
      BY <1>0, <1>25, <3>1 DEF JobsFollowRequests, Job, RecoverStalled
  <2> QED
    BY <1>0, <1>25, <2>3, <2>4, <2>5 DEF RecoverStalled, TypeInv, TypeOK
<1>26. ASSUME NEW h \in Workers \cup {"none"}, MoveSocket(h) PROVE TypeInv'
  BY <1>0, <1>1, <1>3, <1>26 DEF MoveSocket, TypeInv, TypeOK, WorkType
<1>27. CASE UNCHANGED vars
  BY <1>0, <1>1, <1>3, <1>27 DEF vars, TypeInv, TypeOK, WorkType
<1> QED
  BY <1>4, <1>5, <1>6, <1>8, <1>9, <1>10, <1>11, <1>12, <1>13, <1>14, <1>17, <1>18, <1>19, <1>20,
     <1>22, <1>23, <1>24, <1>25, <1>26, <1>27 DEF Next, Answer, Work

\* Every reachable state is well typed: a job makes at most MaxAttempts attempts
\* (attempts of validate-numbers.queue.ts).
THEOREM ContactTypeCorrect == Spec => []TypeOK
<1>1. TypeInv => TypeOK
  BY DEF TypeInv
<1> QED
  BY TypeInvInit, TypeInvStep, <1>1, PTL DEF Spec

-----------------------------------------------------------------------------
(* Verdicts *)

Found(log) == \E i \in DOMAIN log : log[i] = "found"

\* What a worker is about to write: its copy of the log is of a contact not found
\* yet, and its answer is that of its copy of the phone.
AnswerInv(w) ==
    LET me == worker[w]
    IN  /\ me.pc \in {"checking", "persisting"} => ~ Found(me.log)
        /\ me.pc = "persisting" =>
               /\ me.verdict = "found" => Hits(me.phone) # {} /\ me.number = FirstHit(me.phone)
               /\ me.verdict # "found" => me.number = "none"
               /\ me.verdict \in {"absent", "malformed"} => Hits(me.phone) = {}
               /\ me.verdict = "malformed" => Candidates[me.phone] = << >>

\* The log shows whether the contact was found.
LogInv(c) ==
    /\ contact[c].status \in {"PENDENTE", "INVALIDO"} => ~ Found(contact[c].log)
    /\ contact[c].status = "VALIDO" /\ c \notin raced => Found(contact[c].log)

VerdictInv ==
    /\ \A w \in Workers : AnswerInv(w)
    /\ \A c \in Contacts : LogInv(c)
    /\ VerdictMatchesPhone

\* Appending a verdict.
LEMMA FoundAppend ==
    ASSUME NEW log \in Seq(Verdicts), NEW v \in Verdicts
    PROVE  Found(Append(log, v)) <=> Found(log) \/ v = "found"
<1> DEFINE next == Append(log, v)
<1>1. /\ DOMAIN log = 1 .. Len(log) /\ DOMAIN next = 1 .. Len(log) + 1 /\ Len(log) \in Nat
      /\ \A i \in 1 .. Len(log) : next[i] = log[i]
      /\ next[Len(log) + 1] = v
  OBVIOUS
<1> HIDE DEF next
<1>2. Found(next) <=> Found(log) \/ v = "found"
  BY <1>1 DEF Found
<1> QED
  BY <1>2 DEF next

\* The verdict of a contact, status by status.
RowOK(row) ==
    /\ row.status = "VALIDO" =>
           Hits(row.phone) # {} /\ row.number = FirstHit(row.phone) /\ row.reason = "none"
    /\ row.status = "INVALIDO" =>
           /\ Hits(row.phone) = {} /\ row.number = "none" /\ row.reason # "none"
           /\ row.reason = "malformed" => Candidates[row.phone] = << >>
    /\ row.status = "PENDENTE" => row.number = "none" /\ row.reason \in {"none", "offline"}

LEMMA VerdictByStatus ==
    ASSUME NEW c
    PROVE  VerdictOfPhone(c) <=> RowOK(contact[c])
BY DEF VerdictOfPhone, RowOK

\* Who is registered at WhatsApp does not change.
LEMMA RegisteredIsConstant == [Next]_vars => registered' = registered
BY DEF Next, Answer, Work, vars, BeginImport, EndImport, CountImported, Enqueue, UpdateContact, RequestFails,
       EnqueueFails, CreateContact, ReadForUpdate, RemoveContact, TakeJob, SkipContact, ReadContact,
       CheckNumbers, Persist, CompleteJob, FailJob, StepFails, Crash, RecoverStalled, MoveSocket

LEMMA HitsConstant ==
    ASSUME [Next]_vars, NEW p
    PROVE  Hits(p)' = Hits(p) /\ FirstHit(p)' = FirstHit(p)
BY RegisteredIsConstant DEF Hits, FirstHit

LEMMA VerdictNext ==
    ASSUME [Next]_vars, NEW c
    PROVE  RowOK(contact'[c]) => VerdictOfPhone(c)'
BY HitsConstant DEF VerdictOfPhone, RowOK

\* Initially.
LEMMA VerdictInit == Init => VerdictInv
<1> SUFFICES ASSUME Init PROVE VerdictInv
  OBVIOUS
<1>1. \A w \in Workers : AnswerInv(w)
  BY DEF Init, AnswerInv, IdleWorker
<1>2. \A c \in Contacts : contact[c].status = "none"
  BY DEF Init, FreshContact
<1> QED
  BY <1>1, <1>2, VerdictByStatus DEF VerdictInv, LogInv, VerdictMatchesPhone, RowOK

\* What a worker holds stays true until it writes.
LEMMA AnswerStep ==
    ASSUME TypeInv, VerdictInv, [Next]_vars, NEW w \in Workers
    PROVE  AnswerInv(w)'
<1>0. /\ worker[w] \in WorkerRow /\ Of(w) \in Contacts /\ AnswerInv(w)
      /\ \A c \in Contacts : LogInv(c)
      /\ \A v \in Workers : worker[v] \in WorkerRow
      /\ worker \in [Workers -> WorkerRow]
  BY DEF TypeInv, TypeOK, VerdictInv, WorkerRow, Of, Job
<1> DEFINE Sound == /\ worker'[w].pc \in {"checking", "persisting"} => ~ Found(worker'[w].log)
                    /\ worker'[w].pc = "persisting" =>
                         LET me == worker'[w]
                         IN  /\ me.verdict = "found" => Hits(me.phone) # {} /\ me.number = FirstHit(me.phone)
                             /\ me.verdict # "found" => me.number = "none"
                             /\ me.verdict \in {"absent", "malformed"} => Hits(me.phone) = {}
                             /\ me.verdict = "malformed" => Candidates[me.phone] = << >>
<1>1. Sound => AnswerInv(w)'
  BY HitsConstant DEF AnswerInv
<1> SUFFICES Sound
  BY <1>1
<1>2. worker'[w] = worker[w] => Sound
  BY <1>0 DEF AnswerInv
<1>3. worker'[w].pc \notin {"checking", "persisting"} => Sound
  OBVIOUS
<1> HIDE DEF Sound
<1>4. ASSUME NEW v \in Workers, v # w, Work(v) \/ StepFails(v) \/ Crash(v) \/ \E j \in Job : TakeJob(v, j)
      PROVE  Sound
  <2>1. worker'[w] = worker[w]
    BY <1>0, <1>4 DEF Work, SkipContact, ReadContact, CheckNumbers, Persist, CompleteJob, FailJob, StepFails,
                      Crash, TakeJob
  <2> QED
    BY <1>2, <2>1
<1>5. ASSUME ReadContact(w) PROVE Sound
  <2> DEFINE row == contact[Of(w)]
  <2>1. /\ worker'[w].log = row.log /\ worker'[w].phone = row.phone
        /\ worker'[w].verdict = "malformed" /\ worker'[w].number = "none"
        /\ worker'[w].pc = "persisting" => Candidates[row.phone] = << >>
    BY <1>0, <1>5 DEF ReadContact, WorkerRow
  <2>2. row.status \in {"PENDENTE", "INVALIDO"}
    BY <1>0, <1>5 DEF ReadContact, Exists, Verified, TypeInv, TypeOK, ContactRow
  <2>3. ~ Found(row.log)
    BY <1>0, <2>2 DEF LogInv
  <2>4. Candidates[row.phone] = << >> => Hits(row.phone) = {}
    BY DEF Hits
  <2> QED
    BY <2>1, <2>3, <2>4 DEF Sound
<1>6. ASSUME CheckNumbers(w) PROVE Sound
  <2> DEFINE me == worker[w]
             found == holder = w /\ Hits(me.phone) # {}
  <2>1. /\ worker'[w].log = me.log /\ worker'[w].phone = me.phone
        /\ worker'[w].verdict = IF holder # w THEN "offline" ELSE IF found THEN "found" ELSE "absent"
        /\ worker'[w].number = IF found THEN FirstHit(me.phone) ELSE "none"
    BY <1>0, <1>6 DEF CheckNumbers, WorkerRow
  <2>2. ~ Found(me.log)
    BY <1>0, <1>6 DEF AnswerInv, CheckNumbers
  <2>3. CASE holder # w
    BY <2>1, <2>2, <2>3 DEF Sound
  <2>4. CASE holder = w /\ Hits(me.phone) = {}
    BY <2>1, <2>2, <2>4 DEF Sound
  <2>5. CASE found
    BY <2>1, <2>2, <2>5 DEF Sound
  <2> QED
    BY <2>3, <2>4, <2>5
<1>7. ASSUME Persist(w) \/ SkipContact(w) \/ StepFails(w) PROVE Sound
  <2>1. CASE Persist(w)
    <3>1. PICK pc \in {"returned", "threw"} : worker' = [worker EXCEPT ![w].pc = pc]
      BY <2>1 DEF Persist
    <3>2. worker'[w].pc = pc
      BY <1>0, <3>1 DEF WorkerRow
    <3> QED
      BY <1>3, <3>2
  <2>2. CASE SkipContact(w) \/ StepFails(w)
    <3>1. worker'[w].pc \in {"returned", "threw"}
      BY <1>0, <2>2 DEF SkipContact, StepFails, WorkerRow
    <3> QED
      BY <1>3, <3>1
  <2> QED
    BY <1>7, <2>1, <2>2
<1>8. ASSUME CompleteJob(w) \/ FailJob(w) \/ Crash(w) PROVE Sound
  BY <1>0, <1>3, <1>8, IdleType DEF CompleteJob, FailJob, Crash
<1>9. ASSUME NEW j \in Job, TakeJob(w, j) PROVE Sound
  BY <1>0, <1>3, <1>9 DEF TakeJob
<1>10. ASSUME worker' = worker PROVE Sound
  BY <1>2, <1>10
<1>11. ASSUME NEW r \in Requests, BeginImport(r) \/ Answer(r) \/ RequestFails(r) PROVE worker' = worker
  BY <1>11 DEF Answer, BeginImport, EndImport, CountImported, Enqueue, UpdateContact, RequestFails
<1>12. ASSUME NEW r \in Requests, NEW c \in Contacts,
              EnqueueFails(r, c) \/ RemoveContact(c) \/ \E p \in Phones : CreateContact(r, c, p) \/ ReadForUpdate(r, c, p)
       PROVE  worker' = worker
  BY <1>12 DEF EnqueueFails, CreateContact, ReadForUpdate, RemoveContact
<1>13. ASSUME (\E c \in Contacts : RemoveContact(c)) \/ (\E j \in Job : RecoverStalled(j))
              \/ (\E h \in Workers \cup {"none"} : MoveSocket(h)) \/ UNCHANGED vars
       PROVE  worker' = worker
  BY <1>13 DEF RemoveContact, RecoverStalled, MoveSocket, vars
<1> QED
  BY <1>4, <1>5, <1>6, <1>7, <1>8, <1>9, <1>10, <1>11, <1>12, <1>13 DEF Next, Work

\* A contact just created, or whose phone was changed, waits for a verdict.
LEMMA FreshOK ==
    ASSUME NEW p
    PROVE  RowOK(FreshContact(p)) /\ ~ Found(FreshContact(p).log) /\ FreshContact(p).status = "PENDENTE"
BY DEF RowOK, FreshContact, Found

\* A worker whose copy is current writes the verdict of the phone in the row; an
\* outdated log never hides that an unresolved contact was found.
LEMMA JudgedOK ==
    ASSUME TypeInv, VerdictInv, NEW w \in Workers, worker[w].pc = "persisting",
           Exists(Of(w)), NEW row,
           row = Judged(contact[Of(w)], worker[w].log, worker[w].verdict, worker[w].number)
    PROVE  /\ row.status \in {"PENDENTE", "INVALIDO"} => ~ Found(row.log)
           /\ contact[Of(w)].log = worker[w].log /\ contact[Of(w)].phone = worker[w].phone /\ Of(w) \notin raced
              => RowOK(row) /\ (row.status = "VALIDO" => Found(row.log))
<1> DEFINE me == worker[w]
           old == contact[Of(w)]
<1>0. /\ me \in WorkerRow /\ Of(w) \in Contacts /\ AnswerInv(w) /\ LogInv(Of(w)) /\ old \in ContactRow
      /\ Of(w) \notin raced => RowOK(old)
  BY VerdictByStatus DEF TypeInv, TypeOK, VerdictInv, VerdictMatchesPhone, WorkerRow, Of, Job
<1>1. /\ ~ Found(me.log)
      /\ me.log \in Seq(Verdicts) /\ me.verdict \in Verdicts
      /\ me.verdict = "found" => Hits(me.phone) # {} /\ me.number = FirstHit(me.phone)
      /\ me.verdict # "found" => me.number = "none"
      /\ me.verdict \in {"absent", "malformed"} => Hits(me.phone) = {}
      /\ me.verdict = "malformed" => Candidates[me.phone] = << >>
  BY <1>0 DEF AnswerInv, WorkerRow
<1> DEFINE log == Append(me.log, me.verdict)
<1>2. Found(log) <=> me.verdict = "found"
  BY <1>1, FoundAppend
<1> HIDE DEF log
<1>3. CASE me.verdict = "offline"
  <2>1. row = [old EXCEPT !.reason = "offline", !.log = log]
    BY <1>3 DEF Judged, log
  <2>2. /\ row.status = old.status /\ row.phone = old.phone /\ row.number = old.number
        /\ row.reason = "offline" /\ row.log = log
    BY <1>0, <2>1 DEF ContactRow
  <2>3. old.log = me.log /\ Of(w) \notin raced => old.status # "VALIDO"
    BY <1>0, <1>1 DEF LogInv
  <2> QED
    BY <1>0, <1>2, <1>3, <2>2, <2>3 DEF RowOK
<1>4. CASE me.verdict # "offline"
  <2> DEFINE status == IF me.verdict = "found" THEN "VALIDO" ELSE "INVALIDO"
             reason == IF me.verdict = "found" THEN "none" ELSE me.verdict
  <2>1. row = [old EXCEPT !.status = status, !.number = me.number, !.reason = reason,
                          !.attempts = @ + 1, !.log = log]
    BY <1>4 DEF Judged, log
  <2>2. /\ row.status = status /\ row.phone = old.phone /\ row.number = me.number
        /\ row.reason = reason /\ row.log = log
    BY <1>0, <2>1 DEF ContactRow
  <2>3. me.verdict \in {"found", "absent", "malformed"}
    BY <1>1, <1>4 DEF Verdicts
  <2> QED
    BY <1>1, <1>2, <2>2, <2>3 DEF RowOK
<1> QED
  BY <1>3, <1>4

\* Every contact keeps, or gets, the verdict of its phone.
LEMMA RowStep ==
    ASSUME TypeInv, VerdictInv, [Next]_vars, NEW c \in Contacts
    PROVE  LogInv(c)' /\ (c \notin raced' => VerdictOfPhone(c)')
<1> DEFINE Good == /\ contact'[c].status \in {"PENDENTE", "INVALIDO"} => ~ Found(contact'[c].log)
                   /\ c \notin raced' => /\ RowOK(contact'[c])
                                         /\ contact'[c].status = "VALIDO" => Found(contact'[c].log)
<1>0. /\ contact \in [Contacts -> ContactRow] /\ LogInv(c)
      /\ c \notin raced => RowOK(contact[c])
  BY VerdictByStatus DEF TypeInv, TypeOK, VerdictInv, VerdictMatchesPhone
<1>1. Good => LogInv(c)' /\ (c \notin raced' => VerdictOfPhone(c)')
  <2>1. RowOK(contact'[c]) => VerdictOfPhone(c)'
    BY VerdictNext
  <2>2. Good => LogInv(c)'
    BY DEF LogInv
  <2> QED
    BY <2>1, <2>2
<1> SUFFICES Good
  BY <1>1
<1>2. contact'[c] = contact[c] /\ (c \in raced => c \in raced') => Good
  BY <1>0 DEF LogInv
<1>3. (\E p \in Phones : contact'[c] = FreshContact(p)) => Good
  BY FreshOK
<1>4. contact'[c].status = "removed" => Good
  BY DEF RowOK
<1> HIDE DEF Good
<1>5. ASSUME UNCHANGED <<contact, raced>> PROVE Good
  BY <1>2, <1>5
<1>6. ASSUME NEW r \in Requests, NEW d \in Contacts, NEW p \in Phones, CreateContact(r, d, p) PROVE Good
  BY <1>0, <1>2, <1>3, <1>6 DEF CreateContact
<1>7. ASSUME NEW r \in Requests, NEW d \in Contacts, UpdateContact(r, d) PROVE Good
  <2> DEFINE edit == request[r]
             changed == edit.phone # edit.seen
  <2>1. edit.phone \in Phones
    BY DEF TypeInv, TypeOK, RequestRow
  <2>2. CASE d # c \/ ~ Exists(d)
    BY <1>0, <1>2, <1>7, <2>2 DEF UpdateContact
  <2>3. CASE d = c /\ Exists(c)
    <3>1. contact'[c] = Edited(contact[c], edit.phone, changed)
      BY <1>0, <1>7, <2>3 DEF UpdateContact
    <3>2. CASE changed
      BY <1>3, <2>1, <3>1, <3>2 DEF Edited
    <3>3. CASE ~ changed
      <4>1. contact'[c] = [contact[c] EXCEPT !.phone = edit.phone]
        BY <3>1, <3>3 DEF Edited
      <4>2. raced' = IF contact[c].phone = edit.phone THEN raced ELSE raced \cup {c}
        BY <1>7, <2>3, <3>3 DEF UpdateContact
      <4>3. CASE contact[c].phone = edit.phone
        <5>1. contact'[c] = contact[c]
          BY <1>0, <4>1, <4>3 DEF ContactRow
        <5> QED
          BY <1>2, <4>2, <5>1
      <4>4. CASE contact[c].phone # edit.phone
        <5>1. contact'[c].status = contact[c].status /\ contact'[c].log = contact[c].log /\ c \in raced'
          BY <1>0, <4>1, <4>2, <4>4 DEF ContactRow
        <5> QED
          BY <1>0, <5>1 DEF LogInv, Good
      <4> QED
        BY <4>3, <4>4
    <3> QED
      BY <3>2, <3>3
  <2> QED
    BY <2>2, <2>3
<1>8. ASSUME NEW d \in Contacts, RemoveContact(d) PROVE Good
  <2>1. d = c => contact'[c].status = "removed"
    BY <1>0, <1>8 DEF RemoveContact, ContactRow
  <2>2. d # c => contact'[c] = contact[c] /\ raced' = raced
    BY <1>0, <1>8 DEF RemoveContact
  <2> QED
    BY <1>2, <1>4, <1>8, <2>1, <2>2
<1>9. ASSUME NEW w \in Workers, Persist(w) PROVE Good
  <2> DEFINE row == Judged(contact[Of(w)], worker[w].log, worker[w].verdict, worker[w].number)
  <2>1. CASE ~ Exists(Of(w))
    BY <1>2, <1>9, <2>1 DEF Persist
  <2>2. CASE Exists(Of(w)) /\ Of(w) # c
    <3>1. contact'[c] = contact[c] /\ (c \in raced => c \in raced')
      BY <1>0, <1>9, <2>2 DEF Persist
    <3> QED
      BY <1>2, <3>1
  <2>3. CASE Exists(Of(w)) /\ Of(w) = c
    <3>1. /\ worker[w].pc = "persisting" /\ contact'[c] = row
          /\ raced' = IF contact[c].phone = worker[w].phone /\ contact[c].log = worker[w].log
                      THEN raced ELSE raced \cup {c}
      BY <1>0, <1>9, <2>3 DEF Persist
    <3>2. /\ row.status \in {"PENDENTE", "INVALIDO"} => ~ Found(row.log)
          /\ contact[c].log = worker[w].log /\ contact[c].phone = worker[w].phone /\ c \notin raced
             => RowOK(row) /\ (row.status = "VALIDO" => Found(row.log))
      BY <2>3, <3>1, JudgedOK
    <3> HIDE DEF row
    <3> QED
      BY <3>1, <3>2 DEF Good
  <2> QED
    BY <2>1, <2>2, <2>3
<1>10. ASSUME NEW r \in Requests,
              \/ BeginImport(r) \/ EndImport(r) \/ CountImported(r) \/ RequestFails(r)
              \/ \E d \in Contacts : Enqueue(r, d) \/ EnqueueFails(r, d) \/ \E p \in Phones : ReadForUpdate(r, d, p)
       PROVE  UNCHANGED <<contact, raced>>
  BY <1>10 DEF BeginImport, EndImport, CountImported, RequestFails, Enqueue, EnqueueFails, ReadForUpdate
<1>11. ASSUME NEW w \in Workers,
              \/ SkipContact(w) \/ ReadContact(w) \/ CheckNumbers(w) \/ CompleteJob(w) \/ FailJob(w)
              \/ StepFails(w) \/ Crash(w) \/ \E j \in Job : TakeJob(w, j)
       PROVE  UNCHANGED <<contact, raced>>
  BY <1>11 DEF SkipContact, ReadContact, CheckNumbers, CompleteJob, FailJob, StepFails, Crash, TakeJob
<1>12. ASSUME (\E j \in Job : RecoverStalled(j)) \/ (\E h \in Workers \cup {"none"} : MoveSocket(h)) \/ UNCHANGED vars
       PROVE  UNCHANGED <<contact, raced>>
  BY <1>12 DEF RecoverStalled, MoveSocket, vars
<1> QED
  BY <1>5, <1>6, <1>7, <1>8, <1>9, <1>10, <1>11, <1>12 DEF Next, Answer, Work

\* A verdict is always of the phone beside it, unless a worker or an edit wrote from a
\* copy that was outdated by then (persist of validate-numbers.worker.ts and
\* updateContact of contacts.service.ts): retries, duplicate jobs, crashes and a moving
\* socket do not break it.
THEOREM VerdictOfOwnPhone == Spec => []VerdictMatchesPhone
<1>1. TypeInv /\ VerdictInv /\ [Next]_vars => VerdictInv'
  <2> SUFFICES ASSUME TypeInv, VerdictInv, [Next]_vars PROVE VerdictInv'
    OBVIOUS
  <2>1. \A w \in Workers : AnswerInv(w)'
    BY AnswerStep
  <2>2. \A c \in Contacts : LogInv(c)' /\ (c \notin raced' => VerdictOfPhone(c)')
    BY RowStep
  <2> QED
    BY <2>1, <2>2 DEF VerdictInv, VerdictMatchesPhone
<1>2. VerdictInv => VerdictMatchesPhone
  BY DEF VerdictInv
<1> QED
  BY TypeInvInit, TypeInvStep, VerdictInit, <1>1, <1>2, PTL DEF Spec

-----------------------------------------------------------------------------
(* A pending contact is somebody's business *)

\* A job that will look at its contact again, or still ends its attempt: one whose
\* worker has returned is as good as completed.
JobActs(j) ==
    \/ jobs[j].state \in {"wait", "failed"}
    \/ jobs[j].state = "active" /\ \A w \in Workers : worker[w].pc = "returned" => worker[w].job # j

JobCares(c) == \E r \in Requests : JobActs(<<r, c>>)
RequestCares(c) ==
    \E r \in Requests : c \in request[r].made /\ request[r].pc \in {"creating", "counting", "enqueuing"}
Carried(c) == JobCares(c) \/ RequestCares(c) \/ c \in lost

\* NoContactForgotten, with jobs only that have not returned.
CarriedInv == \A c \in Contacts : contact[c].status = "PENDENTE" => Carried(c)

\* Initially.
LEMMA CarriedInit == Init => CarriedInv
<1> SUFFICES ASSUME Init, NEW c \in Contacts PROVE contact[c].status # "PENDENTE"
  BY DEF CarriedInv
<1> QED
  BY DEF Init, FreshContact

LEMMA CarriedForgets == CarriedInv => NoContactForgotten
BY DEF CarriedInv, Carried, JobCares, RequestCares, JobActs, NoContactForgotten, JobOf

\* A step of a request: a contact it puts back to pending is in its hands, and it
\* lets none go.
LEMMA RequestCarries ==
    ASSUME TypeInv, NEW c \in Contacts, contact[c].status = "PENDENTE" => Carried(c),
           contact'[c].status = "PENDENTE",
           \/ \E r \in Requests : BeginImport(r) \/ Answer(r) \/ RequestFails(r)
           \/ \E r \in Requests, d \in Contacts : EnqueueFails(r, d)
           \/ \E r \in Requests, d \in Contacts, p \in Phones : CreateContact(r, d, p) \/ ReadForUpdate(r, d, p)
    PROVE  Carried(c)'
<1>0. /\ contact \in [Contacts -> ContactRow] /\ request \in [Requests -> RequestRow]
      /\ jobs \in [Job -> JobRow] /\ worker \in [Workers -> WorkerRow]
      /\ WorkersHoldJobs /\ JobsFollowRequests
  BY DEF TypeInv, TypeOK
<1>1. UNCHANGED <<jobs, worker>> => (JobCares(c) => JobCares(c)')
  BY DEF JobCares, JobActs
<1>2. (\E r \in Requests : c \in request'[r].made /\ request'[r].pc \in {"creating", "counting", "enqueuing"})
      => Carried(c)'
  BY DEF Carried, RequestCares
<1>3. ASSUME NEW r \in Requests, request[r].pc = "new" \/ request[r].pc = "editing",
             \A q \in Requests : q # r => request'[q] = request[q],
             lost' = lost, UNCHANGED <<jobs, worker>>, contact[c].status = "PENDENTE"
      PROVE  Carried(c)'
  <2>1. RequestCares(c) => RequestCares(c)'
    BY <1>3 DEF RequestCares
  <2> QED
    BY <1>1, <1>3, <2>1 DEF Carried
<1>4. ASSUME NEW r \in Requests, NEW d \in Contacts, Dequeued(r, d), request[r].pc = "enqueuing",
             RequestCares(c), c # d
      PROVE  RequestCares(c)'
  <2>1. PICK q \in Requests : c \in request[q].made /\ request[q].pc \in {"creating", "counting", "enqueuing"}
    BY <1>4 DEF RequestCares
  <2>2. c \in request'[q].made
    BY <1>0, <1>4, <2>1 DEF Dequeued, RequestRow
  <2>3. request'[q].pc = request[q].pc
    BY <1>0, <1>4, <2>1 DEF Dequeued, RequestRow
  <2> QED
    BY <2>1, <2>2, <2>3 DEF RequestCares
<1>5. ASSUME NEW r \in Requests, BeginImport(r) PROVE Carried(c)'
  BY <1>0, <1>3, <1>5 DEF BeginImport
<1>6. ASSUME NEW r \in Requests, EndImport(r) \/ CountImported(r) PROVE Carried(c)'
  <2>1. /\ contact[c].status = "PENDENTE" /\ lost' = lost /\ UNCHANGED <<jobs, worker>>
        /\ \A q \in Requests : request'[q].made = request[q].made
        /\ \A q \in Requests : q # r => request'[q].pc = request[q].pc
        /\ request[r].made # {} => request'[r].pc \in {"counting", "enqueuing"}
    BY <1>0, <1>6 DEF EndImport, CountImported, RequestRow
  <2>2. RequestCares(c) => RequestCares(c)'
    BY <2>1 DEF RequestCares
  <2> QED
    BY <1>1, <2>1, <2>2 DEF Carried
<1>7. ASSUME NEW r \in Requests, NEW d \in Contacts, Enqueue(r, d) PROVE Carried(c)'
  <2>1. <<r, d>> \in Job /\ jobs[<<r, d>>].state = "none" /\ worker' = worker /\ lost' = lost
        /\ contact' = contact /\ jobs' = [jobs EXCEPT ![<<r, d>>].state = "wait"]
        /\ Dequeued(r, d) /\ request[r].pc = "enqueuing"
    BY <1>0, <1>7 DEF Enqueue, Job, JobsFollowRequests
  <2>2. JobActs(<<r, d>>)'
    BY <1>0, <2>1 DEF JobActs, JobRow
  <2>3. ASSUME NEW q \in Requests, JobActs(<<q, c>>) PROVE JobActs(<<q, c>>)'
    <3>1. CASE <<q, c>> = <<r, d>>
      BY <2>2, <3>1
    <3>2. CASE <<q, c>> # <<r, d>>
      <4>1. jobs'[<<q, c>>] = jobs[<<q, c>>]
        BY <1>0, <2>1, <3>2 DEF Job
      <4> QED
        BY <2>1, <2>3, <4>1 DEF JobActs
    <3> QED
      BY <3>1, <3>2
  <2>4. c = d => JobCares(c)'
    BY <2>2 DEF JobCares
  <2>5. JobCares(c) => JobCares(c)'
    BY <2>3 DEF JobCares
  <2>6. RequestCares(c) /\ c # d => RequestCares(c)'
    BY <1>4, <2>1
  <2> QED
    BY <2>1, <2>4, <2>5, <2>6 DEF Carried
<1>8. ASSUME NEW r \in Requests, NEW d \in Contacts, EnqueueFails(r, d) PROVE Carried(c)'
  <2>1. /\ contact' = contact /\ lost' = lost \cup {d} /\ UNCHANGED <<jobs, worker>>
        /\ Dequeued(r, d) /\ request[r].pc = "enqueuing"
    BY <1>8 DEF EnqueueFails
  <2>2. RequestCares(c) /\ c # d => RequestCares(c)'
    BY <1>4, <2>1
  <2> QED
    BY <1>1, <2>1, <2>2 DEF Carried
<1>9. ASSUME NEW r \in Requests, NEW d \in Contacts, UpdateContact(r, d) PROVE Carried(c)'
  <2>1. /\ request[r].pc = "editing" /\ lost' = lost /\ UNCHANGED <<jobs, worker>>
        /\ \A q \in Requests : q # r => request'[q] = request[q]
    BY <1>0, <1>9 DEF UpdateContact
  <2>2. CASE contact[c].status = "PENDENTE"
    BY <1>3, <2>1, <2>2
  <2>3. CASE contact[c].status # "PENDENTE"
    <3> DEFINE changed == request[r].phone # request[r].seen
    <3>1. d = c /\ Exists(d) /\ contact'[c] = Edited(contact[c], request[r].phone, changed)
      BY <1>0, <1>9, <2>3 DEF UpdateContact
    <3>2. ~ changed => contact'[c].status = contact[c].status
      BY <1>0, <3>1 DEF Edited, ContactRow
    <3>3. changed
      BY <2>3, <3>2
    <3>4. request' = [request EXCEPT ![r].pc = "enqueuing", ![r].made = {c}]
      BY <1>9, <3>1, <3>3 DEF UpdateContact, NeedsJob
    <3>5. c \in request'[r].made /\ request'[r].pc = "enqueuing"
      BY <1>0, <3>4 DEF RequestRow
    <3> QED
      BY <1>2, <3>5
  <2> QED
    BY <2>2, <2>3
<1>10. ASSUME NEW r \in Requests, RequestFails(r) PROVE Carried(c)'
  <2>1. /\ contact' = contact /\ lost' = lost \cup request[r].made /\ UNCHANGED <<jobs, worker>>
        /\ \A q \in Requests : q # r => request'[q] = request[q]
    BY <1>0, <1>10 DEF RequestFails
  <2>2. RequestCares(c) => RequestCares(c)' \/ c \in lost'
    BY <2>1 DEF RequestCares
  <2> QED
    BY <1>1, <2>1, <2>2 DEF Carried
<1>11. ASSUME NEW r \in Requests, NEW d \in Contacts, NEW p \in Phones, CreateContact(r, d, p) PROVE Carried(c)'
  <2>1. /\ request[r].pc = "creating" /\ lost' = lost /\ UNCHANGED <<jobs, worker>>
        /\ request' = [request EXCEPT ![r].made = @ \cup {d}]
        /\ contact' = [contact EXCEPT ![d] = FreshContact(p)]
    BY <1>11 DEF CreateContact
  <2>2. \A q \in Requests : request'[q].pc = request[q].pc /\ request[q].made \subseteq request'[q].made
    BY <1>0, <2>1 DEF RequestRow
  <2>3. CASE c = d
    <3>1. c \in request'[r].made /\ request'[r].pc = "creating"
      BY <1>0, <2>1, <2>3 DEF RequestRow
    <3> QED
      BY <1>2, <3>1
  <2>4. CASE c # d
    <3>1. contact[c].status = "PENDENTE"
      BY <1>0, <2>1, <2>4
    <3>2. RequestCares(c) => RequestCares(c)'
      BY <2>2 DEF RequestCares
    <3> QED
      BY <1>1, <2>1, <3>1, <3>2 DEF Carried
  <2> QED
    BY <2>3, <2>4
<1>12. ASSUME NEW r \in Requests, NEW d \in Contacts, NEW p \in Phones, ReadForUpdate(r, d, p) PROVE Carried(c)'
  BY <1>0, <1>3, <1>12 DEF ReadForUpdate
<1> QED
  BY <1>5, <1>6, <1>7, <1>8, <1>9, <1>10, <1>11, <1>12 DEF Answer

\* A step of a worker, of BullMQ or of the session: a job that cares about a pending
\* contact goes on caring.
LEMMA WorkerCarries ==
    ASSUME TypeInv, NEW c \in Contacts, contact[c].status = "PENDENTE" => Carried(c),
           contact'[c].status = "PENDENTE",
           \/ \E d \in Contacts : RemoveContact(d)
           \/ \E w \in Workers, j \in Job : TakeJob(w, j)
           \/ \E w \in Workers : Work(w) \/ StepFails(w) \/ Crash(w)
           \/ \E j \in Job : RecoverStalled(j)
           \/ \E h \in Workers \cup {"none"} : MoveSocket(h)
           \/ UNCHANGED vars
    PROVE  Carried(c)'
<1>0. /\ contact \in [Contacts -> ContactRow] /\ jobs \in [Job -> JobRow]
      /\ worker \in [Workers -> WorkerRow] /\ WorkersHoldJobs
      /\ \A w \in Workers : worker[w].job \in Job /\ Of(w) \in Contacts
  BY DEF TypeInv, TypeOK, WorkerRow, Job, Of
<1>1. UNCHANGED <<request, lost>>
  BY DEF RemoveContact, TakeJob, Work, StepFails, Crash, RecoverStalled, MoveSocket, vars,
         SkipContact, ReadContact, CheckNumbers, Persist, CompleteJob, FailJob
<1>2. RequestCares(c) \/ c \in lost => Carried(c)'
  BY <1>1 DEF Carried, RequestCares
<1>3. (\A r \in Requests : JobActs(<<r, c>>) => JobActs(<<r, c>>)') => (JobCares(c) => Carried(c)')
  BY DEF Carried, JobCares
<1>4. contact[c].status = "PENDENTE" /\ (\A r \in Requests : JobActs(<<r, c>>) => JobActs(<<r, c>>)')
      => Carried(c)'
  BY <1>2, <1>3 DEF Carried
<1>5. ASSUME NEW r \in Requests, jobs' = jobs,
             \A w \in Workers : worker'[w].pc = "returned" => worker'[w].job # <<r, c>> \/ worker[w] = worker'[w]
      PROVE  JobActs(<<r, c>>) => JobActs(<<r, c>>)'
  BY <1>5 DEF JobActs
<1>6. ASSUME (\E d \in Contacts : RemoveContact(d)) \/ (\E h \in Workers \cup {"none"} : MoveSocket(h))
             \/ UNCHANGED vars
      PROVE  Carried(c)'
  <2>1. UNCHANGED <<jobs, worker>>
    BY <1>6 DEF RemoveContact, MoveSocket, vars
  <2>2. contact[c].status = "PENDENTE"
    BY <1>0, <1>6 DEF RemoveContact, MoveSocket, vars, ContactRow
  <2> QED
    BY <1>4, <1>5, <2>1, <2>2
<1>7. ASSUME NEW w \in Workers, NEW j \in Job, TakeJob(w, j) PROVE Carried(c)'
  <2>1. /\ contact[c].status = "PENDENTE" /\ jobs[j].state = "wait"
        /\ jobs'[j].state = "active" /\ \A k \in Job : k # j => jobs'[k] = jobs[k]
        /\ worker'[w].pc = "claimed" /\ \A v \in Workers : v # w => worker'[v] = worker[v]
    BY <1>0, <1>7 DEF TakeJob, JobRow, WorkerRow
  <2>2. \A v \in Workers : worker[v].pc = "returned" => worker[v].job # j
    BY <1>0, <2>1 DEF WorkersHoldJobs
  <2>3. ASSUME NEW r \in Requests, JobActs(<<r, c>>) PROVE JobActs(<<r, c>>)'
    <3>1. CASE <<r, c>> = j
      <4>1. \A v \in Workers : worker'[v].pc = "returned" => worker'[v].job # j
        BY <2>1, <2>2
      <4> QED
        BY <2>1, <3>1, <4>1 DEF JobActs
    <3>2. CASE <<r, c>> # j
      <4>1. jobs'[<<r, c>>] = jobs[<<r, c>>]
        BY <2>1, <3>2 DEF Job
      <4>2. \A v \in Workers : worker'[v].pc = "returned" => worker'[v] = worker[v]
        BY <2>1
      <4> QED
        BY <2>3, <4>1, <4>2 DEF JobActs
    <3> QED
      BY <3>1, <3>2
  <2> QED
    BY <1>4, <2>1, <2>3
<1>8. ASSUME NEW w \in Workers, ReadContact(w) \/ CheckNumbers(w) \/ StepFails(w) \/ Crash(w) PROVE Carried(c)'
  <2>1. contact[c].status = "PENDENTE" /\ jobs' = jobs
    BY <1>8 DEF ReadContact, CheckNumbers, StepFails, Crash
  <2>2. \A v \in Workers : worker'[v].pc = "returned" => worker'[v] = worker[v]
    <3>1. CASE ReadContact(w) \/ CheckNumbers(w) \/ StepFails(w)
      <4>1. \A v \in Workers : v # w => worker'[v] = worker[v]
        BY <1>0, <3>1 DEF ReadContact, CheckNumbers, StepFails
      <4>2. worker[w] \in WorkerRow
        BY <1>0
      <4>3. ReadContact(w) => worker'[w].pc \in {"checking", "persisting"}
        BY <1>0, <4>2 DEF ReadContact, WorkerRow
      <4>4. ASSUME CheckNumbers(w) PROVE worker'[w].pc = "persisting"
        <5>1. PICK verdict, number : worker' = [worker EXCEPT ![w].pc = "persisting", ![w].verdict = verdict,
                                                              ![w].number = number]
          BY <4>4 DEF CheckNumbers
        <5> QED
          BY <1>0, <4>2, <5>1 DEF WorkerRow
      <4>5. StepFails(w) => worker'[w].pc = "threw"
        BY <1>0, <4>2 DEF StepFails, WorkerRow
      <4> QED
        BY <3>1, <4>1, <4>3, <4>4, <4>5
    <3>2. CASE Crash(w)
      BY <1>0, <3>2, IdleType DEF Crash
    <3> QED
      BY <1>8, <3>1, <3>2
  <2> QED
    BY <1>4, <1>5, <2>1, <2>2
<1>9. ASSUME NEW w \in Workers, SkipContact(w) PROVE Carried(c)'
  <2>1. /\ contact[c].status = "PENDENTE" /\ jobs' = jobs
        /\ ~ Exists(Of(w)) \/ Verified(Of(w))
        /\ worker'[w].job = worker[w].job /\ \A v \in Workers : v # w => worker'[v] = worker[v]
    BY <1>0, <1>9 DEF SkipContact, WorkerRow
  <2>2. Of(w) # c
    BY <2>1 DEF Exists, Verified
  <2>3. \A r \in Requests : worker[w].job # <<r, c>>
    BY <2>2 DEF Of
  <2> QED
    BY <1>4, <1>5, <2>1, <2>3
<1>10. ASSUME NEW w \in Workers, Persist(w) PROVE Carried(c)'
  <2> DEFINE me == worker[w]
  <2>1. /\ jobs' = jobs /\ me.pc = "persisting"
        /\ worker'[w].job = me.job /\ \A v \in Workers : v # w => worker'[v] = worker[v]
    BY <1>0, <1>10 DEF Persist, WorkerRow
  <2>2. contact[c].status = "PENDENTE" /\ (worker'[w].pc = "returned" => Of(w) # c)
    <3>1. CASE Of(w) # c
      BY <1>0, <1>10, <3>1 DEF Persist
    <3>2. CASE Of(w) = c /\ ~ Exists(c)
      <4>1. contact' = contact
        BY <1>10, <3>2 DEF Persist
      <4> QED
        BY <3>2, <4>1 DEF Exists
    <3>3. CASE Of(w) = c /\ Exists(c)
      <4>1. contact'[c] = Judged(contact[c], me.log, me.verdict, me.number)
        BY <1>0, <1>10, <3>3 DEF Persist
      <4>2. me.verdict # "offline" => contact'[c].status \in {"VALIDO", "INVALIDO"}
        BY <1>0, <4>1 DEF Judged, ContactRow
      <4>3. me.verdict = "offline"
        BY <4>2
      <4>4. contact'[c].status = contact[c].status
        BY <1>0, <4>1, <4>3 DEF Judged, ContactRow
      <4>5. worker'[w].pc = "threw"
        BY <1>0, <1>10, <3>3, <4>3 DEF Persist, WorkerRow
      <4> QED
        BY <4>4, <4>5
    <3> QED
      BY <3>1, <3>2, <3>3
  <2>3. worker'[w].pc = "returned" => \A r \in Requests : worker'[w].job # <<r, c>>
    BY <2>1, <2>2 DEF Of
  <2>4. \A v \in Workers : worker'[v].pc = "returned" => \A r \in Requests : worker'[v].job # <<r, c>> \/ worker[v] = worker'[v]
    BY <2>1, <2>3
  <2> QED
    BY <1>4, <1>5, <2>1, <2>2, <2>4
<1>11. ASSUME NEW w \in Workers, CompleteJob(w) \/ FailJob(w) PROVE Carried(c)'
  <2> DEFINE j == worker[w].job
  <2>1. /\ contact[c].status = "PENDENTE" /\ worker[w].pc \in {"returned", "threw"}
        /\ j \in Job /\ \A k \in Job : k # j => jobs'[k] = jobs[k]
        /\ worker[w].pc = "threw" => jobs'[j].state \in {"wait", "failed"}
        /\ worker'[w].pc = "idle" /\ \A v \in Workers : v # w => worker'[v] = worker[v]
    BY <1>0, <1>11, IdleType DEF CompleteJob, FailJob, JobRow
  <2>2. ASSUME NEW r \in Requests, JobActs(<<r, c>>) PROVE JobActs(<<r, c>>)'
    <3>1. CASE <<r, c>> = j
      <4>1. jobs[j].state = "active"
        BY <1>0, <2>1 DEF WorkersHoldJobs
      <4>2. worker[w].pc = "threw"
        BY <2>1, <2>2, <3>1, <4>1 DEF JobActs
      <4> QED
        BY <2>1, <3>1, <4>2 DEF JobActs
    <3>2. CASE <<r, c>> # j
      <4>1. jobs'[<<r, c>>] = jobs[<<r, c>>]
        BY <2>1, <3>2 DEF Job
      <4>2. \A v \in Workers : worker'[v].pc = "returned" => worker'[v] = worker[v]
        BY <2>1
      <4> QED
        BY <2>2, <4>1, <4>2 DEF JobActs
    <3> QED
      BY <3>1, <3>2
  <2> QED
    BY <1>4, <2>1, <2>2
<1>12. ASSUME NEW j \in Job, RecoverStalled(j) PROVE Carried(c)'
  <2>1. /\ contact[c].status = "PENDENTE" /\ worker' = worker
        /\ jobs'[j].state \in {"wait", "failed"} /\ \A k \in Job : k # j => jobs'[k] = jobs[k]
    BY <1>0, <1>12 DEF RecoverStalled, JobRow
  <2>2. ASSUME NEW r \in Requests, JobActs(<<r, c>>) PROVE JobActs(<<r, c>>)'
    <3>1. CASE <<r, c>> = j
      BY <2>1, <3>1 DEF JobActs
    <3>2. CASE <<r, c>> # j
      <4>1. jobs'[<<r, c>>] = jobs[<<r, c>>]
        BY <2>1, <3>2 DEF Job
      <4> QED
        BY <2>1, <2>2, <4>1 DEF JobActs
    <3> QED
      BY <3>1, <3>2
  <2> QED
    BY <1>4, <2>1, <2>2
<1> QED
  BY <1>6, <1>7, <1>8, <1>9, <1>10, <1>11, <1>12 DEF Work

\* A contact that waits for its verdict has a job that will give it one or ran out of
\* attempts, or a request that will enqueue that job, or lost its job to a request that
\* failed (importContacts and updateContact of contacts.service.ts, process of
\* validate-numbers.worker.ts): an edit during a check, a skipped duplicate job or a
\* crash of the worker never leaves it without one.
THEOREM ContactsAreCarried == Spec => []NoContactForgotten
<1>1. TypeInv /\ CarriedInv /\ [Next]_vars => CarriedInv'
  <2> SUFFICES ASSUME TypeInv, CarriedInv, [Next]_vars, NEW c \in Contacts, contact'[c].status = "PENDENTE"
               PROVE  Carried(c)'
    BY DEF CarriedInv
  <2>1. contact[c].status = "PENDENTE" => Carried(c)
    BY DEF CarriedInv
  <2> QED
    BY <2>1, RequestCarries, WorkerCarries DEF Next
<1> QED
  BY TypeInvInit, TypeInvStep, CarriedInit, CarriedForgets, <1>1, PTL DEF Spec

-----------------------------------------------------------------------------
(* The log keeps count of the attempts *)

\* An entry more is a judgement more, unless the socket was away.
LEMMA JudgementsAppend ==
    ASSUME NEW log \in Seq(Verdicts), NEW verdict
    PROVE  /\ Judgements(log) \in Nat
           /\ Judgements(Append(log, verdict)) = Judgements(log) + (IF verdict = "offline" THEN 0 ELSE 1)
<1> DEFINE next == Append(log, verdict)
           S(l) == {i \in DOMAIN l : l[i] # "offline"}
           n == Len(log) + 1
<1>1. /\ DOMAIN log = 1 .. Len(log) /\ DOMAIN next = 1 .. n /\ Len(log) \in Nat
      /\ \A i \in 1 .. Len(log) : next[i] = log[i]
      /\ next[n] = verdict
  OBVIOUS
<1> HIDE DEF next
<1>2. IsFiniteSet(S(log))
  <2>1. IsFiniteSet(1 .. Len(log))
    BY <1>1, FS_Interval
  <2> QED
    BY <1>1, <2>1, FS_Subset
<1>3. n \notin S(log)
  BY <1>1
<1>4. verdict = "offline" => S(next) = S(log)
  BY <1>1
<1>5. verdict # "offline" => S(next) = S(log) \cup {n}
  BY <1>1
<1>6. Cardinality(S(log)) \in Nat /\ Cardinality(S(log) \cup {n}) = Cardinality(S(log)) + 1
  BY <1>2, <1>3, FS_CardinalityType, FS_AddElement
<1>7. Judgements(log) = Cardinality(S(log)) /\ Judgements(next) = Cardinality(S(next))
  BY DEF Judgements
<1> HIDE DEF S
<1>8. CASE verdict = "offline"
  <2>1. Judgements(next) = Judgements(log) /\ Judgements(log) \in Nat
    BY <1>4, <1>6, <1>7, <1>8
  <2> QED
    BY <1>8, <2>1 DEF next
<1>9. CASE verdict # "offline"
  <2>1. Judgements(next) = Judgements(log) + 1 /\ Judgements(log) \in Nat
    BY <1>5, <1>6, <1>7, <1>9
  <2> QED
    BY <1>9, <2>1 DEF next
<1> QED
  BY <1>8, <1>9

\* The same of a row.
RowCounts(row) == row.attempts = Judgements(row.log)

LEMMA CountsByStatus ==
    LogTellsAttempts <=> \A c \in Contacts \ raced : Exists(c) => RowCounts(contact[c])
BY DEF LogTellsAttempts, RowCounts

\* A contact just created, or whose phone was changed, was never tried.
LEMMA FreshCounts == ASSUME NEW p PROVE RowCounts(FreshContact(p))
<1>1. {i \in DOMAIN << >> : << >>[i] # "offline"} = {}
  OBVIOUS
<1>2. Judgements(<< >>) = 0
  BY <1>1, FS_EmptySet DEF Judgements
<1> QED
  BY <1>2 DEF RowCounts, FreshContact

\* What persist writes over the log that was read counts its attempt.
LEMMA JudgedCounts ==
    ASSUME NEW row \in ContactRow, RowCounts(row), NEW verdict, NEW number
    PROVE  RowCounts(Judged(row, row.log, verdict, number))
<1> DEFINE log == Append(row.log, verdict)
<1>1. row.log \in Seq(Verdicts) /\ row.attempts = Judgements(row.log)
  BY DEF ContactRow, RowCounts
<1>2. Judgements(log) = row.attempts + (IF verdict = "offline" THEN 0 ELSE 1) /\ row.attempts \in Nat
  BY <1>1, JudgementsAppend
<1>3. PICK new : new = Judged(row, row.log, verdict, number)
  OBVIOUS
<1> HIDE DEF log
<1>4. CASE verdict = "offline"
  <2>1. new = [row EXCEPT !.reason = "offline", !.log = log]
    BY <1>3, <1>4 DEF Judged, log
  <2>2. new.attempts = row.attempts /\ new.log = log
    BY <2>1 DEF ContactRow
  <2> QED
    BY <1>2, <1>3, <1>4, <2>2 DEF RowCounts
<1>5. CASE verdict # "offline"
  <2>1. PICK status, reason : new = [row EXCEPT !.status = status, !.number = number, !.reason = reason,
                                                !.attempts = @ + 1, !.log = log]
    BY <1>3, <1>5 DEF Judged, log
  <2>2. new.attempts = row.attempts + 1 /\ new.log = log
    BY <2>1 DEF ContactRow
  <2> QED
    BY <1>2, <1>3, <1>5, <2>2 DEF RowCounts
<1> QED
  BY <1>4, <1>5

\* Every contact that nobody overwrote keeps count.
LEMMA CountsStep ==
    ASSUME TypeInv, LogTellsAttempts, [Next]_vars, NEW c \in Contacts, c \notin raced', Exists(c)'
    PROVE  RowCounts(contact'[c])
<1>0. /\ contact \in [Contacts -> ContactRow] /\ contact[c] \in ContactRow
      /\ contact'[c].status \notin {"none", "removed"}
      /\ c \notin raced /\ contact[c].status \notin {"none", "removed"} => RowCounts(contact[c])
  BY CountsByStatus DEF TypeInv, TypeOK, Exists
<1>1. contact'[c] = contact[c] /\ raced \subseteq raced' => RowCounts(contact'[c])
  BY <1>0
<1>2. ASSUME NEW r \in Requests, NEW d \in Contacts, NEW p \in Phones, CreateContact(r, d, p)
      PROVE  RowCounts(contact'[c])
  BY <1>0, <1>1, <1>2, FreshCounts DEF CreateContact
<1>3. ASSUME NEW r \in Requests, NEW d \in Contacts, UpdateContact(r, d) PROVE RowCounts(contact'[c])
  <2> DEFINE edit == request[r]
             changed == edit.phone # edit.seen
  <2>1. CASE d # c \/ ~ Exists(d)
    <3>1. contact'[c] = contact[c] /\ (c \in raced => c \in raced')
      BY <1>0, <1>3, <2>1 DEF UpdateContact
    <3> QED
      BY <1>0, <3>1
  <2>2. CASE d = c /\ Exists(c)
    <3>1. contact'[c] = Edited(contact[c], edit.phone, changed)
      BY <1>0, <1>3, <2>2 DEF UpdateContact
    <3>2. CASE changed
      BY <3>1, <3>2, FreshCounts DEF Edited
    <3>3. CASE ~ changed
      <4>1. contact'[c].attempts = contact[c].attempts /\ contact'[c].log = contact[c].log
        BY <1>0, <3>1, <3>3 DEF Edited, ContactRow
      <4>2. c \notin raced
        BY <1>3, <2>2, <3>3 DEF UpdateContact
      <4> QED
        BY <1>0, <2>2, <4>1, <4>2 DEF Exists, RowCounts
    <3> QED
      BY <3>2, <3>3
  <2> QED
    BY <2>1, <2>2
<1>4. ASSUME NEW d \in Contacts, RemoveContact(d) PROVE RowCounts(contact'[c])
  <2>1. d # c
    BY <1>0, <1>4 DEF RemoveContact, ContactRow
  <2> QED
    BY <1>0, <1>1, <1>4, <2>1 DEF RemoveContact
<1>5. ASSUME NEW w \in Workers, Persist(w) PROVE RowCounts(contact'[c])
  <2> DEFINE me == worker[w]
  <2>1. CASE ~ Exists(Of(w)) \/ Of(w) # c
    <3>1. contact'[c] = contact[c] /\ (c \in raced => c \in raced')
      BY <1>0, <1>5, <2>1 DEF Persist
    <3> QED
      BY <1>0, <3>1
  <2>2. CASE Exists(c) /\ Of(w) = c
    <3>1. contact'[c] = Judged(contact[c], me.log, me.verdict, me.number)
      BY <1>0, <1>5, <2>2 DEF Persist
    <3>2. c \notin raced /\ contact[c].log = me.log
      BY <1>5, <2>2 DEF Persist
    <3>3. RowCounts(contact[c])
      BY <1>0, <2>2, <3>2 DEF Exists
    <3>4. contact'[c] = Judged(contact[c], contact[c].log, me.verdict, me.number)
      BY <3>1, <3>2
    <3> QED
      BY <1>0, <3>3, <3>4, JudgedCounts
  <2> QED
    BY <2>1, <2>2
<1>6. ASSUME UNCHANGED <<contact, raced>> PROVE RowCounts(contact'[c])
  BY <1>1, <1>6
<1>7. ASSUME NEW r \in Requests,
              \/ BeginImport(r) \/ EndImport(r) \/ CountImported(r) \/ RequestFails(r)
              \/ \E d \in Contacts : Enqueue(r, d) \/ EnqueueFails(r, d) \/ \E p \in Phones : ReadForUpdate(r, d, p)
       PROVE  UNCHANGED <<contact, raced>>
  BY <1>7 DEF BeginImport, EndImport, CountImported, RequestFails, Enqueue, EnqueueFails, ReadForUpdate
<1>8. ASSUME NEW w \in Workers,
              \/ SkipContact(w) \/ ReadContact(w) \/ CheckNumbers(w) \/ CompleteJob(w) \/ FailJob(w)
              \/ StepFails(w) \/ Crash(w) \/ \E j \in Job : TakeJob(w, j)
       PROVE  UNCHANGED <<contact, raced>>
  BY <1>8 DEF SkipContact, ReadContact, CheckNumbers, CompleteJob, FailJob, StepFails, Crash, TakeJob
<1>9. ASSUME (\E j \in Job : RecoverStalled(j)) \/ (\E h \in Workers \cup {"none"} : MoveSocket(h)) \/ UNCHANGED vars
       PROVE  UNCHANGED <<contact, raced>>
  BY <1>9 DEF RecoverStalled, MoveSocket, vars
<1> QED
  BY <1>2, <1>3, <1>4, <1>5, <1>6, <1>7, <1>8, <1>9 DEF Next, Answer, Work

\* The log of a contact holds an entry for every attempt counted, over retries,
\* duplicate jobs, crashes and edits, unless a worker wrote over a log that had grown
\* since it was read (persist of validate-numbers.worker.ts).
THEOREM LogsAreComplete == Spec => []LogTellsAttempts
<1>1. Init => LogTellsAttempts
  BY DEF Init, LogTellsAttempts, Exists, FreshContact
<1>2. TypeInv /\ LogTellsAttempts /\ [Next]_vars => LogTellsAttempts'
  <2> SUFFICES ASSUME TypeInv, LogTellsAttempts, [Next]_vars, NEW c \in Contacts, c \notin raced', Exists(c)'
               PROVE  contact'[c].attempts = Judgements(contact'[c].log)
    BY DEF LogTellsAttempts
  <2> QED
    BY CountsStep DEF RowCounts
<1> QED
  BY TypeInvInit, TypeInvStep, <1>1, <1>2, PTL DEF Spec

-----------------------------------------------------------------------------
(* The counter of imported contacts *)

Importing(r) == request[r].pc \in {"creating", "counting"}

\* Contacts that a request has created and not counted yet, and all the others.
Uncounted(c) == \E r \in Requests : Importing(r) /\ c \in request[r].made
Counted == {c \in Contacts : contact[c].status # "none" /\ ~ Uncounted(c)}

\* Requests under way hold contacts of their own; the counter has all the others,
\* as long as no request failed.
CountInv ==
    /\ \A r \in Requests : request[r].pc = "new" => request[r].made = {}
    /\ \A r \in Requests : Importing(r) => \A c \in request[r].made : contact[c].status # "none"
    /\ \A r, q \in Requests : r # q /\ Importing(r) /\ Importing(q) => request[r].made \cap request[q].made = {}
    /\ (\A r \in Requests : request[r].pc # "failed") => imported = Cardinality(Counted)

\* Initially.
LEMMA CountInit == Init => CountInv
<1> SUFFICES ASSUME Init PROVE CountInv
  OBVIOUS
<1>1. Counted = {}
  BY DEF Init, Counted, FreshContact
<1>2. imported = Cardinality(Counted)
  BY <1>1, FS_EmptySet DEF Init
<1> QED
  BY <1>2 DEF Init, CountInv, Importing

\* With no import under way nothing is uncounted.
LEMMA CountSettles == CountInv => ImportsAreCounted
<1> SUFFICES ASSUME CountInv, \A r \in Requests : request[r].pc \notin {"creating", "counting", "failed"}
             PROVE  imported = Cardinality({c \in Contacts : contact[c].status # "none"})
  BY DEF ImportsAreCounted
<1>1. Counted = {c \in Contacts : contact[c].status # "none"}
  BY DEF Counted, Uncounted, Importing
<1> QED
  BY <1>1 DEF CountInv

\* A request that failed stays failed.
LEMMA FailedStays ==
    ASSUME TypeInv, [Next]_vars, NEW r \in Requests, request[r].pc = "failed"
    PROVE  request'[r] = request[r]
<1>0. request \in [Requests -> RequestRow]
  BY DEF TypeInv, TypeOK
<1>1. ASSUME NEW q \in Requests, BeginImport(q) \/ Answer(q) \/ RequestFails(q) PROVE request'[r] = request[r]
  BY <1>0, <1>1 DEF BeginImport, Answer, EndImport, CountImported, Enqueue, Dequeued, UpdateContact, RequestFails
<1>2. ASSUME NEW q \in Requests, NEW c \in Contacts,
             EnqueueFails(q, c) \/ \E p \in Phones : CreateContact(q, c, p) \/ ReadForUpdate(q, c, p)
      PROVE  request'[r] = request[r]
  BY <1>0, <1>2 DEF EnqueueFails, Dequeued, CreateContact, ReadForUpdate
<1>3. ASSUME \/ \E c \in Contacts : RemoveContact(c)
             \/ \E w \in Workers, j \in Job : TakeJob(w, j)
             \/ \E w \in Workers : Work(w) \/ StepFails(w) \/ Crash(w)
             \/ \E j \in Job : RecoverStalled(j)
             \/ \E h \in Workers \cup {"none"} : MoveSocket(h)
             \/ UNCHANGED vars
      PROVE  request' = request
  BY <1>3 DEF RemoveContact, TakeJob, Work, StepFails, Crash, RecoverStalled, MoveSocket, vars,
              SkipContact, ReadContact, CheckNumbers, Persist, CompleteJob, FailJob
<1> QED
  BY <1>1, <1>2, <1>3 DEF Next

\* A step that creates no contact, counts none and takes none from an import.
LEMMA CountQuiet ==
    ASSUME TypeInv, CountInv, [Next]_vars, imported' = imported,
           \A c \in Contacts : contact'[c].status = "none" <=> contact[c].status = "none",
           \A r \in Requests : request'[r].pc = "new" => request[r].pc = "new" /\ request'[r].made = request[r].made,
           \A r \in Requests : \/ request'[r].made = request[r].made /\ (Importing(r)' <=> Importing(r))
                               \/ (Importing(r) => request[r].made = {}) /\ (Importing(r)' => request'[r].made = {})
    PROVE  CountInv'
<1>1. \A r \in Requests, c \in Contacts :
        Importing(r)' /\ c \in request'[r].made <=> Importing(r) /\ c \in request[r].made
  OBVIOUS
<1>2. \A c \in Contacts : Uncounted(c)' <=> Uncounted(c)
  BY <1>1 DEF Uncounted
<1>3. Counted' = Counted
  BY <1>2 DEF Counted
<1>4. \A r \in Requests : request'[r].made \subseteq Contacts
  BY TypeInvStep DEF TypeInv, TypeOK, RequestRow
<1>5. (\A r \in Requests : request'[r].pc # "failed") => imported' = Cardinality(Counted')
  BY <1>3, FailedStays DEF CountInv
<1>6. \A r \in Requests : request'[r].pc = "new" => request'[r].made = {}
  BY DEF CountInv
<1>7. \A r \in Requests : Importing(r)' => \A c \in request'[r].made : contact'[c].status # "none"
  BY <1>1, <1>4 DEF CountInv
<1>8. \A r, q \in Requests :
        r # q /\ Importing(r)' /\ Importing(q)' => request'[r].made \cap request'[q].made = {}
  BY <1>1, <1>4 DEF CountInv
<1> QED
  BY <1>5, <1>6, <1>7, <1>8 DEF CountInv

\* importContacts creates a contact: it is its own and not yet counted.
LEMMA CreateCounts ==
    ASSUME TypeInv, CountInv, [Next]_vars, NEW r \in Requests, NEW c \in Contacts, NEW p \in Phones,
           CreateContact(r, c, p)
    PROVE  CountInv'
<1>0. /\ contact \in [Contacts -> ContactRow] /\ request \in [Requests -> RequestRow]
      /\ request[r].pc = "creating" /\ contact[c].status = "none" /\ imported' = imported
  BY DEF TypeInv, TypeOK, CreateContact
<1>1. /\ \A q \in Requests : request'[q].pc = request[q].pc /\ (q # r => request'[q].made = request[q].made)
      /\ request'[r].made = request[r].made \cup {c}
      /\ contact'[c].status = "PENDENTE" /\ \A d \in Contacts : d # c => contact'[d] = contact[d]
  BY <1>0 DEF CreateContact, RequestRow, FreshContact
<1>2. \A q \in Requests : Importing(q)' <=> Importing(q)
  BY <1>1 DEF Importing
<1>3. Importing(r) /\ \A q \in Requests : Importing(q) => c \notin request[q].made
  BY <1>0 DEF CountInv, Importing
<1>4. ASSUME NEW d \in Contacts, d # c PROVE Uncounted(d)' <=> Uncounted(d)
  <2>1. \A q \in Requests : d \in request'[q].made <=> d \in request[q].made
    BY <1>1, <1>4
  <2> QED
    BY <1>2, <2>1 DEF Uncounted
<1>5. Uncounted(c)'
  BY <1>1, <1>2, <1>3 DEF Uncounted
<1>6. Counted' = Counted
  BY <1>0, <1>1, <1>4, <1>5 DEF Counted
<1>7. (\A q \in Requests : request'[q].pc # "failed") => imported' = Cardinality(Counted')
  BY <1>0, <1>1, <1>6 DEF CountInv
<1>8. \A q \in Requests : request'[q].pc = "new" => request'[q].made = {}
  BY <1>0, <1>1 DEF CountInv
<1>9. ASSUME NEW q \in Requests, Importing(q)', NEW d \in request'[q].made PROVE contact'[d].status # "none"
  <2>1. d \in Contacts
    BY <1>9, TypeInvStep DEF TypeInv, TypeOK, RequestRow
  <2>2. CASE d = c
    BY <1>1, <2>2
  <2>3. CASE d # c
    <3>1. d \in request[q].made /\ Importing(q)
      BY <1>1, <1>2, <1>9, <2>3
    <3> QED
      BY <1>1, <2>1, <2>3, <3>1 DEF CountInv
  <2> QED
    BY <2>2, <2>3
<1>10. ASSUME NEW q \in Requests, NEW s \in Requests, q # s, Importing(q)', Importing(s)'
       PROVE  request'[q].made \cap request'[s].made = {}
  <2>1. Importing(q) /\ Importing(s) /\ request[q].made \cap request[s].made = {}
    BY <1>2, <1>10 DEF CountInv
  <2>2. c \notin request[q].made /\ c \notin request[s].made
    BY <1>3, <2>1
  <2> QED
    BY <1>1, <1>10, <2>1, <2>2
<1> QED
  BY <1>7, <1>8, <1>9, <1>10 DEF CountInv

\* incrementContactsImported: the request's own contacts are counted, each once.
LEMMA CountedCounts ==
    ASSUME TypeInv, CountInv, [Next]_vars, NEW r \in Requests, CountImported(r)
    PROVE  CountInv'
<1>0. /\ request \in [Requests -> RequestRow] /\ imported \in Nat
      /\ request[r].pc = "counting" /\ contact' = contact
      /\ imported' = imported + Cardinality(request[r].made)
      /\ request[r].made \subseteq Contacts
  BY DEF TypeInv, TypeOK, CountImported, RequestRow, Received
<1>1. /\ \A q \in Requests : q # r => request'[q] = request[q]
      /\ request'[r].pc = "enqueuing"
  BY <1>0 DEF CountImported, RequestRow
<1>2. ~ Importing(r)' /\ \A q \in Requests : q # r => (Importing(q)' <=> Importing(q))
  BY <1>1 DEF Importing
<1>3. Importing(r)
  BY <1>0 DEF Importing
<1>4. \A d \in Contacts : Uncounted(d) <=> Uncounted(d)' \/ d \in request[r].made
  BY <1>1, <1>2, <1>3 DEF Uncounted
<1>5. \A d \in request[r].made : ~ Uncounted(d)' /\ contact[d].status # "none"
  BY <1>1, <1>2, <1>3 DEF Uncounted, CountInv
<1>6. Counted' = Counted \cup request[r].made /\ Counted \cap request[r].made = {}
  BY <1>0, <1>4, <1>5 DEF Counted
<1>7. IsFiniteSet(Counted) /\ IsFiniteSet(request[r].made)
  BY <1>0, ContactAssumption, FS_Subset DEF Counted
<1>8. Cardinality(Counted') = Cardinality(Counted) + Cardinality(request[r].made)
  <2>1. /\ Cardinality(Counted \cup request[r].made)
           = Cardinality(Counted) + Cardinality(request[r].made) - Cardinality(Counted \cap request[r].made)
        /\ Cardinality(Counted) \in Nat /\ Cardinality(request[r].made) \in Nat
    BY <1>7, FS_Union, FS_CardinalityType
  <2>2. Cardinality(Counted \cap request[r].made) = 0
    BY <1>6, FS_EmptySet
  <2> QED
    BY <1>6, <2>1, <2>2
<1>9. (\A q \in Requests : request'[q].pc # "failed") => imported' = Cardinality(Counted')
  <2> SUFFICES ASSUME \A q \in Requests : request'[q].pc # "failed" PROVE imported' = Cardinality(Counted')
    OBVIOUS
  <2>1. \A q \in Requests : request[q].pc # "failed"
    BY <1>0, <1>1
  <2>2. imported = Cardinality(Counted)
    BY <2>1 DEF CountInv
  <2> QED
    BY <1>0, <1>8, <2>2
<1>10. \A q \in Requests : request'[q].pc = "new" => request'[q].made = {}
  BY <1>1 DEF CountInv
<1>11. \A q \in Requests : Importing(q)' => \A d \in request'[q].made : contact'[d].status # "none"
  BY <1>0, <1>1, <1>2 DEF CountInv
<1>12. \A q, s \in Requests : q # s /\ Importing(q)' /\ Importing(s)' => request'[q].made \cap request'[s].made = {}
  BY <1>1, <1>2 DEF CountInv
<1> QED
  BY <1>9, <1>10, <1>11, <1>12 DEF CountInv

\* A request leaves its import unfinished, and the counter behind for good.
LEMMA FailsCount ==
    ASSUME TypeInv, CountInv, [Next]_vars, NEW r \in Requests, RequestFails(r)
    PROVE  CountInv'
<1>0. /\ request \in [Requests -> RequestRow] /\ contact' = contact
  BY DEF TypeInv, TypeOK, RequestFails
<1>1. /\ \A q \in Requests : q # r => request'[q] = request[q]
      /\ request'[r].pc = "failed"
  BY <1>0 DEF RequestFails, RequestRow
<1>2. ~ Importing(r)' /\ \A q \in Requests : q # r => (Importing(q)' <=> Importing(q))
  BY <1>1 DEF Importing
<1>3. \A q \in Requests : request'[q].pc = "new" => request'[q].made = {}
  BY <1>1 DEF CountInv
<1>4. \A q \in Requests : Importing(q)' => \A d \in request'[q].made : contact'[d].status # "none"
  BY <1>0, <1>1, <1>2 DEF CountInv
<1>5. \A q, s \in Requests : q # s /\ Importing(q)' /\ Importing(s)' => request'[q].made \cap request'[s].made = {}
  BY <1>1, <1>2 DEF CountInv
<1> QED
  BY <1>1, <1>3, <1>4, <1>5 DEF CountInv

\* Every other step is quiet.
LEMMA CountStep == TypeInv /\ CountInv /\ [Next]_vars => CountInv'
<1> SUFFICES ASSUME TypeInv, CountInv, [Next]_vars PROVE CountInv'
  OBVIOUS
<1>0. /\ contact \in [Contacts -> ContactRow] /\ request \in [Requests -> RequestRow]
      /\ \A r \in Requests : request[r] \in RequestRow
  BY DEF TypeInv, TypeOK
<1>1. ASSUME imported' = imported, UNCHANGED request,
             \A c \in Contacts : contact'[c].status = "none" <=> contact[c].status = "none"
      PROVE  CountInv'
  BY <1>1, CountQuiet DEF Importing
<1>2. ASSUME imported' = imported, NEW r \in Requests,
             \A c \in Contacts : contact'[c].status = "none" <=> contact[c].status = "none",
             \A q \in Requests : q # r => request'[q] = request[q],
             request'[r].pc # "new",
             \/ request'[r].made = request[r].made /\ (Importing(r)' <=> Importing(r))
             \/ (Importing(r) => request[r].made = {}) /\ (Importing(r)' => request'[r].made = {})
      PROVE  CountInv'
  BY <1>2, CountQuiet DEF Importing
<1>3. ASSUME NEW r \in Requests, BeginImport(r) PROVE CountInv'
  <2>1. /\ imported' = imported /\ contact' = contact /\ request[r].pc = "new" /\ request'[r].pc = "creating"
        /\ request'[r].made = request[r].made /\ \A q \in Requests : q # r => request'[q] = request[q]
    BY <1>0, <1>3 DEF BeginImport, RequestRow
  <2>2. request[r].made = {} /\ ~ Importing(r)
    BY <2>1 DEF CountInv, Importing
  <2> QED
    BY <1>2, <2>1, <2>2
<1>4. ASSUME NEW r \in Requests, EndImport(r) PROVE CountInv'
  <2>1. /\ imported' = imported /\ contact' = contact /\ request[r].pc = "creating"
        /\ request'[r].pc = IF request[r].made = {} THEN "done" ELSE "counting"
        /\ request'[r].made = request[r].made /\ \A q \in Requests : q # r => request'[q] = request[q]
    BY <1>0, <1>4 DEF EndImport, RequestRow
  <2>2. Importing(r) /\ (request[r].made # {} => Importing(r)')
    BY <2>1 DEF Importing
  <2> QED
    BY <1>2, <2>1, <2>2
<1>5. ASSUME NEW r \in Requests, NEW c \in Contacts, Enqueue(r, c) \/ EnqueueFails(r, c) PROVE CountInv'
  <2>1. imported' = imported /\ contact' = contact /\ request[r].pc = "enqueuing" /\ Dequeued(r, c)
    BY <1>5 DEF Enqueue, EnqueueFails
  <2>2. /\ request'[r].pc \in {"done", "enqueuing"} /\ \A q \in Requests : q # r => request'[q] = request[q]
    BY <1>0, <2>1 DEF Dequeued, RequestRow
  <2>3. ~ Importing(r) /\ ~ Importing(r)'
    BY <2>1, <2>2 DEF Importing
  <2> QED
    BY <1>2, <2>1, <2>2, <2>3
<1>6. ASSUME NEW r \in Requests, NEW c \in Contacts, NEW p \in Phones, ReadForUpdate(r, c, p) PROVE CountInv'
  <2>1. /\ imported' = imported /\ contact' = contact /\ request[r].pc = "new" /\ request'[r].pc = "editing"
        /\ \A q \in Requests : q # r => request'[q] = request[q]
    BY <1>0, <1>6 DEF ReadForUpdate
  <2>2. ~ Importing(r) /\ ~ Importing(r)'
    BY <2>1 DEF Importing
  <2> QED
    BY <1>2, <2>1, <2>2
<1>7. ASSUME NEW r \in Requests, NEW c \in Contacts, UpdateContact(r, c) PROVE CountInv'
  <2>1. /\ imported' = imported /\ request[r].pc = "editing"
        /\ \A q \in Requests : q # r => request'[q] = request[q]
    BY <1>0, <1>7 DEF UpdateContact
  <2>2. request'[r].pc \in {"enqueuing", "done", "failed"}
    BY <1>0, <1>7 DEF UpdateContact, RequestRow
  <2>3. ASSUME NEW d \in Contacts PROVE contact'[d].status = "none" <=> contact[d].status = "none"
    <3> DEFINE changed == request[r].phone # request[r].seen
    <3>1. CASE d # c \/ ~ Exists(c)
      BY <1>0, <1>7, <3>1 DEF UpdateContact
    <3>2. CASE d = c /\ Exists(c)
      <4>1. contact'[c] = Edited(contact[c], request[r].phone, changed)
        BY <1>0, <1>7, <3>2 DEF UpdateContact
      <4>2. contact'[c].status \in {"PENDENTE", contact[c].status}
        BY <1>0, <4>1 DEF Edited, FreshContact, ContactRow
      <4> QED
        BY <3>2, <4>2 DEF Exists
    <3> QED
      BY <3>1, <3>2
  <2>4. ~ Importing(r) /\ ~ Importing(r)'
    BY <2>1, <2>2 DEF Importing
  <2> QED
    BY <1>2, <2>1, <2>2, <2>3, <2>4
<1>8. ASSUME NEW d \in Contacts, RemoveContact(d) PROVE CountInv'
  <2>1. imported' = imported /\ request' = request
    BY <1>8 DEF RemoveContact
  <2>2. ASSUME NEW c \in Contacts PROVE contact'[c].status = "none" <=> contact[c].status = "none"
    BY <1>0, <1>8 DEF RemoveContact, Exists, ContactRow
  <2> QED
    BY <1>1, <2>1, <2>2
<1>9. ASSUME NEW w \in Workers, Persist(w) PROVE CountInv'
  <2> DEFINE me == worker[w]
  <2>1. imported' = imported /\ request' = request
    BY <1>9 DEF Persist
  <2>2. ASSUME NEW c \in Contacts PROVE contact'[c].status = "none" <=> contact[c].status = "none"
    <3>1. CASE Of(w) # c \/ ~ Exists(c)
      BY <1>0, <1>9, <3>1 DEF Persist
    <3>2. CASE Of(w) = c /\ Exists(c)
      <4>1. contact'[c] = Judged(contact[c], me.log, me.verdict, me.number)
        BY <1>0, <1>9, <3>2 DEF Persist
      <4>2. contact'[c].status \in {"VALIDO", "INVALIDO", contact[c].status}
        BY <1>0, <4>1 DEF Judged, ContactRow
      <4> QED
        BY <3>2, <4>2 DEF Exists
    <3> QED
      BY <3>1, <3>2
  <2> QED
    BY <1>1, <2>1, <2>2
<1>10. ASSUME NEW w \in Workers,
              \/ SkipContact(w) \/ ReadContact(w) \/ CheckNumbers(w) \/ CompleteJob(w) \/ FailJob(w)
              \/ StepFails(w) \/ Crash(w) \/ \E j \in Job : TakeJob(w, j)
       PROVE  UNCHANGED <<contact, request, imported>>
  BY <1>10 DEF SkipContact, ReadContact, CheckNumbers, CompleteJob, FailJob, StepFails, Crash, TakeJob
<1>11. ASSUME (\E j \in Job : RecoverStalled(j)) \/ (\E h \in Workers \cup {"none"} : MoveSocket(h)) \/ UNCHANGED vars
       PROVE  UNCHANGED <<contact, request, imported>>
  BY <1>11 DEF RecoverStalled, MoveSocket, vars
<1>12. UNCHANGED <<contact, request, imported>> => CountInv'
  BY <1>1
<1> QED
  BY <1>3, <1>4, <1>5, <1>6, <1>7, <1>8, <1>9, <1>10, <1>11, <1>12, CreateCounts, CountedCounts, FailsCount
     DEF Next, Answer, Work

\* Once no import is on its way and none failed half way, the counter of the session is
\* the number of contacts ever created, however imports, edits and removals were
\* interleaved (importContacts and incrementContactsImported of contacts.service.ts).
THEOREM ImportsAreExact == Spec => []ImportsAreCounted
BY TypeInvInit, TypeInvStep, CountInit, CountStep, CountSettles, PTL DEF Spec

=============================================================================
