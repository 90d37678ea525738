------------------------- MODULE SendPipelineProofs -------------------------
(***************************************************************************)
(* Proofs about SendPipeline, for every number of campaigns, contacts,     *)
(* messages, attempts, reschedulings, overlapping listeners and faults:    *)
(* its type invariant, SentMeansDelivered and RepeatsNeedAFault.           *)
(***************************************************************************)
EXTENDS SendPipeline, FiniteSetTheorems, TLAPS

-----------------------------------------------------------------------------
(* Inductive invariants *)

\* A busy worker processes a job that BullMQ holds active for it.
WorkerHoldsJob == worker.pc # "idle" => worker.job \in Job /\ jobs[worker.job].state = "active"

\* A job that is waiting, active or yet to be added has an attempt to make.
AttemptsLeft ==
    \A j \in Job : jobs[j].state \in {"none", "wait", "active"} => jobs[j].made < MaxAttempts

\* Faults are only spent.
BudgetSpent == \A kind \in FaultKinds : budget[kind] <= Budget[kind]

TypeInv == TypeOK /\ WorkerHoldsJob /\ AttemptsLeft /\ BudgetSpent

\* SentMeansDelivered, and what the worker knows between the send and its record.
DeliveredInv ==
    /\ SentMeansDelivered
    /\ worker.pc = "marking" => delivered[CurrentEnvio] > 0
    /\ worker.pc = "writing" => \A m \in Messages : delivered[<<CurrentEnvio[1], m>>] > 0

\* A campaign that does not exist yet has no request, no delivery and no job.
FreshInv ==
    \A c \in Campaigns : campaign[c].status = "none" =>
        /\ requests[c].pc = "none"
        /\ \A e \in Envio : e[1][1] = c => delivered[e] = 0
        /\ \A j \in Job : j[1][1][1] = c => jobs[j].state = "none"

WorkingOn(e, pc) == worker.pc = pc /\ CurrentEnvio = e

\* Before the next delivery of an envio is recorded, every earlier one cost a fault.
RepeatInv ==
    \A e \in Envio : e[2] \notin SplitMessages =>
        /\ delivered[e] <= 1 + FaultsSoFar
        /\ envio[e] = "PENDENTE" /\ ~ WorkingOn(e, "marking") => delivered[e] <= FaultsSoFar
        /\ WorkingOn(e, "sending") => delivered[e] <= FaultsSoFar

-----------------------------------------------------------------------------
(* Lemmas about jobs and quantities *)

\* A job carries an envio, an envio a recipient, a recipient a campaign and a contact.
LEMMA JobParts ==
    ASSUME NEW j \in Job
    PROVE  /\ j[1] \in Envio
           /\ j[1][1] \in Recipient
           /\ j[1][2] \in Messages
           /\ j[1][1][1] \in Campaigns
           /\ j[1][1][2] \in Contacts
BY DEF Job, Envio, Recipient

\* What createCampaign counts is finite.
LEMMA QuantityIsNat ==
    ASSUME NEW c \in Campaigns, NEW chosen \in SUBSET Contacts
    PROVE  /\ Cardinality({c} \X chosen) \in Nat
           /\ Cardinality(({c} \X chosen) \X Messages) \in Nat
<1>1. IsFiniteSet({c}) /\ IsFiniteSet(chosen) /\ IsFiniteSet(Messages)
  BY SetsAssumption, FS_Singleton, FS_Subset
<1>2. IsFiniteSet({c} \X chosen)
  BY <1>1, FS_Product
<1>3. IsFiniteSet(({c} \X chosen) \X Messages)
  BY <1>1, <1>2, FS_Product
<1> QED
  BY <1>2, <1>3, FS_CardinalityType

\* What enqueueCampaign counts is finite.
LEMMA PendingIsNat == ASSUME NEW c PROVE Cardinality(PendingEnvios(c)) \in Nat
<1>1. IsFiniteSet(Envio)
  BY SetsAssumption, FS_Product DEF Envio, Recipient
<1>2. IsFiniteSet(PendingEnvios(c))
  BY <1>1, FS_Subset DEF PendingEnvios
<1> QED
  BY <1>2, FS_CardinalityType

-----------------------------------------------------------------------------
(* Type correctness *)

\* The initial state is typed.
LEMMA TypeInvInit == Init => TypeInv
BY BoundsAssumption
DEF Init, TypeInv, TypeOK, WorkerHoldsJob, AttemptsLeft, BudgetSpent, CampaignRow, JobRow,
    RowStatus, WorkerPc, FinalizerPc, RequestPc, NoCampaign, NoJobRow, IdleWorker

\* Spending a fault keeps the budget typed and within what it was given.
LEMMA SpendType ==
    ASSUME TypeInv, NEW kind \in FaultKinds, Spend(kind)
    PROVE  /\ budget' \in [FaultKinds -> Nat]
           /\ BudgetSpent'
<1>1. /\ budget \in [FaultKinds -> Nat]
      /\ budget[kind] > 0
      /\ budget' = [budget EXCEPT ![kind] = budget[kind] - 1]
  BY DEF TypeInv, TypeOK, Spend
<1>2. budget' \in [FaultKinds -> Nat]
  BY <1>1
<1>3. ASSUME NEW k \in FaultKinds PROVE budget'[k] <= Budget[k]
  <2>1. budget[k] \in Nat /\ Budget[k] \in Nat /\ budget[k] <= Budget[k]
    BY BoundsAssumption, <1>1 DEF TypeInv, BudgetSpent
  <2>2. budget'[k] = budget[k] \/ budget'[k] = budget[k] - 1
    BY <1>1
  <2> QED
    BY <2>1, <2>2
<1> QED
  BY <1>2, <1>3 DEF BudgetSpent

\* Counting one more outcome keeps the campaign's row typed.
LEMMA CampaignAfterType ==
    ASSUME NEW row \in CampaignRow, NEW outcome
    PROVE  CampaignAfter(row, outcome) \in CampaignRow
BY DEF CampaignAfter, DoneIfFinished, CampaignRow

\* The writes of applyRecipientOutcome keep both tables typed.
LEMMA WriteType ==
    ASSUME TypeInv, NEW r \in Recipient, NEW outcome \in RowStatus, WriteOutcome(r, outcome)
    PROVE  /\ recipient' \in [Recipient -> RowStatus]
           /\ campaign' \in [Campaigns -> CampaignRow]
<1>1. r[1] \in Campaigns
  BY DEF Recipient
<1>2. CampaignAfter(campaign[r[1]], outcome) \in CampaignRow
  BY <1>1, CampaignAfterType DEF TypeInv, TypeOK
<1> QED
  BY <1>1, <1>2 DEF TypeInv, TypeOK, WriteOutcome

\* Every step preserves the type invariant.
LEMMA TypeInvStep == TypeInv /\ [Next]_vars => TypeInv'
<1> SUFFICES ASSUME TypeInv, [Next]_vars PROVE TypeInv'
  OBVIOUS
<1> USE DEF TypeInv, TypeOK, WorkerHoldsJob, AttemptsLeft, BudgetSpent, dbVars, processVars
<1>1. ASSUME NEW c \in Campaigns, NEW chosen \in SUBSET Contacts, CreateCampaign(c, chosen)
      PROVE  TypeInv'
  <2> DEFINE rows == {c} \X chosen
             n == Cardinality(rows)
             quantity == Cardinality(rows \X Messages)
  <2>1. n \in Nat /\ quantity \in Nat
    BY QuantityIsNat
  <2>2. /\ quantity <= balance
        /\ balance' = balance - quantity
        /\ campaign' = [campaign EXCEPT ![c] =
               [status |-> "PENDENTE", total |-> n, pending |-> n, sent |-> 0, failed |-> 0]]
        /\ recipient' = [r \in Recipient |-> IF r \in rows THEN "PENDENTE" ELSE recipient[r]]
        /\ envio' = [e \in Envio |-> IF e[1] \in rows THEN "PENDENTE" ELSE envio[e]]
        /\ requests' = [requests EXCEPT ![c].pc = "enqueue"]
        /\ UNCHANGED <<contacts, sessionStatus, session, jobs, worker, finalizers,
                       deadLetter, delivered, budget>>
    BY <1>1 DEF CreateCampaign
  <2> HIDE DEF rows, n, quantity
  <2>3. balance' \in Nat
    BY <2>1, <2>2
  <2>4. campaign' \in [Campaigns -> CampaignRow]
    BY <2>1, <2>2 DEF CampaignRow
  <2>5. recipient' \in [Recipient -> RowStatus] /\ envio' \in [Envio -> RowStatus]
    BY <2>2 DEF RowStatus
  <2>6. requests' \in [Campaigns -> [pc : RequestPc, n : Nat]]
    BY <2>2 DEF RequestPc
  <2> QED
    BY <2>2, <2>3, <2>4, <2>5, <2>6
<1>2. ASSUME NEW c \in Campaigns, EnqueueCampaign(c) PROVE TypeInv'
  <2> DEFINE batch == PendingEnvios(c)
             new == [j \in Job |-> IF j[1] \in batch /\ j[2] = 0 /\ jobs[j].state = "none"
                                   THEN [jobs[j] EXCEPT !.state = "wait"]
                                   ELSE jobs[j]]
  <2>1. new \in [Job -> JobRow]
    BY DEF JobRow
  <2>2. ASSUME NEW j \in Job
        PROVE  /\ new[j].state = "active" <=> jobs[j].state = "active"
               /\ new[j].state \in {"none", "wait", "active"} => new[j].made < MaxAttempts
    BY DEF JobRow
  <2>3. jobs' = new
    BY <1>2 DEF EnqueueCampaign
  <2> HIDE DEF new
  <2>4. requests' \in [Campaigns -> [pc : RequestPc, n : Nat]]
    BY <1>2, PendingIsNat DEF EnqueueCampaign, RequestPc
  <2>5. WorkerHoldsJob' /\ AttemptsLeft'
    BY <1>2, <2>2, <2>3 DEF EnqueueCampaign
  <2> QED
    BY <1>2, <2>1, <2>3, <2>4, <2>5 DEF EnqueueCampaign
<1>3. ASSUME NEW c \in Campaigns, CountPending(c) PROVE TypeInv'
  BY <1>3 DEF CountPending, RequestPc
<1>4. ASSUME NEW c \in Campaigns, EnsureWorker(c) PROVE TypeInv'
  BY <1>4 DEF EnsureWorker, WorkerPc, RequestPc
<1>5. ASSUME NEW c \in Campaigns, RequestFails(c) PROVE TypeInv'
  BY <1>5, SpendType DEF RequestFails, RequestPc, FaultKinds
<1>6. ASSUME NEW j \in Job, TakeJob(j) PROVE TypeInv'
  BY <1>6 DEF TakeJob, WorkerPc, JobRow
<1>7. ASSUME NEW j \in Job, RecoverStalled(j) PROVE TypeInv'
  <2> DEFINE row == IF jobs[j].stalls = 0
                    THEN [state |-> "wait", made |-> jobs[j].made, stalls |-> 1]
                    ELSE [jobs[j] EXCEPT !.state = "failed"]
  <2>1. row \in JobRow /\ row.made = jobs[j].made /\ jobs[j].state = "active"
    BY <1>7 DEF RecoverStalled, JobRow
  <2>2. jobs' = [jobs EXCEPT ![j] = row]
    BY <1>7 DEF RecoverStalled
  <2> HIDE DEF row
  <2>3. jobs' \in [Job -> JobRow]
    BY <2>1, <2>2
  <2>4. ASSUME NEW i \in Job, jobs'[i].state \in {"none", "wait", "active"}
        PROVE  jobs'[i].made < MaxAttempts
    <3>1. CASE i = j
      BY <2>1, <2>2, <3>1
    <3>2. CASE i # j
      BY <2>2, <2>4, <3>2
    <3> QED
      BY <3>1, <3>2
  <2>5. worker.pc # "idle" => jobs'[worker.job] = jobs[worker.job]
    BY <1>7, <2>2 DEF RecoverStalled
  <2> QED
    BY <1>7, <2>3, <2>4, <2>5 DEF RecoverStalled
<1>8. ASSUME SkipResolved PROVE TypeInv'
  BY <1>8 DEF SkipResolved, WorkerPc, Goto
<1>9. ASSUME NEW n \in 1 .. MaxReschedules, Reschedule(n) PROVE TypeInv'
  <2> DEFINE new == <<CurrentEnvio, n>>
  <2>1. CurrentEnvio \in Envio /\ worker.job \in Job /\ jobs[worker.job].state = "active"
    BY <1>9, JobParts DEF Reschedule, CurrentEnvio
  <2>2. new \in Job
    BY <2>1, BoundsAssumption DEF Job
  <2>3. jobs[new].state = "none" /\ jobs' = [jobs EXCEPT ![new].state = "wait"]
    BY <1>9 DEF Reschedule
  <2> HIDE DEF new
  <2>4. jobs' \in [Job -> JobRow] /\ AttemptsLeft'
    <3>1. [jobs[new] EXCEPT !.state = "wait"] \in JobRow
      BY <2>2 DEF JobRow
    <3>2. jobs' = [jobs EXCEPT ![new] = [jobs[new] EXCEPT !.state = "wait"]]
      BY <2>3
    <3>3. jobs' \in [Job -> JobRow]
      BY <3>1, <3>2
    <3>4. ASSUME NEW i \in Job, jobs'[i].state \in {"none", "wait", "active"}
          PROVE  jobs'[i].made < MaxAttempts
      <4>1. CASE i = new
        BY <2>2, <2>3, <3>2, <4>1 DEF JobRow
      <4>2. CASE i # new
        BY <3>2, <3>4, <4>2
      <4> QED
        BY <4>1, <4>2
    <3> QED
      BY <3>3, <3>4
  <2>5. jobs'[worker.job].state = "active"
    BY <2>1, <2>2, <2>3
  <2> QED
    BY <1>9, <2>1, <2>4, <2>5 DEF Reschedule, WorkerPc, Goto
<1>10. ASSUME BeginAttempt PROVE TypeInv'
  BY <1>10 DEF BeginAttempt, WorkerPc
<1>11. ASSUME SendMessage PROVE TypeInv'
  BY <1>11, JobParts DEF SendMessage, WorkerPc, Goto, CurrentEnvio
<1>12. ASSUME AttemptFails PROVE TypeInv'
  <2>1. CurrentEnvio \in Envio
    BY <1>12, JobParts DEF AttemptFails, CurrentEnvio
  <2>2. delivered' \in [Envio -> Nat]
    BY <1>12, <2>1 DEF AttemptFails
  <2> QED
    BY <1>12, <2>2 DEF AttemptFails, WorkerPc, Goto
<1>13. ASSUME MarkSent PROVE TypeInv'
  <2>1. CurrentEnvio \in Envio
    BY <1>13, JobParts DEF MarkSent, CurrentEnvio
  <2>2. envio' \in [Envio -> RowStatus]
    BY <1>13, <2>1 DEF MarkSent, RowStatus
  <2>3. worker' = [worker EXCEPT !.pc = "threw"] \/ worker' = [worker EXCEPT !.pc = "reading"]
    BY <1>13 DEF MarkSent, Goto
  <2> QED
    BY <1>13, <2>2, <2>3 DEF MarkSent, WorkerPc
<1>14. ASSUME ReadOutcome PROVE TypeInv'
  BY <1>14 DEF ReadOutcome, WorkerPc, Goto
<1>15. ASSUME ApplySent PROVE TypeInv'
  BY SMTT(30), <1>15, WriteType, JobParts DEF ApplySent, WorkerPc, Goto, RowStatus, CurrentEnvio
<1>16. ASSUME SettleSent PROVE TypeInv'
  BY <1>16 DEF SettleSent, WorkerPc, Goto
<1>17. ASSUME StepFails PROVE TypeInv'
  BY <1>17, SpendType DEF StepFails, WorkerPc, Goto, FaultKinds
<1>18. ASSUME CompleteJob PROVE TypeInv'
  BY <1>18 DEF CompleteJob, WorkerPc, JobRow, IdleWorker
<1>19. ASSUME FailJob PROVE TypeInv'
  <2> DEFINE made == jobs[worker.job].made + 1
             state == IF Exhausted(made) THEN "failed" ELSE "wait"
             row == [jobs[worker.job] EXCEPT !.made = made, !.state = state]
  <2>1. worker.job \in Job /\ made \in 0 .. MaxAttempts
    BY <1>19, BoundsAssumption DEF FailJob, JobRow
  <2>2. state \in {"failed", "wait"} /\ (state = "wait" => made < MaxAttempts)
    BY <2>1, BoundsAssumption DEF Exhausted
  <2>3. jobs' = [jobs EXCEPT ![worker.job] = row]
    BY <1>19 DEF FailJob
  <2>4. finalizers' \in [Job -> FinalizerPc]
    BY <1>19 DEF FailJob, FinalizerPc
  <2> HIDE DEF made, state
  <2>5. row \in JobRow /\ row.state = state /\ row.made = made
    BY ZenonT(60), <2>1, <2>2 DEF JobRow
  <2> HIDE DEF row
  <2>6. jobs' \in [Job -> JobRow] /\ AttemptsLeft'
    BY <2>1, <2>2, <2>3, <2>5
  <2> QED
    BY <1>19, <2>4, <2>6 DEF FailJob, WorkerPc, IdleWorker
<1>20. ASSUME LoseAck PROVE TypeInv'
  BY <1>20, SpendType DEF LoseAck, WorkerPc, IdleWorker, FaultKinds
<1>21. ASSUME NEW j \in Job, BeginFinalize(j) PROVE TypeInv'
  BY <1>21, JobParts DEF BeginFinalize, FinalizerPc, MoveTo
<1>22. ASSUME NEW j \in Job, MarkFailed(j) PROVE TypeInv'
  BY <1>22, JobParts DEF MarkFailed, FinalizerPc, MoveTo, RowStatus
<1>23. ASSUME NEW j \in Job, ReadFailedOutcome(j) PROVE TypeInv'
  BY <1>23, JobParts DEF ReadFailedOutcome, FinalizerPc, MoveTo
<1>24. ASSUME NEW j \in Job, ApplyFailed(j) PROVE TypeInv'
  <2>1. j[1][1] \in Recipient
    BY JobParts
  <2>2. recipient' \in [Recipient -> RowStatus] /\ campaign' \in [Campaigns -> CampaignRow]
    BY <1>24, <2>1, WriteType DEF ApplyFailed, RowStatus
  <2>3. finalizers' \in [Job -> FinalizerPc]
    BY <1>24 DEF ApplyFailed, FinalizerPc, MoveTo
  <2> QED
    BY <1>24, <2>2, <2>3 DEF ApplyFailed
<1>25. ASSUME NEW j \in Job, SettleFailed(j) PROVE TypeInv'
  BY <1>25, JobParts DEF SettleFailed, FinalizerPc, MoveTo
<1>26. ASSUME NEW j \in Job, PushDeadLetter(j) PROVE TypeInv'
  BY <1>26, JobParts DEF PushDeadLetter, FinalizerPc, MoveTo
<1>27. ASSUME NEW j \in Job, FinalizeFails(j) PROVE TypeInv'
  BY <1>27, SpendType DEF FinalizeFails, FinalizerPc, MoveTo, FaultKinds
<1>28. ASSUME ClearHistory PROVE TypeInv'
  BY <1>28, SpendType DEF ClearHistory, CampaignRow, RowStatus, NoCampaign, FaultKinds
<1>29. ASSUME NEW k \in Contacts, RemoveContact(k) PROVE TypeInv'
  BY <1>29, SpendType DEF RemoveContact, RowStatus, FaultKinds
<1>30. ASSUME NEW k \in Contacts, EditContact(k) PROVE TypeInv'
  BY <1>30, SpendType DEF EditContact, FaultKinds
<1>31. ASSUME NEW k \in Contacts, ValidateContact(k) PROVE TypeInv'
  BY <1>31 DEF ValidateContact
<1>32. ASSUME ChangeSessionStatus PROVE TypeInv'
  BY <1>32 DEF ChangeSessionStatus
<1>33. ASSUME Crash PROVE TypeInv'
  BY <1>33, SpendType DEF Crash, WorkerPc, FinalizerPc, RequestPc, IdleWorker, FaultKinds
<1>34. CASE UNCHANGED vars
  BY <1>34 DEF vars
<1> QED
  BY <1>1, <1>2, <1>3, <1>4, <1>5, <1>6, <1>7, <1>8, <1>9, <1>10, <1>11, <1>12, <1>13, <1>14,
     <1>15, <1>16, <1>17, <1>18, <1>19, <1>20, <1>21, <1>22, <1>23, <1>24, <1>25, <1>26, <1>27,
     <1>28, <1>29, <1>30, <1>31, <1>32, <1>33, <1>34
     DEF Next, Request, Process, Finalize, Disturbance

\* Type correctness (TypeOK): in every reachable state each table, job, counter
\* and handler holds a value of its type; no job is attempted more than
\* MaxAttempts times and the wallet is never overdrawn (schema.prisma 564-567).
THEOREM TypeCorrect == Spec => []TypeOK
<1>1. Spec => []TypeInv
  BY TypeInvInit, TypeInvStep, PTL DEF Spec
<1>2. TypeInv => TypeOK
  BY DEF TypeInv
<1> QED
  BY <1>1, <1>2, PTL

-----------------------------------------------------------------------------
(* Only what was handed to WhatsApp is recorded as sent *)

\* The envios of a recipient, one per message.
LEMMA RecipientEnvios == \A r \in Recipient, m \in Messages : <<r, m>> \in Envio
BY DEF Envio

LEMMA DeliveredInit == Init => DeliveredInv
BY RecipientEnvios DEF Init, DeliveredInv, SentMeansDelivered, IdleWorker

\* Every step preserves DeliveredInv, from the type invariant.
LEMMA DeliveredStep == TypeInv /\ DeliveredInv /\ [Next]_vars => DeliveredInv'
<1> SUFFICES ASSUME TypeInv, DeliveredInv, [Next]_vars PROVE DeliveredInv'
  OBVIOUS
<1> USE DEF TypeInv, TypeOK, WorkerHoldsJob, DeliveredInv, SentMeansDelivered
<1> DEFINE Quiet == /\ UNCHANGED <<envio, recipient, delivered>>
                    /\ \/ worker'.pc = worker.pc /\ worker'.job = worker.job
                       \/ worker'.pc \notin {"marking", "writing"}
<1>0. ASSUME Quiet PROVE DeliveredInv'
  BY <1>0 DEF CurrentEnvio
<1>1. ASSUME NEW c \in Campaigns, NEW chosen \in SUBSET Contacts, CreateCampaign(c, chosen)
      PROVE  DeliveredInv'
  <2>1. \A e \in Envio : envio'[e] \in {"PENDENTE", envio[e]}
    BY <1>1 DEF CreateCampaign
  <2>2. \A r \in Recipient : recipient'[r] \in {"PENDENTE", recipient[r]}
    BY <1>1 DEF CreateCampaign
  <2> QED
    BY <1>1, <2>1, <2>2 DEF CreateCampaign, CurrentEnvio
<1>2. ASSUME NEW c \in Campaigns, EnqueueCampaign(c) PROVE DeliveredInv'
  BY <1>2, <1>0 DEF EnqueueCampaign, dbVars, processVars
<1>3. ASSUME NEW c \in Campaigns, CountPending(c) PROVE DeliveredInv'
  BY <1>3, <1>0 DEF CountPending, dbVars, processVars
<1>4. ASSUME NEW c \in Campaigns, EnsureWorker(c) PROVE DeliveredInv'
  BY <1>4, <1>0 DEF EnsureWorker, dbVars, processVars
<1>5. ASSUME NEW c \in Campaigns, RequestFails(c) PROVE DeliveredInv'
  BY <1>5, <1>0 DEF RequestFails, dbVars, processVars
<1>6. ASSUME NEW j \in Job, TakeJob(j) PROVE DeliveredInv'
  BY <1>6, <1>0 DEF TakeJob, dbVars, processVars
<1>7. ASSUME NEW j \in Job, RecoverStalled(j) PROVE DeliveredInv'
  BY <1>7, <1>0 DEF RecoverStalled, dbVars, processVars
<1>8. ASSUME SkipResolved PROVE DeliveredInv'
  BY <1>8, <1>0 DEF SkipResolved, dbVars, processVars, Goto
<1>9. ASSUME NEW n \in 1 .. MaxReschedules, Reschedule(n) PROVE DeliveredInv'
  BY <1>9, <1>0 DEF Reschedule, dbVars, processVars, Goto
<1>10. ASSUME BeginAttempt PROVE DeliveredInv'
  BY <1>10, <1>0 DEF BeginAttempt, dbVars, processVars
<1>11. ASSUME SendMessage PROVE DeliveredInv'
  <2>1. CurrentEnvio \in Envio
    BY <1>11, JobParts DEF SendMessage, CurrentEnvio
  <2>2. /\ delivered'[CurrentEnvio] > 0
        /\ \A e \in Envio : delivered[e] > 0 => delivered'[e] > 0
    BY <1>11, <2>1 DEF SendMessage
  <2>3. worker'.pc = "marking" /\ CurrentEnvio' = CurrentEnvio
    BY <1>11 DEF SendMessage, Goto, CurrentEnvio
  <2> QED
    BY <1>11, <2>2, <2>3, RecipientEnvios DEF SendMessage, dbVars
<1>12. ASSUME AttemptFails PROVE DeliveredInv'
  <2>1. CurrentEnvio \in Envio
    BY <1>12, JobParts DEF AttemptFails, CurrentEnvio
  <2>2. \A e \in Envio : delivered[e] > 0 => delivered'[e] > 0
    BY <1>12, <2>1 DEF AttemptFails
  <2>3. worker'.pc = "threw"
    BY <1>12 DEF AttemptFails, Goto
  <2> QED
    BY <1>12, <2>2, <2>3, RecipientEnvios DEF AttemptFails, dbVars
<1>13. ASSUME MarkSent PROVE DeliveredInv'
  <2>1. CurrentEnvio \in Envio /\ delivered[CurrentEnvio] > 0
    BY <1>13, JobParts DEF MarkSent, CurrentEnvio
  <2>2. \A e \in Envio : envio'[e] = "ENVIADO" => envio[e] = "ENVIADO" \/ e = CurrentEnvio
    BY <1>13, <2>1 DEF MarkSent
  <2>3. worker'.pc \notin {"marking", "writing"}
    BY <1>13 DEF MarkSent, Goto
  <2> QED
    BY <1>13, <2>1, <2>2, <2>3 DEF MarkSent
<1>14. ASSUME ReadOutcome PROVE DeliveredInv'
  <2>1. CurrentEnvio[1] \in Recipient
    BY <1>14, JobParts DEF ReadOutcome, CurrentEnvio
  <2>2. CurrentEnvio' = CurrentEnvio /\ worker'.pc \in {"writing", "settling"}
    BY <1>14 DEF ReadOutcome, Goto, CurrentEnvio
  <2>3. worker'.pc = "writing" => \A m \in Messages : delivered[<<CurrentEnvio[1], m>>] > 0
    BY <1>14, <2>1, RecipientEnvios DEF ReadOutcome, Goto, OutcomeApplies
  <2> QED
    BY <1>14, <2>2, <2>3 DEF ReadOutcome, dbVars
<1>15. ASSUME ApplySent PROVE DeliveredInv'
  <2>1. CurrentEnvio[1] \in Recipient
    BY <1>15, JobParts DEF ApplySent, CurrentEnvio
  <2>2. \A r \in Recipient :
          recipient'[r] = "ENVIADO" => recipient[r] = "ENVIADO" \/ r = CurrentEnvio[1]
    BY <1>15, <2>1 DEF ApplySent, WriteOutcome
  <2>3. worker'.pc \notin {"marking", "writing"}
    BY <1>15 DEF ApplySent, Goto
  <2> QED
    BY <1>15, <2>2, <2>3 DEF ApplySent
<1>16. ASSUME SettleSent PROVE DeliveredInv'
  BY <1>16, <1>0 DEF SettleSent, dbVars, processVars, Goto
<1>17. ASSUME StepFails PROVE DeliveredInv'
  BY <1>17, <1>0 DEF StepFails, dbVars, processVars, Goto
<1>18. ASSUME CompleteJob PROVE DeliveredInv'
  BY <1>18, <1>0 DEF CompleteJob, dbVars, processVars, IdleWorker
<1>19. ASSUME FailJob PROVE DeliveredInv'
  BY <1>19, <1>0 DEF FailJob, dbVars, processVars, IdleWorker
<1>20. ASSUME LoseAck PROVE DeliveredInv'
  BY <1>20, <1>0 DEF LoseAck, dbVars, processVars, IdleWorker
<1>21. ASSUME NEW j \in Job, BeginFinalize(j) PROVE DeliveredInv'
  BY <1>21, <1>0 DEF BeginFinalize, dbVars, processVars
<1>22. ASSUME NEW j \in Job, MarkFailed(j) PROVE DeliveredInv'
  <2>1. \A e \in Envio : envio'[e] \in {"FALHOU", envio[e]}
    BY <1>22, JobParts DEF MarkFailed
  <2> QED
    BY <1>22, <2>1 DEF MarkFailed, CurrentEnvio
<1>23. ASSUME NEW j \in Job, ReadFailedOutcome(j) PROVE DeliveredInv'
  BY <1>23, <1>0 DEF ReadFailedOutcome, dbVars, processVars
<1>24. ASSUME NEW j \in Job, ApplyFailed(j) PROVE DeliveredInv'
  <2>1. \A r \in Recipient : recipient'[r] \in {"FALHOU", recipient[r]}
    BY <1>24, JobParts DEF ApplyFailed, WriteOutcome
  <2> QED
    BY <1>24, <2>1 DEF ApplyFailed, CurrentEnvio
<1>25. ASSUME NEW j \in Job, SettleFailed(j) PROVE DeliveredInv'
  BY <1>25, <1>0 DEF SettleFailed, dbVars, processVars
<1>26. ASSUME NEW j \in Job, PushDeadLetter(j) PROVE DeliveredInv'
  BY <1>26, <1>0 DEF PushDeadLetter, dbVars, processVars
<1>27. ASSUME NEW j \in Job, FinalizeFails(j) PROVE DeliveredInv'
  BY <1>27, <1>0 DEF FinalizeFails, dbVars, processVars
<1>28. ASSUME ClearHistory PROVE DeliveredInv'
  BY <1>28 DEF ClearHistory, processVars, CurrentEnvio
<1>29. ASSUME NEW k \in Contacts, RemoveContact(k) PROVE DeliveredInv'
  BY <1>29 DEF RemoveContact, processVars, CurrentEnvio
<1>30. ASSUME NEW k \in Contacts, EditContact(k) PROVE DeliveredInv'
  BY <1>30, <1>0 DEF EditContact, dbVars, processVars
<1>31. ASSUME NEW k \in Contacts, ValidateContact(k) PROVE DeliveredInv'
  BY <1>31, <1>0 DEF ValidateContact, dbVars, processVars
<1>32. ASSUME ChangeSessionStatus PROVE DeliveredInv'
  BY <1>32, <1>0 DEF ChangeSessionStatus, dbVars, processVars
<1>33. ASSUME Crash PROVE DeliveredInv'
  BY <1>33, <1>0 DEF Crash, dbVars, processVars, IdleWorker
<1>34. CASE UNCHANGED vars
  BY <1>34, <1>0 DEF vars, dbVars, processVars
<1> QED
  BY <1>1, <1>2, <1>3, <1>4, <1>5, <1>6, <1>7, <1>8, <1>9, <1>10, <1>11, <1>12, <1>13, <1>14,
     <1>15, <1>16, <1>17, <1>18, <1>19, <1>20, <1>21, <1>22, <1>23, <1>24, <1>25, <1>26, <1>27,
     <1>28, <1>29, <1>30, <1>31, <1>32, <1>33, <1>34
     DEF Next, Request, Process, Finalize, Disturbance

\* Whatever fails, the history never says ENVIADO of a message that was never
\* handed to WhatsApp, and a recipient counted as sent got every message: markSent
\* and applyRecipientOutcome (processor 160-238).
THEOREM SentIsDelivered == Spec => []SentMeansDelivered
<1>1. Spec => [](TypeInv /\ DeliveredInv)
  BY TypeInvInit, TypeInvStep, DeliveredInit, DeliveredStep, PTL DEF Spec
<1>2. DeliveredInv => SentMeansDelivered
  BY DEF DeliveredInv
<1> QED
  BY <1>1, <1>2, PTL

-----------------------------------------------------------------------------
(* Repeats need a fault *)

LEMMA FreshInit == Init => FreshInv
BY DEF Init, FreshInv, NoJobRow

\* Every step preserves FreshInv, from the type invariant.
LEMMA FreshStep == TypeInv /\ FreshInv /\ [Next]_vars => FreshInv'
<1> SUFFICES ASSUME TypeInv, FreshInv, [Next]_vars PROVE FreshInv'
  OBVIOUS
<1> USE DEF TypeInv, TypeOK, WorkerHoldsJob, FreshInv
<1> DEFINE Quiet == UNCHANGED <<campaign, requests, delivered, jobs>>
<1>0. ASSUME Quiet PROVE FreshInv'
  BY <1>0
<1>1. ASSUME NEW c \in Campaigns, NEW chosen \in SUBSET Contacts, CreateCampaign(c, chosen)
      PROVE  FreshInv'
  <2>1. \A d \in Campaigns : d # c => campaign'[d] = campaign[d] /\ requests'[d] = requests[d]
    BY <1>1 DEF CreateCampaign
  <2>2. campaign'[c].status = "PENDENTE"
    BY <1>1 DEF CreateCampaign
  <2> QED
    BY <1>1, <2>1, <2>2 DEF CreateCampaign
<1>2. ASSUME NEW c \in Campaigns, EnqueueCampaign(c) PROVE FreshInv'
  <2>1. campaign[c].status # "none"
    BY <1>2 DEF EnqueueCampaign
  <2>2. \A j \in Job : j[1][1][1] # c => jobs'[j] = jobs[j]
    BY <1>2 DEF EnqueueCampaign, PendingEnvios
  <2>3. \A d \in Campaigns : d # c => requests'[d] = requests[d]
    BY <1>2 DEF EnqueueCampaign
  <2>4. UNCHANGED <<campaign, delivered>>
    BY <1>2 DEF EnqueueCampaign, dbVars
  <2> QED
    BY <2>1, <2>2, <2>3, <2>4
<1>3. ASSUME NEW c \in Campaigns, CountPending(c) PROVE FreshInv'
  BY <1>3 DEF CountPending
<1>4. ASSUME NEW c \in Campaigns, EnsureWorker(c) PROVE FreshInv'
  BY <1>4 DEF EnsureWorker, dbVars
<1>5. ASSUME NEW c \in Campaigns, RequestFails(c) PROVE FreshInv'
  BY <1>5 DEF RequestFails, dbVars
<1>6. ASSUME NEW j \in Job, TakeJob(j) PROVE FreshInv'
  <2>1. campaign[j[1][1][1]].status # "none"
    BY <1>6, JobParts DEF TakeJob
  <2>2. \A i \in Job : i # j => jobs'[i] = jobs[i]
    BY <1>6 DEF TakeJob
  <2> QED
    BY <1>6, <2>1, <2>2 DEF TakeJob, dbVars
<1>7. ASSUME NEW j \in Job, RecoverStalled(j) PROVE FreshInv'
  <2>1. campaign[j[1][1][1]].status # "none"
    BY <1>7, JobParts DEF RecoverStalled
  <2>2. \A i \in Job : i # j => jobs'[i] = jobs[i]
    BY <1>7 DEF RecoverStalled
  <2> QED
    BY <1>7, <2>1, <2>2 DEF RecoverStalled, dbVars, processVars
<1>8. ASSUME SkipResolved PROVE FreshInv'
  BY <1>8, <1>0 DEF SkipResolved, dbVars, processVars
<1>9. ASSUME NEW n \in 1 .. MaxReschedules, Reschedule(n) PROVE FreshInv'
  <2>1. campaign[CurrentEnvio[1][1]].status # "none" /\ CurrentEnvio \in Envio
    BY <1>9, JobParts DEF Reschedule, CurrentEnvio
  <2>2. \A i \in Job : i[1] # CurrentEnvio => jobs'[i] = jobs[i]
    BY <1>9 DEF Reschedule
  <2> QED
    BY <1>9, <2>1, <2>2 DEF Reschedule, dbVars
<1>10. ASSUME BeginAttempt PROVE FreshInv'
  BY <1>10, <1>0 DEF BeginAttempt, dbVars, processVars
<1>11. ASSUME SendMessage PROVE FreshInv'
  <2>1. campaign[CurrentEnvio[1][1]].status # "none" /\ CurrentEnvio \in Envio
    BY <1>11, JobParts DEF SendMessage, CurrentEnvio
  <2>2. \A e \in Envio : e # CurrentEnvio => delivered'[e] = delivered[e]
    BY <1>11 DEF SendMessage
  <2> QED
    BY <1>11, <2>1, <2>2 DEF SendMessage, dbVars
<1>12. ASSUME AttemptFails PROVE FreshInv'
  <2>1. campaign[CurrentEnvio[1][1]].status # "none" /\ CurrentEnvio \in Envio
    BY <1>12, JobParts DEF AttemptFails, CurrentEnvio
  <2>2. \A e \in Envio : e # CurrentEnvio => delivered'[e] = delivered[e]
    BY <1>12 DEF AttemptFails
  <2> QED
    BY <1>12, <2>1, <2>2 DEF AttemptFails, dbVars
<1>13. ASSUME MarkSent PROVE FreshInv'
  BY <1>13, <1>0 DEF MarkSent, dbVars, processVars
<1>14. ASSUME ReadOutcome PROVE FreshInv'
  BY <1>14, <1>0 DEF ReadOutcome, dbVars, processVars
<1>15. ASSUME ApplySent PROVE FreshInv'
  <2>1. campaign[CurrentEnvio[1][1]].status # "none" /\ CurrentEnvio \in Envio
    BY <1>15, JobParts DEF ApplySent, CurrentEnvio
  <2>2. \A c \in Campaigns : c # CurrentEnvio[1][1] => campaign'[c] = campaign[c]
    BY <1>15 DEF ApplySent, WriteOutcome
  <2>3. campaign'[CurrentEnvio[1][1]].status # "none"
    BY <1>15, <2>1 DEF ApplySent, WriteOutcome, CampaignAfter, DoneIfFinished, Envio, Recipient
  <2> QED
    BY <1>15, <2>1, <2>2, <2>3 DEF ApplySent
<1>16. ASSUME SettleSent PROVE FreshInv'
  BY <1>16, <1>0 DEF SettleSent, dbVars, processVars
<1>17. ASSUME StepFails PROVE FreshInv'
  BY <1>17, <1>0 DEF StepFails, dbVars, processVars
<1>18. ASSUME CompleteJob PROVE FreshInv'
  <2>1. campaign[worker.job[1][1][1]].status # "none"
    BY <1>18, JobParts DEF CompleteJob
  <2>2. \A i \in Job : i # worker.job => jobs'[i] = jobs[i]
    BY <1>18 DEF CompleteJob
  <2> QED
    BY <1>18, <2>1, <2>2 DEF CompleteJob, dbVars
<1>19. ASSUME FailJob PROVE FreshInv'
  <2>1. campaign[worker.job[1][1][1]].status # "none"
    BY <1>19, JobParts DEF FailJob
  <2>2. \A i \in Job : i # worker.job => jobs'[i] = jobs[i]
    BY <1>19 DEF FailJob
  <2> QED
    BY <1>19, <2>1, <2>2 DEF FailJob, dbVars
<1>20. ASSUME LoseAck PROVE FreshInv'
  BY <1>20, <1>0 DEF LoseAck, dbVars, processVars
<1>21. ASSUME NEW j \in Job, BeginFinalize(j) PROVE FreshInv'
  BY <1>21, <1>0 DEF BeginFinalize, dbVars, processVars
<1>22. ASSUME NEW j \in Job, MarkFailed(j) PROVE FreshInv'
  BY <1>22, <1>0 DEF MarkFailed, dbVars, processVars
<1>23. ASSUME NEW j \in Job, ReadFailedOutcome(j) PROVE FreshInv'
  BY <1>23, <1>0 DEF ReadFailedOutcome, dbVars, processVars
<1>24. ASSUME NEW j \in Job, ApplyFailed(j) PROVE FreshInv'
  <2>1. \A c \in Campaigns : c # j[1][1][1] => campaign'[c] = campaign[c]
    BY <1>24 DEF ApplyFailed, WriteOutcome
  <2>2. campaign'[j[1][1][1]].status = "none" => campaign[j[1][1][1]].status = "none"
    BY <1>24, JobParts DEF ApplyFailed, WriteOutcome, CampaignAfter, DoneIfFinished
  <2> QED
    BY <1>24, <2>1, <2>2 DEF ApplyFailed
<1>25. ASSUME NEW j \in Job, SettleFailed(j) PROVE FreshInv'
  BY <1>25, <1>0 DEF SettleFailed, dbVars, processVars
<1>26. ASSUME NEW j \in Job, PushDeadLetter(j) PROVE FreshInv'
  BY <1>26, <1>0 DEF PushDeadLetter, dbVars, processVars
<1>27. ASSUME NEW j \in Job, FinalizeFails(j) PROVE FreshInv'
  BY <1>27, <1>0 DEF FinalizeFails, dbVars, processVars
<1>28. ASSUME ClearHistory PROVE FreshInv'
  <2>1. \A c \in Campaigns : campaign'[c].status = "none" => campaign[c].status = "none"
    BY <1>28 DEF ClearHistory, NoCampaign
  <2> QED
    BY <1>28, <2>1 DEF ClearHistory, processVars
<1>29. ASSUME NEW k \in Contacts, RemoveContact(k) PROVE FreshInv'
  BY <1>29, <1>0 DEF RemoveContact, dbVars, processVars
<1>30. ASSUME NEW k \in Contacts, EditContact(k) PROVE FreshInv'
  BY <1>30, <1>0 DEF EditContact, dbVars, processVars
<1>31. ASSUME NEW k \in Contacts, ValidateContact(k) PROVE FreshInv'
  BY <1>31, <1>0 DEF ValidateContact, dbVars, processVars
<1>32. ASSUME ChangeSessionStatus PROVE FreshInv'
  BY <1>32, <1>0 DEF ChangeSessionStatus, dbVars, processVars
<1>33. ASSUME Crash PROVE FreshInv'
  <2>1. \A c \in Campaigns : requests[c].pc = "none" => requests'[c].pc = "none"
    BY <1>33 DEF Crash
  <2> QED
    BY <1>33, <2>1 DEF Crash, dbVars
<1>34. CASE UNCHANGED vars
  BY <1>34, <1>0 DEF vars, dbVars, processVars
<1> QED
  BY <1>1, <1>2, <1>3, <1>4, <1>5, <1>6, <1>7, <1>8, <1>9, <1>10, <1>11, <1>12, <1>13, <1>14,
     <1>15, <1>16, <1>17, <1>18, <1>19, <1>20, <1>21, <1>22, <1>23, <1>24, <1>25, <1>26, <1>27,
     <1>28, <1>29, <1>30, <1>31, <1>32, <1>33, <1>34
     DEF Next, Request, Process, Finalize, Disturbance

\* Faults so far are a number, and each crash or failed transaction is one more.
LEMMA FaultsCount ==
    ASSUME TypeInv
    PROVE  /\ FaultsSoFar \in Nat
           /\ budget' = budget => FaultsSoFar' = FaultsSoFar
<1>1. FaultsSoFar \in Nat
  BY BoundsAssumption DEF TypeInv, TypeOK, BudgetSpent, FaultsSoFar, FaultKinds
<1> QED
  BY <1>1 DEF FaultsSoFar

LEMMA SpentFault ==
    ASSUME TypeInv, NEW kind \in FaultKinds, Spend(kind)
    PROVE  FaultsSoFar' = IF kind \in {"crash", "infra"} THEN FaultsSoFar + 1 ELSE FaultsSoFar
BY BoundsAssumption DEF TypeInv, TypeOK, FaultsSoFar, FaultKinds, Spend

LEMMA RepeatInit == Init => RepeatInv
<1> SUFFICES ASSUME Init PROVE RepeatInv
  OBVIOUS
<1>1. FaultsSoFar = 0
  BY BoundsAssumption DEF Init, FaultsSoFar, FaultKinds
<1> QED
  BY <1>1 DEF Init, RepeatInv, WorkingOn, IdleWorker

\* Every step preserves RepeatInv.  A step is quiet when it delivers nothing,
\* makes no envio PENDENTE, starts no attempt, and leaves "marking" only by a fault.
LEMMA RepeatStep == TypeInv /\ FreshInv /\ RepeatInv /\ [Next]_vars => RepeatInv'
<1> SUFFICES ASSUME TypeInv, FreshInv, RepeatInv, [Next]_vars PROVE RepeatInv'
  OBVIOUS
<1> USE DEF TypeInv, TypeOK, WorkerHoldsJob, RepeatInv, WorkingOn, CurrentEnvio
<1> DEFINE Quiet ==
        /\ delivered' = delivered
        /\ \A e \in Envio : envio'[e] = "PENDENTE" => envio[e] = "PENDENTE"
        /\ \/ FaultsSoFar' = FaultsSoFar
              /\ \/ worker'.pc = worker.pc /\ worker'.job = worker.job
                 \/ worker'.pc # "sending" /\ worker.pc # "marking"
           \/ FaultsSoFar' = FaultsSoFar + 1
              /\ \/ worker'.pc = worker.pc /\ worker'.job = worker.job
                 \/ worker'.pc # "sending"
<1>0. ASSUME Quiet PROVE RepeatInv'
  BY <1>0, FaultsCount
<1> HIDE DEF WorkingOn, CurrentEnvio, RepeatInv
<1>1. ASSUME NEW c \in Campaigns, NEW chosen \in SUBSET Contacts, CreateCampaign(c, chosen)
      PROVE  RepeatInv'
  <2>1. \A e \in Envio : envio'[e] = "PENDENTE" => envio[e] = "PENDENTE" \/ delivered[e] = 0
    BY <1>1 DEF CreateCampaign, FreshInv
  <2>2. UNCHANGED <<delivered, worker, budget>>
    BY <1>1 DEF CreateCampaign
  <2> QED
    BY <2>1, <2>2, FaultsCount DEF RepeatInv, WorkingOn, CurrentEnvio
<1>2. ASSUME NEW c \in Campaigns, EnqueueCampaign(c) PROVE RepeatInv'
  BY <1>2, <1>0, FaultsCount DEF EnqueueCampaign, dbVars, processVars
<1>3. ASSUME NEW c \in Campaigns, CountPending(c) PROVE RepeatInv'
  BY <1>3, <1>0, FaultsCount DEF CountPending, dbVars, processVars
<1>4. ASSUME NEW c \in Campaigns, EnsureWorker(c) PROVE RepeatInv'
  BY <1>4, <1>0, FaultsCount DEF EnsureWorker, dbVars, processVars
<1>5. ASSUME NEW c \in Campaigns, RequestFails(c) PROVE RepeatInv'
  BY <1>5, <1>0, FaultsCount, SpentFault DEF RequestFails, dbVars, processVars, FaultKinds
<1>6. ASSUME NEW j \in Job, TakeJob(j) PROVE RepeatInv'
  BY <1>6, <1>0, FaultsCount DEF TakeJob, dbVars, processVars
<1>7. ASSUME NEW j \in Job, RecoverStalled(j) PROVE RepeatInv'
  BY <1>7, <1>0, FaultsCount DEF RecoverStalled, dbVars, processVars
<1>8. ASSUME SkipResolved PROVE RepeatInv'
  BY <1>8, <1>0, FaultsCount DEF SkipResolved, dbVars, processVars, Goto
<1>9. ASSUME NEW n \in 1 .. MaxReschedules, Reschedule(n) PROVE RepeatInv'
  BY <1>9, <1>0, FaultsCount DEF Reschedule, dbVars, processVars, Goto
<1>10. ASSUME BeginAttempt PROVE RepeatInv'
  <2>1. envio[CurrentEnvio] = "PENDENTE" /\ worker.pc = "claimed"
    BY <1>10 DEF BeginAttempt, Unresolved
  <2>2. worker'.pc = "sending" /\ worker'.job = worker.job
    BY <1>10 DEF BeginAttempt
  <2>3. UNCHANGED <<envio, delivered, budget>>
    BY <1>10 DEF BeginAttempt, dbVars
  <2> QED
    BY <2>1, <2>2, <2>3, FaultsCount DEF RepeatInv, WorkingOn, CurrentEnvio
<1>11. ASSUME SendMessage PROVE RepeatInv'
  <2>1. worker.pc = "sending" /\ worker'.pc = "marking" /\ worker'.job = worker.job
    BY <1>11 DEF SendMessage, Goto
  <2>2. CurrentEnvio \in Envio /\ delivered'[CurrentEnvio] = delivered[CurrentEnvio] + 1
    BY <1>11, JobParts DEF SendMessage, CurrentEnvio
  <2>3. \A e \in Envio : e # CurrentEnvio => delivered'[e] = delivered[e]
    BY <1>11 DEF SendMessage
  <2>4. UNCHANGED <<envio, budget>>
    BY <1>11 DEF SendMessage, dbVars
  <2> QED
    BY <2>1, <2>2, <2>3, <2>4, FaultsCount DEF RepeatInv, WorkingOn, CurrentEnvio
<1>12. ASSUME AttemptFails PROVE RepeatInv'
  <2>1. worker.pc = "sending" /\ worker'.pc = "threw"
    BY <1>12 DEF AttemptFails, Goto
  <2>2. \A e \in Envio : e[2] \notin SplitMessages => delivered'[e] = delivered[e]
    BY <1>12 DEF AttemptFails
  <2>3. UNCHANGED <<envio, budget>>
    BY <1>12 DEF AttemptFails, dbVars
  <2> QED
    BY <2>1, <2>2, <2>3, FaultsCount DEF RepeatInv, WorkingOn, CurrentEnvio
<1>13. ASSUME MarkSent PROVE RepeatInv'
  <2>1. worker.pc = "marking" /\ worker'.pc \notin {"marking", "sending"}
    BY <1>13 DEF MarkSent, Goto
  <2>2. \A e \in Envio : envio'[e] = "PENDENTE" => envio[e] = "PENDENTE" /\ e # CurrentEnvio
    BY <1>13 DEF MarkSent
  <2>3. UNCHANGED <<delivered, budget>>
    BY <1>13 DEF MarkSent
  <2> QED
    BY <2>1, <2>2, <2>3, FaultsCount DEF RepeatInv, WorkingOn, CurrentEnvio
<1>14. ASSUME ReadOutcome PROVE RepeatInv'
  BY <1>14, <1>0, FaultsCount DEF ReadOutcome, dbVars, processVars, Goto
<1>15. ASSUME ApplySent PROVE RepeatInv'
  BY <1>15, <1>0, FaultsCount DEF ApplySent, dbVars, processVars, Goto
<1>16. ASSUME SettleSent PROVE RepeatInv'
  BY <1>16, <1>0, FaultsCount DEF SettleSent, dbVars, processVars, Goto
<1>17. ASSUME StepFails PROVE RepeatInv'
  BY <1>17, <1>0, FaultsCount, SpentFault DEF StepFails, dbVars, processVars, Goto, FaultKinds
<1>18. ASSUME CompleteJob PROVE RepeatInv'
  BY <1>18, <1>0, FaultsCount DEF CompleteJob, dbVars, processVars, IdleWorker
<1>19. ASSUME FailJob PROVE RepeatInv'
  BY <1>19, <1>0, FaultsCount DEF FailJob, dbVars, processVars, IdleWorker
<1>20. ASSUME LoseAck PROVE RepeatInv'
  BY <1>20, <1>0, FaultsCount, SpentFault DEF LoseAck, dbVars, processVars, IdleWorker, FaultKinds
<1>21. ASSUME NEW j \in Job, BeginFinalize(j) PROVE RepeatInv'
  BY <1>21, <1>0, FaultsCount DEF BeginFinalize, dbVars, processVars
<1>22. ASSUME NEW j \in Job, MarkFailed(j) PROVE RepeatInv'
  <2>1. \A e \in Envio : envio'[e] = "PENDENTE" => envio[e] = "PENDENTE"
    BY <1>22, JobParts DEF MarkFailed
  <2> QED
    BY <1>22, <1>0, <2>1, FaultsCount DEF MarkFailed
<1>23. ASSUME NEW j \in Job, ReadFailedOutcome(j) PROVE RepeatInv'
  BY <1>23, <1>0, FaultsCount DEF ReadFailedOutcome, dbVars, processVars
<1>24. ASSUME NEW j \in Job, ApplyFailed(j) PROVE RepeatInv'
  BY <1>24, <1>0, FaultsCount DEF ApplyFailed, dbVars, processVars
<1>25. ASSUME NEW j \in Job, SettleFailed(j) PROVE RepeatInv'
  BY <1>25, <1>0, FaultsCount DEF SettleFailed, dbVars, processVars
<1>26. ASSUME NEW j \in Job, PushDeadLetter(j) PROVE RepeatInv'
  BY <1>26, <1>0, FaultsCount DEF PushDeadLetter, dbVars, processVars
<1>27. ASSUME NEW j \in Job, FinalizeFails(j) PROVE RepeatInv'
  BY <1>27, <1>0, FaultsCount, SpentFault DEF FinalizeFails, dbVars, processVars, FaultKinds
<1>28. ASSUME ClearHistory PROVE RepeatInv'
  BY <1>28, <1>0, FaultsCount, SpentFault DEF ClearHistory, dbVars, processVars, FaultKinds
<1>29. ASSUME NEW k \in Contacts, RemoveContact(k) PROVE RepeatInv'
  BY <1>29, <1>0, FaultsCount, SpentFault DEF RemoveContact, dbVars, processVars, FaultKinds
<1>30. ASSUME NEW k \in Contacts, EditContact(k) PROVE RepeatInv'
  BY <1>30, <1>0, FaultsCount, SpentFault DEF EditContact, dbVars, processVars, FaultKinds
<1>31. ASSUME NEW k \in Contacts, ValidateContact(k) PROVE RepeatInv'
  BY <1>31, <1>0, FaultsCount DEF ValidateContact, dbVars, processVars
<1>32. ASSUME ChangeSessionStatus PROVE RepeatInv'
  BY <1>32, <1>0, FaultsCount DEF ChangeSessionStatus, dbVars, processVars
<1>33. ASSUME Crash PROVE RepeatInv'
  BY <1>33, <1>0, FaultsCount, SpentFault DEF Crash, dbVars, processVars, IdleWorker, FaultKinds
<1>34. CASE UNCHANGED vars
  BY <1>34, <1>0, FaultsCount DEF vars, dbVars, processVars
<1> QED
  BY <1>1, <1>2, <1>3, <1>4, <1>5, <1>6, <1>7, <1>8, <1>9, <1>10, <1>11, <1>12, <1>13, <1>14,
     <1>15, <1>16, <1>17, <1>18, <1>19, <1>20, <1>21, <1>22, <1>23, <1>24, <1>25, <1>26, <1>27,
     <1>28, <1>29, <1>30, <1>31, <1>32, <1>33, <1>34
     DEF Next, Request, Process, Finalize, Disturbance

\* Idempotence of process (processor 77-83): redelivered, retried and rescheduled
\* jobs never repeat a message that leaves whole or not at all; it takes a crash or
\* a failed transaction between the send and its record, once per repetition.
THEOREM RepeatsAreFaults == Spec => []RepeatsNeedAFault
<1>1. Spec => [](TypeInv /\ FreshInv /\ RepeatInv)
  BY TypeInvInit, TypeInvStep, FreshInit, FreshStep, RepeatInit, RepeatStep, PTL DEF Spec
<1>2. RepeatInv => RepeatsNeedAFault
  BY DEF RepeatInv, RepeatsNeedAFault
<1> QED
  BY <1>1, <1>2, PTL

=============================================================================
