-------------------------- MODULE SendOutcomeProofs --------------------------
(***************************************************************************)
(* What becomes of the recipients of SendPipeline, for every number of     *)
(* campaigns, contacts, messages, attempts and reschedulings: outcomes are *)
(* final, recipients reflect their envios, nobody is forgotten, and the    *)
(* counters of campaigns and session are exact.                            *)
(*                                                                         *)
(* The code promises none of this after a transaction of a handler failed, *)
(* so the theorems assume that none does; each names what else it sets     *)
(* aside.  Crashes, lost acknowledgements, deletions and overlapping       *)
(* listeners are set aside only where they break the property.             *)
(***************************************************************************)
EXTENDS SendPipelineProofs

-----------------------------------------------------------------------------
(* Assumptions on the faults *)

\* No transaction of a handler fails after an earlier one committed.
NoFailedTransaction == Budget["infra"] = 0

\* A job is not delivered again after it rescheduled its envio: there is no rescheduling, or the end of
\* every job is recorded.
NoReplacedJobRuns == MaxReschedules = 0 \/ (Budget["crash"] = 0 /\ Budget["ack"] = 0)

Sober == NoFailedTransaction /\ NoReplacedJobRuns

\* What the budget does not have is never spent.
LEMMA NeverSpent ==
    ASSUME TypeInv, NEW kind \in FaultKinds, Budget[kind] = 0
    PROVE  ~ Spend(kind)
BY BoundsAssumption DEF TypeInv, TypeOK, BudgetSpent, Spend

-----------------------------------------------------------------------------
(* One actor per envio *)

\* A job that somebody will still process or finalize; one that returned is only to be recorded.
Acting(j) ==
    \/ jobs[j].state = "wait"
    \/ jobs[j].state = "active" /\ ~ (worker.job = j /\ worker.pc = "returned")
    \/ finalizers[j] # "off"

\* Of the jobs of one envio at most one acts.
OneActs == \A i, j \in Job : i[1] = j[1] /\ Acting(i) /\ Acting(j) => i = j

\* A listener runs only once no job of its envio is queued.
ListensLast ==
    \A i, j \in Job : i[1] = j[1] /\ finalizers[i] # "off" =>
        jobs[i].state = "failed" /\ jobs[j].state \notin {"wait", "active"}

\* The job enqueueCampaign adds comes before its reschedulings.
FirstComes == \A i, j \in Job : i[1] = j[1] /\ j[2] = 0 /\ jobs[i].state # "none" => jobs[j].state # "none"

SoloInv == OneActs /\ ListensLast /\ FirstComes

LEMMA SoloInit == Init => SoloInv
BY DEF Init, SoloInv, OneActs, ListensLast, FirstComes, Acting, NoJobRow, IdleWorker

\* The first job of an envio is one.
LEMMA FirstJob == \A i, j \in Job : i[1] = j[1] /\ i[2] = 0 /\ j[2] = 0 => i = j
BY DEF Job

\* Without reschedulings an envio has one job.
LEMMA OneJob == ASSUME MaxReschedules = 0, NEW i \in Job, NEW j \in Job, i[1] = j[1] PROVE i = j
BY DEF Job

\* Every step keeps one actor per envio.
LEMMA SoloStep == ASSUME NoReplacedJobRuns PROVE TypeInv /\ SoloInv /\ [Next]_vars => SoloInv'
<1> SUFFICES ASSUME TypeInv, SoloInv, [Next]_vars PROVE SoloInv'
  OBVIOUS
<1> USE DEF TypeInv, TypeOK, WorkerHoldsJob
<1> DEFINE Fades == /\ jobs' = jobs
                    /\ \A j \in Job : Acting(j)' => Acting(j)
                    /\ \A j \in Job : finalizers'[j] # "off" => finalizers[j] # "off"
<1>0. ASSUME Fades PROVE SoloInv'
  BY <1>0 DEF SoloInv, OneActs, ListensLast, FirstComes
<1> HIDE DEF Fades
<1>1. ASSUME NEW c \in Campaigns, NEW chosen \in SUBSET Contacts, CreateCampaign(c, chosen)
      PROVE  SoloInv'
  BY <1>1, <1>0 DEF Fades, Acting, CreateCampaign, dbVars, processVars
<1>2. ASSUME NEW c \in Campaigns, EnqueueCampaign(c) PROVE SoloInv'
  <2>1. UNCHANGED <<worker, finalizers>>
    BY <1>2 DEF EnqueueCampaign
  <2>2. ASSUME NEW j \in Job
        PROVE  \/ jobs'[j] = jobs[j]
               \/ j[2] = 0 /\ jobs[j].state = "none" /\ jobs'[j].state = "wait"
    BY <1>2 DEF EnqueueCampaign, JobRow
  <2>3. \A i, j \in Job : i[1] = j[1] /\ jobs'[i] # jobs[i] =>
            jobs[j].state = "none" /\ finalizers[j] = "off" /\ (jobs'[j] # jobs[j] => i = j)
    BY <2>2, FirstJob DEF SoloInv, ListensLast, FirstComes
  <2>4. OneActs'
    BY <2>1, <2>2, <2>3 DEF SoloInv, OneActs, Acting
  <2>5. ListensLast'
    BY <2>1, <2>2, <2>3 DEF SoloInv, ListensLast
  <2>6. FirstComes'
    BY <2>2, <2>3, FirstJob DEF SoloInv, FirstComes
  <2> QED
    BY <2>4, <2>5, <2>6 DEF SoloInv
<1>3. ASSUME NEW c \in Campaigns, CountPending(c) PROVE SoloInv'
  BY <1>3, <1>0 DEF Fades, Acting, CountPending, dbVars, processVars
<1>4. ASSUME NEW c \in Campaigns, EnsureWorker(c) PROVE SoloInv'
  BY <1>4, <1>0 DEF Fades, Acting, EnsureWorker, dbVars, processVars
<1>5. ASSUME NEW c \in Campaigns, RequestFails(c) PROVE SoloInv'
  BY <1>5, <1>0 DEF Fades, Acting, RequestFails, dbVars, processVars
<1>6. ASSUME NEW j \in Job, TakeJob(j) PROVE SoloInv'
  <2>1. jobs[j].state = "wait" /\ jobs'[j].state = "active" /\ finalizers' = finalizers
    BY <1>6 DEF TakeJob, JobRow
  <2>2. \A i \in Job : i # j => jobs'[i] = jobs[i]
    BY <1>6 DEF TakeJob
  <2>3. \A i \in Job : Acting(i)' => Acting(i)
    BY <1>6, <2>1, <2>2 DEF TakeJob, Acting
  <2>4. OneActs'
    BY <2>3 DEF SoloInv, OneActs
  <2>5. ListensLast'
    BY SMTT(30), <2>1, <2>2 DEF SoloInv, ListensLast
  <2>6. FirstComes'
    BY SMTT(30), <2>1, <2>2 DEF SoloInv, FirstComes
  <2> QED
    BY <2>4, <2>5, <2>6 DEF SoloInv
<1>7. ASSUME NEW j \in Job, RecoverStalled(j) PROVE SoloInv'
  <2>1. /\ jobs[j].state = "active" /\ jobs'[j].state \in {"wait", "failed"}
        /\ worker.job # j /\ UNCHANGED <<worker, finalizers>>
    BY <1>7 DEF RecoverStalled, processVars, JobRow
  <2>2. \A i \in Job : i # j => jobs'[i] = jobs[i]
    BY <1>7 DEF RecoverStalled
  <2>3. \A i \in Job : Acting(i)' => Acting(i)
    BY <2>1, <2>2 DEF Acting
  <2>4. OneActs'
    BY <2>3 DEF SoloInv, OneActs
  <2>5. ListensLast'
    BY SMTT(30), <2>1, <2>2 DEF SoloInv, ListensLast
  <2>6. FirstComes'
    BY SMTT(30), <2>1, <2>2 DEF SoloInv, FirstComes
  <2> QED
    BY <2>4, <2>5, <2>6 DEF SoloInv
<1>8. ASSUME SkipResolved PROVE SoloInv'
  BY <1>8, <1>0 DEF Fades, Acting, SkipResolved, dbVars, processVars, Goto
<1>9. ASSUME NEW n \in 1 .. MaxReschedules, Reschedule(n) PROVE SoloInv'
  <2> DEFINE new == <<worker.job[1], n>>
  <2>1. worker.job \in Job /\ jobs[worker.job].state = "active" /\ worker.pc = "claimed"
    BY <1>9 DEF Reschedule
  <2>2. new \in Job /\ new[1] = worker.job[1]
    BY <2>1, JobParts, BoundsAssumption DEF Job
  <2>3. /\ jobs[new].state = "none" /\ jobs'[new].state = "wait"
        /\ \A i \in Job : i # new => jobs'[i] = jobs[i]
        /\ finalizers' = finalizers
        /\ worker'.pc = "returned" /\ worker'.job = worker.job
    BY <1>9, <2>2 DEF Reschedule, CurrentEnvio, Goto, JobRow
  <2> HIDE DEF new
  <2>4. \A i \in Job : i[1] = new[1] => finalizers[i] = "off"
    BY <2>1, <2>2 DEF SoloInv, ListensLast
  <2>5. Acting(worker.job) /\ \A i \in Job : Acting(i)' => i = new \/ (Acting(i) /\ i # worker.job)
    <3>1. Acting(worker.job)
      BY <2>1 DEF Acting
    <3>2. ASSUME NEW i \in Job, Acting(i)', i # new PROVE Acting(i) /\ i # worker.job
      <4>1. jobs'[i] = jobs[i] /\ finalizers'[i] = finalizers[i]
        BY <2>3, <3>2
      <4>2. i = worker.job => finalizers[i] = "off"
        BY <2>2, <2>4
      <4> QED
        BY <2>1, <2>3, <3>2, <4>1, <4>2 DEF Acting
    <3> QED
      BY <3>1, <3>2
  <2>6. OneActs'
    BY <2>1, <2>2, <2>5 DEF SoloInv, OneActs
  <2>7. ListensLast'
    BY <2>2, <2>3, <2>4 DEF SoloInv, ListensLast
  <2>8. FirstComes'
    <3>1. \A j \in Job : j[1] = new[1] /\ j[2] = 0 => jobs[j].state # "none"
      BY <2>1, <2>2 DEF SoloInv, FirstComes
    <3> QED
      BY <2>2, <2>3, <3>1 DEF SoloInv, FirstComes
  <2> QED
    BY <2>6, <2>7, <2>8 DEF SoloInv
<1>10. ASSUME BeginAttempt PROVE SoloInv'
  BY <1>10, <1>0 DEF Fades, Acting, BeginAttempt, dbVars, processVars
<1>11. ASSUME SendMessage PROVE SoloInv'
  BY <1>11, <1>0 DEF Fades, Acting, SendMessage, dbVars, processVars, Goto
<1>12. ASSUME AttemptFails PROVE SoloInv'
  BY <1>12, <1>0 DEF Fades, Acting, AttemptFails, dbVars, processVars, Goto
<1>13. ASSUME MarkSent PROVE SoloInv'
  BY <1>13, <1>0 DEF Fades, Acting, MarkSent, dbVars, processVars, Goto
<1>14. ASSUME ReadOutcome PROVE SoloInv'
  BY <1>14, <1>0 DEF Fades, Acting, ReadOutcome, dbVars, processVars, Goto
<1>15. ASSUME ApplySent PROVE SoloInv'
  BY <1>15, <1>0 DEF Fades, Acting, ApplySent, dbVars, processVars, Goto
<1>16. ASSUME SettleSent PROVE SoloInv'
  BY <1>16, <1>0 DEF Fades, Acting, SettleSent, dbVars, processVars, Goto
<1>17. ASSUME StepFails PROVE SoloInv'
  BY <1>17, <1>0 DEF Fades, Acting, StepFails, dbVars, processVars, Goto
<1>18. ASSUME CompleteJob PROVE SoloInv'
  <2>1. /\ worker.job \in Job /\ worker.pc = "returned" /\ jobs[worker.job].state = "active"
        /\ jobs'[worker.job].state = "completed" /\ finalizers' = finalizers
        /\ worker'.job = NoJob /\ worker'.pc = "idle"
    BY <1>18 DEF CompleteJob, IdleWorker, JobRow
  <2>2. \A i \in Job : i # worker.job => jobs'[i] = jobs[i]
    BY <1>18 DEF CompleteJob
  <2>3. \A i \in Job : Acting(i)' => Acting(i)
    BY <2>1, <2>2 DEF Acting
  <2>4. OneActs'
    BY <2>3 DEF SoloInv, OneActs
  <2>5. ListensLast'
    BY SMTT(30), <2>1, <2>2 DEF SoloInv, ListensLast
  <2>6. FirstComes'
    BY SMTT(30), <2>1, <2>2 DEF SoloInv, FirstComes
  <2> QED
    BY <2>4, <2>5, <2>6 DEF SoloInv
<1>19. ASSUME FailJob PROVE SoloInv'
  <2> DEFINE j == worker.job
  <2>1. /\ j \in Job /\ worker.pc = "threw" /\ jobs[j].state = "active"
        /\ jobs'[j].state \in {"failed", "wait"}
        /\ finalizers'[j] # "off" => jobs'[j].state = "failed" \/ finalizers[j] # "off"
        /\ worker'.job = NoJob /\ worker'.pc = "idle"
    BY <1>19 DEF FailJob, IdleWorker, JobRow, Definitive, Exhausted
  <2>2. \A i \in Job : i # j => jobs'[i] = jobs[i] /\ finalizers'[i] = finalizers[i]
    BY <1>19 DEF FailJob
  <2> HIDE DEF j
  <2>3. finalizers[j] = "off" /\ Acting(j)
    BY <2>1 DEF SoloInv, ListensLast, Acting, j
  <2>4. \A i \in Job : Acting(i)' => Acting(i)
    BY <2>1, <2>2, <2>3 DEF Acting, j
  <2>5. \A i \in Job : i[1] = j[1] /\ i # j => ~ Acting(i)
    BY <2>1, <2>3 DEF SoloInv, OneActs
  <2>6. \A i \in Job : i[1] = j[1] /\ i # j => jobs[i].state \notin {"wait", "active"} /\ finalizers[i] = "off"
    BY <2>1, <2>5 DEF Acting, j
  <2>7. OneActs'
    BY <2>4 DEF SoloInv, OneActs
  <2>8. ListensLast'
    BY <2>1, <2>2, <2>3, <2>6 DEF SoloInv, ListensLast
  <2>9. FirstComes'
    BY <2>1, <2>2 DEF SoloInv, FirstComes
  <2> QED
    BY <2>7, <2>8, <2>9 DEF SoloInv
<1>20. ASSUME LoseAck PROVE SoloInv'
  <2>1. CASE MaxReschedules = 0
    <3>1. \A i, j \in Job : i[1] = j[1] => i = j
      BY <2>1, OneJob
    <3>2. jobs' = jobs /\ \A j \in Job : finalizers'[j] # "off" => finalizers[j] # "off"
      BY <1>20 DEF LoseAck
    <3> QED
      BY <3>1, <3>2 DEF SoloInv, OneActs, ListensLast, FirstComes
  <2>2. CASE Budget["ack"] = 0
    BY <1>20, <2>2, NeverSpent DEF LoseAck, FaultKinds
  <2> QED
    BY <2>1, <2>2 DEF NoReplacedJobRuns
<1>21. ASSUME NEW j \in Job, BeginFinalize(j) PROVE SoloInv'
  BY <1>21, <1>0 DEF Fades, Acting, BeginFinalize, dbVars, processVars, MoveTo
<1>22. ASSUME NEW j \in Job, MarkFailed(j) PROVE SoloInv'
  BY <1>22, <1>0 DEF Fades, Acting, MarkFailed, dbVars, processVars, MoveTo
<1>23. ASSUME NEW j \in Job, ReadFailedOutcome(j) PROVE SoloInv'
  BY <1>23, <1>0 DEF Fades, Acting, ReadFailedOutcome, dbVars, processVars, MoveTo
<1>24. ASSUME NEW j \in Job, ApplyFailed(j) PROVE SoloInv'
  BY <1>24, <1>0 DEF Fades, Acting, ApplyFailed, dbVars, processVars, MoveTo
<1>25. ASSUME NEW j \in Job, SettleFailed(j) PROVE SoloInv'
  BY <1>25, <1>0 DEF Fades, Acting, SettleFailed, dbVars, processVars, MoveTo
<1>26. ASSUME NEW j \in Job, PushDeadLetter(j) PROVE SoloInv'
  BY <1>26, <1>0 DEF Fades, Acting, PushDeadLetter, dbVars, processVars, MoveTo
<1>27. ASSUME NEW j \in Job, FinalizeFails(j) PROVE SoloInv'
  BY <1>27, <1>0 DEF Fades, Acting, FinalizeFails, dbVars, processVars, MoveTo
<1>28. ASSUME ClearHistory PROVE SoloInv'
  BY <1>28, <1>0 DEF Fades, Acting, ClearHistory, dbVars, processVars
<1>29. ASSUME NEW k \in Contacts, RemoveContact(k) PROVE SoloInv'
  BY <1>29, <1>0 DEF Fades, Acting, RemoveContact, dbVars, processVars
<1>30. ASSUME NEW k \in Contacts, EditContact(k) PROVE SoloInv'
  BY <1>30, <1>0 DEF Fades, Acting, EditContact, dbVars, processVars
<1>31. ASSUME NEW k \in Contacts, ValidateContact(k) PROVE SoloInv'
  BY <1>31, <1>0 DEF Fades, Acting, ValidateContact, dbVars, processVars
<1>32. ASSUME ChangeSessionStatus PROVE SoloInv'
  BY <1>32, <1>0 DEF Fades, Acting, ChangeSessionStatus, dbVars, processVars
<1>33. ASSUME Crash PROVE SoloInv'
  <2>1. CASE MaxReschedules = 0
    <3>1. \A i, j \in Job : i[1] = j[1] => i = j
      BY <2>1, OneJob
    <3>2. jobs' = jobs /\ \A j \in Job : finalizers'[j] # "off" => finalizers[j] # "off"
      BY <1>33 DEF Crash, dbVars, processVars
    <3> QED
      BY <3>1, <3>2 DEF SoloInv, OneActs, ListensLast, FirstComes
  <2>2. CASE Budget["crash"] = 0
    BY <1>33, <2>2, NeverSpent DEF Crash, FaultKinds
  <2> QED
    BY <2>1, <2>2 DEF NoReplacedJobRuns
<1>34. CASE UNCHANGED vars
  BY <1>34, <1>0 DEF Fades, Acting, vars, dbVars, processVars
<1> QED
  BY <1>1, <1>2, <1>3, <1>4, <1>5, <1>6, <1>7, <1>8, <1>9, <1>10, <1>11, <1>12, <1>13, <1>14,
     <1>15, <1>16, <1>17, <1>18, <1>19, <1>20, <1>21, <1>22, <1>23, <1>24, <1>25, <1>26, <1>27,
     <1>28, <1>29, <1>30, <1>31, <1>32, <1>33, <1>34
     DEF Next, Request, Process, Finalize, Disturbance

-----------------------------------------------------------------------------
(* Outcomes *)

\* The rows of a recipient and of its envios come and go together, and with their campaign.
RowsInv ==
    \A r \in Recipient :
        /\ recipient[r] # "none" => Live(r[1])
        /\ \A m \in Messages : envio[<<r, m>>] = "none" <=> recipient[r] = "none"

\* What a listener and a queued job may find in their envio: whoever gave up on it found it PENDENTE, and
\* nobody else touches it.
ListenerInv ==
    \A j \in Job :
        /\ finalizers[j] \in {"started", "failing"} => envio[j[1]] \in {"none", "PENDENTE"}
        /\ finalizers[j] \in {"reading", "writing", "settling", "pushing"} => envio[j[1]] \in {"none", "FALHOU"}
        /\ jobs[j].state \in {"wait", "active"} => envio[j[1]] # "FALHOU"

\* What the worker may find in the envio it sends, and in its siblings.
WorkerInv ==
    /\ worker.pc \in {"sending", "marking", "threw"} => envio[CurrentEnvio] \in {"none", "PENDENTE"}
    /\ worker.pc \in {"reading", "writing", "settling"} => envio[CurrentEnvio] \in {"none", "ENVIADO"}
    /\ worker.pc = "writing" => \A m \in Messages : envio[<<CurrentEnvio[1], m>>] \in {"none", "ENVIADO"}

FateInv == RowsInv /\ RecipientReflectsEnvios /\ ListenerInv /\ WorkerInv

\* A recipient is its campaign and its contact.
LEMMA RecipientPair == \A r \in Recipient : r[1] \in Campaigns /\ r[2] \in Contacts /\ r = <<r[1], r[2]>>
BY DEF Recipient

\* An envio is its recipient and its message.
LEMMA EnvioPair == \A e \in Envio : e[1] \in Recipient /\ e[2] \in Messages /\ e = <<e[1], e[2]>>
BY DEF Envio

LEMMA FateInit == Init => FateInv
BY RecipientEnvios, JobParts
DEF Init, FateInv, RowsInv, RecipientReflectsEnvios, ListenerInv, WorkerInv, IdleWorker, NoJobRow

\* Every step keeps the outcomes and what the handlers know of them.
LEMMA FateStep ==
    ASSUME Sober
    PROVE  TypeInv /\ FreshInv /\ SoloInv /\ FateInv /\ [Next]_vars => FateInv'
<1> SUFFICES ASSUME TypeInv, FreshInv, SoloInv, FateInv, [Next]_vars PROVE FateInv'
  OBVIOUS
<1> USE DEF TypeInv, TypeOK, WorkerHoldsJob
<1> DEFINE Steady ==
        /\ UNCHANGED <<envio, recipient>>
        /\ \A c \in Campaigns : campaign'[c].status = campaign[c].status
        /\ \A j \in Job : jobs'[j].state \in {"wait", "active"} =>
               jobs[j].state \in {"wait", "active"} \/ envio[j[1]] = "PENDENTE"
        /\ \A j \in Job : finalizers'[j] \in {"off", finalizers[j]}
        /\ \/ worker'.pc = worker.pc /\ worker'.job = worker.job
           \/ worker'.pc \in {"idle", "claimed", "returned"}
<1>0. ASSUME Steady PROVE FateInv'
  <2>1. RowsInv'
    BY <1>0, RecipientPair DEF FateInv, RowsInv, Live
  <2>2. RecipientReflectsEnvios'
    BY <1>0 DEF FateInv, RecipientReflectsEnvios
  <2>3. ListenerInv'
    BY <1>0, JobParts DEF FateInv, ListenerInv
  <2>4. WorkerInv'
    BY <1>0 DEF FateInv, WorkerInv, CurrentEnvio
  <2> QED
    BY <2>1, <2>2, <2>3, <2>4 DEF FateInv
<1>1. ASSUME NEW c \in Campaigns, NEW chosen \in SUBSET Contacts, CreateCampaign(c, chosen)
      PROVE  FateInv'
  <2>1. campaign[c].status = "none" /\ campaign'[c].status = "PENDENTE"
    BY <1>1 DEF CreateCampaign
  <2>2. \A d \in Campaigns : d # c => campaign'[d] = campaign[d]
    BY <1>1 DEF CreateCampaign
  <2>3. \A r \in Recipient : IF r[1] = c /\ r[2] \in chosen
            THEN recipient'[r] = "PENDENTE" /\ \A m \in Messages : envio'[<<r, m>>] = "PENDENTE"
            ELSE recipient'[r] = recipient[r] /\ \A m \in Messages : envio'[<<r, m>>] = envio[<<r, m>>]
    BY <1>1, RecipientEnvios DEF CreateCampaign, Recipient
  <2>4. \A e \in Envio : e[1][1] # c => envio'[e] = envio[e]
    BY <1>1 DEF CreateCampaign
  <2>5. UNCHANGED <<jobs, finalizers, worker>>
    BY <1>1 DEF CreateCampaign
  <2>6. \A j \in Job : jobs[j].state # "none" => j[1][1][1] # c
    BY <2>1 DEF FreshInv
  <2>7. \A j \in Job : finalizers[j] # "off" => j[1][1][1] # c
    BY <2>6 DEF SoloInv, ListensLast
  <2>8. worker.pc # "idle" => CurrentEnvio[1] \in Recipient /\ CurrentEnvio[1][1] # c /\ CurrentEnvio \in Envio
    BY <2>6, JobParts DEF CurrentEnvio
  <2>a. RowsInv'
    BY <2>1, <2>2, <2>3, RecipientPair DEF FateInv, RowsInv, Live
  <2>b. RecipientReflectsEnvios'
    <3>1. ASSUME NEW r \in Recipient, recipient'[r] \in {"ENVIADO", "FALHOU"}
          PROVE  recipient'[r] = recipient[r] /\ \A m \in Messages : envio'[<<r, m>>] = envio[<<r, m>>]
      BY <2>3, <3>1
    <3>2. ASSUME NEW r \in Recipient, recipient'[r] = "ENVIADO"
          PROVE  \A m \in Messages : envio'[<<r, m>>] = "ENVIADO"
      BY <3>1, <3>2 DEF FateInv, RecipientReflectsEnvios
    <3>3. ASSUME NEW r \in Recipient, recipient'[r] = "FALHOU"
          PROVE  \E m \in Messages : envio'[<<r, m>>] = "FALHOU"
      <4>1. PICK m \in Messages : envio[<<r, m>>] = "FALHOU"
        BY <3>1, <3>3 DEF FateInv, RecipientReflectsEnvios
      <4> QED
        BY <3>1, <3>3, <4>1
    <3> QED
      BY <3>2, <3>3 DEF RecipientReflectsEnvios
  <2>c. ListenerInv'
    BY <2>4, <2>5, <2>6, <2>7, JobParts DEF FateInv, ListenerInv
  <2>d. WorkerInv'
    BY <2>3, <2>4, <2>5, <2>8 DEF FateInv, WorkerInv, CurrentEnvio
  <2> QED
    BY <2>a, <2>b, <2>c, <2>d DEF FateInv
<1>2. ASSUME NEW c \in Campaigns, EnqueueCampaign(c) PROVE FateInv'
  BY <1>2, <1>0, JobParts DEF EnqueueCampaign, PendingEnvios, JobRow, dbVars
<1>3. ASSUME NEW c \in Campaigns, CountPending(c) PROVE FateInv'
  BY <1>3, <1>0 DEF CountPending, dbVars, processVars
<1>4. ASSUME NEW c \in Campaigns, EnsureWorker(c) PROVE FateInv'
  BY <1>4, <1>0 DEF EnsureWorker, dbVars, processVars
<1>5. ASSUME NEW c \in Campaigns, RequestFails(c) PROVE FateInv'
  BY <1>5, <1>0 DEF RequestFails, dbVars, processVars
<1>6. ASSUME NEW j \in Job, TakeJob(j) PROVE FateInv'
  BY <1>6, <1>0 DEF TakeJob, dbVars, JobRow
<1>7. ASSUME NEW j \in Job, RecoverStalled(j) PROVE FateInv'
  BY <1>7, <1>0 DEF RecoverStalled, dbVars, processVars, JobRow
<1>8. ASSUME SkipResolved PROVE FateInv'
  BY <1>8, <1>0 DEF SkipResolved, dbVars, processVars, Goto
<1>9. ASSUME NEW n \in 1 .. MaxReschedules, Reschedule(n) PROVE FateInv'
  BY <1>9, <1>0 DEF Reschedule, Goto, Unresolved, CurrentEnvio, dbVars, JobRow
<1>10. ASSUME BeginAttempt PROVE FateInv'
  <2>1. UNCHANGED <<envio, recipient, jobs, finalizers, campaign>> /\ CurrentEnvio' = CurrentEnvio
    BY <1>10 DEF BeginAttempt, dbVars, CurrentEnvio
  <2>2. WorkerInv'
    BY <1>10, <2>1 DEF FateInv, WorkerInv, BeginAttempt, Unresolved
  <2> QED
    BY <2>1, <2>2 DEF FateInv, RowsInv, RecipientReflectsEnvios, ListenerInv, Live
<1>11. ASSUME SendMessage PROVE FateInv'
  <2>1. UNCHANGED <<envio, recipient, jobs, finalizers, campaign>> /\ CurrentEnvio' = CurrentEnvio
    BY <1>11 DEF SendMessage, dbVars, CurrentEnvio, Goto
  <2>2. WorkerInv'
    BY <1>11, <2>1 DEF FateInv, WorkerInv, SendMessage, Goto
  <2> QED
    BY <2>1, <2>2 DEF FateInv, RowsInv, RecipientReflectsEnvios, ListenerInv, Live
<1>12. ASSUME AttemptFails PROVE FateInv'
  <2>1. UNCHANGED <<envio, recipient, jobs, finalizers, campaign>> /\ CurrentEnvio' = CurrentEnvio
    BY <1>12 DEF AttemptFails, dbVars, CurrentEnvio, Goto
  <2>2. WorkerInv'
    BY <1>12, <2>1 DEF FateInv, WorkerInv, AttemptFails, Goto
  <2> QED
    BY <2>1, <2>2 DEF FateInv, RowsInv, RecipientReflectsEnvios, ListenerInv, Live
<1>13. ASSUME MarkSent PROVE FateInv'
  <2> DEFINE e == CurrentEnvio
  <2>1. e \in Envio /\ worker.pc = "marking" /\ worker.job \in Job /\ jobs[worker.job].state = "active" /\ e = worker.job[1]
    BY <1>13, JobParts DEF MarkSent, CurrentEnvio
  <2>2. UNCHANGED <<recipient, campaign, jobs, finalizers>> /\ CurrentEnvio' = CurrentEnvio
    BY <1>13 DEF MarkSent, Goto, CurrentEnvio
  <2>3. \A d \in Envio : d # e => envio'[d] = envio[d]
    BY <1>13 DEF MarkSent
  <2>4. \/ envio[e] = "none" /\ envio'[e] = "none" /\ worker'.pc = "threw"
        \/ envio[e] # "none" /\ envio'[e] = "ENVIADO" /\ worker'.pc = "reading"
    BY <1>13, <2>1 DEF MarkSent, Goto
  <2> HIDE DEF e
  <2>5. envio[e] \in {"none", "PENDENTE"}
    BY <2>1 DEF FateInv, WorkerInv, e
  <2>6. \A j \in Job : j[1] = e => finalizers[j] = "off"
    BY <2>1 DEF SoloInv, ListensLast
  <2>a. RowsInv'
    BY <2>2, <2>3, <2>4, RecipientEnvios DEF FateInv, RowsInv, Live
  <2>b. RecipientReflectsEnvios'
    BY <2>2, <2>3, <2>4, <2>5, RecipientEnvios DEF FateInv, RecipientReflectsEnvios
  <2>c. ListenerInv'
    BY <2>2, <2>3, <2>4, <2>5, <2>6, JobParts DEF FateInv, ListenerInv
  <2>d. WorkerInv'
    BY <2>2, <2>4 DEF WorkerInv, e
  <2> QED
    BY <2>a, <2>b, <2>c, <2>d DEF FateInv
<1>14. ASSUME ReadOutcome PROVE FateInv'
  <2>1. UNCHANGED <<envio, recipient, jobs, finalizers, campaign>> /\ CurrentEnvio' = CurrentEnvio
    BY <1>14 DEF ReadOutcome, dbVars, CurrentEnvio, Goto
  <2>2. WorkerInv'
    BY <1>14, <2>1 DEF FateInv, WorkerInv, ReadOutcome, OutcomeApplies, Goto
  <2> QED
    BY <2>1, <2>2 DEF FateInv, RowsInv, RecipientReflectsEnvios, ListenerInv, Live
<1>15. ASSUME ApplySent PROVE FateInv'
  <2> DEFINE r == CurrentEnvio[1]
  <2>1. r \in Recipient /\ worker.pc = "writing" /\ r[1] \in Campaigns
    BY <1>15, JobParts DEF ApplySent, CurrentEnvio, Recipient
  <2>2. UNCHANGED <<envio, jobs, finalizers>> /\ CurrentEnvio' = CurrentEnvio
    BY <1>15 DEF ApplySent, Goto, CurrentEnvio
  <2>3. \A s \in Recipient : s # r => recipient'[s] = recipient[s]
    BY <1>15 DEF ApplySent, WriteOutcome
  <2>4. \/ recipient[r] = "none" /\ UNCHANGED <<recipient, campaign>> /\ worker'.pc = "threw"
        \/ recipient[r] # "none" /\ recipient'[r] = "ENVIADO" /\ worker'.pc = "settling"
    BY <1>15, <2>1 DEF ApplySent, Goto, WriteOutcome
  <2>5. \A c \in Campaigns : Live(c) => campaign'[c].status \in {"PENDENTE", "ENVIADA"}
    BY <1>15 DEF ApplySent, WriteOutcome, CampaignAfter, DoneIfFinished, Live
  <2>6. CurrentEnvio \in Envio /\ CurrentEnvio = <<r, CurrentEnvio[2]>> /\ CurrentEnvio[2] \in Messages
    BY <1>15, JobParts, EnvioPair DEF ApplySent, CurrentEnvio
  <2>7. recipient[r] # "none" => \A m \in Messages : envio[<<r, m>>] = "ENVIADO"
    BY <2>1 DEF FateInv, RowsInv, WorkerInv
  <2>a. RowsInv'
    BY <2>1, <2>2, <2>3, <2>4, <2>5, RecipientPair DEF FateInv, RowsInv, Live
  <2>b. RecipientReflectsEnvios'
    BY <2>1, <2>2, <2>3, <2>4, <2>7 DEF FateInv, RecipientReflectsEnvios
  <2>c. ListenerInv'
    BY <2>2 DEF FateInv, ListenerInv
  <2>d. WorkerInv'
    BY <2>1, <2>2, <2>4, <2>6, <2>7 DEF FateInv, WorkerInv, RowsInv
  <2> QED
    BY <2>a, <2>b, <2>c, <2>d DEF FateInv
<1>16. ASSUME SettleSent PROVE FateInv'
  BY <1>16, <1>0 DEF SettleSent, dbVars, processVars, Goto
<1>17. ASSUME StepFails PROVE FateInv'
  BY <1>17, NeverSpent DEF StepFails, Sober, NoFailedTransaction, FaultKinds
<1>18. ASSUME CompleteJob PROVE FateInv'
  BY <1>18, <1>0 DEF CompleteJob, dbVars, IdleWorker, JobRow
<1>19. ASSUME FailJob PROVE FateInv'
  <2>1. /\ worker.job \in Job /\ worker.pc = "threw" /\ jobs[worker.job].state = "active"
        /\ UNCHANGED <<envio, recipient, campaign>> /\ worker'.pc = "idle"
        /\ finalizers'[worker.job] \in {"started", finalizers[worker.job]}
        /\ \A j \in Job : j # worker.job => jobs'[j] = jobs[j] /\ finalizers'[j] = finalizers[j]
    BY <1>19 DEF FailJob, IdleWorker, JobRow, dbVars
  <2>2. envio[worker.job[1]] \in {"none", "PENDENTE"}
    BY <2>1 DEF FateInv, WorkerInv, CurrentEnvio
  <2> QED
    BY SMTT(30), <2>1, <2>2 DEF FateInv, RowsInv, RecipientReflectsEnvios, ListenerInv, WorkerInv, Live
<1>20. ASSUME LoseAck PROVE FateInv'
  BY <1>20, <1>0 DEF LoseAck, dbVars, processVars, IdleWorker
<1>21. ASSUME NEW j \in Job, BeginFinalize(j) PROVE FateInv'
  <2>1. UNCHANGED <<envio, recipient, jobs, worker, campaign>>
    BY <1>21 DEF BeginFinalize, dbVars
  <2>2. \A i \in Job : i # j => finalizers'[i] = finalizers[i]
    BY <1>21 DEF BeginFinalize, MoveTo
  <2>3. finalizers[j] = "started" /\ finalizers'[j] \in {"off", "failing"}
    BY <1>21 DEF BeginFinalize, MoveTo
  <2> QED
    BY <2>1, <2>2, <2>3 DEF FateInv, RowsInv, RecipientReflectsEnvios, ListenerInv, WorkerInv, CurrentEnvio, Live
<1>22. ASSUME NEW j \in Job, MarkFailed(j) PROVE FateInv'
  <2> DEFINE e == j[1]
  <2>1. e \in Envio /\ finalizers[j] = "failing"
    BY <1>22, JobParts DEF MarkFailed
  <2>2. UNCHANGED <<recipient, campaign, jobs, worker>>
    BY <1>22 DEF MarkFailed
  <2>3. \A d \in Envio : d # e => envio'[d] = envio[d]
    BY <1>22 DEF MarkFailed
  <2>4. \A i \in Job : i # j => finalizers'[i] = finalizers[i]
    BY <1>22 DEF MarkFailed, MoveTo
  <2>5. \/ envio[e] = "none" /\ envio'[e] = "none" /\ finalizers'[j] = "off"
        \/ envio[e] # "none" /\ envio'[e] = "FALHOU" /\ finalizers'[j] = "reading"
    BY <1>22, <2>1 DEF MarkFailed, MoveTo
  <2>6. envio[e] \in {"none", "PENDENTE"}
    BY <2>1 DEF FateInv, ListenerInv
  <2>7. \A i \in Job : i[1] = e => /\ jobs[i].state \notin {"wait", "active"}
                                   /\ i # j => finalizers[i] = "off"
    BY <2>1 DEF SoloInv, ListensLast, OneActs, Acting
  <2>8. worker.pc # "idle" => CurrentEnvio # e /\ CurrentEnvio \in Envio
    BY <2>7, JobParts DEF CurrentEnvio
  <2> HIDE DEF e
  <2>a. RowsInv'
    BY <2>2, <2>3, <2>5, RecipientEnvios DEF FateInv, RowsInv, Live
  <2>b. RecipientReflectsEnvios'
    BY SMTT(30), <2>2, <2>3, <2>5, <2>6, RecipientEnvios DEF FateInv, RecipientReflectsEnvios
  <2>c. ListenerInv'
    BY <2>2, <2>3, <2>4, <2>5, <2>7, JobParts DEF FateInv, ListenerInv, e
  <2>d. WorkerInv'
    BY <2>2, <2>3, <2>5, <2>6, <2>8, RecipientEnvios, EnvioPair DEF FateInv, WorkerInv, CurrentEnvio
  <2> QED
    BY <2>a, <2>b, <2>c, <2>d DEF FateInv
<1>23. ASSUME NEW j \in Job, ReadFailedOutcome(j) PROVE FateInv'
  <2>1. UNCHANGED <<envio, recipient, jobs, worker, campaign>>
    BY <1>23 DEF ReadFailedOutcome, dbVars
  <2>2. \A i \in Job : i # j => finalizers'[i] = finalizers[i]
    BY <1>23 DEF ReadFailedOutcome, MoveTo
  <2>3. finalizers[j] = "reading" /\ finalizers'[j] \in {"writing", "settling"}
    BY <1>23 DEF ReadFailedOutcome, MoveTo
  <2> QED
    BY <2>1, <2>2, <2>3 DEF FateInv, RowsInv, RecipientReflectsEnvios, ListenerInv, WorkerInv, CurrentEnvio, Live
<1>24. ASSUME NEW j \in Job, ApplyFailed(j) PROVE FateInv'
  <2> DEFINE r == j[1][1]
  <2>1. r \in Recipient /\ finalizers[j] = "writing" /\ r[1] \in Campaigns /\ j[1][2] \in Messages /\ j[1] = <<r, j[1][2]>>
    BY <1>24, JobParts, EnvioPair DEF ApplyFailed
  <2>2. UNCHANGED <<envio, jobs, worker>>
    BY <1>24 DEF ApplyFailed
  <2>3. \A s \in Recipient : s # r => recipient'[s] = recipient[s]
    BY <1>24 DEF ApplyFailed, WriteOutcome
  <2>4. \/ recipient[r] = "none" /\ UNCHANGED <<recipient, campaign>> /\ finalizers'[j] = "off"
        \/ recipient[r] # "none" /\ recipient'[r] = "FALHOU" /\ finalizers'[j] = "settling"
    BY <1>24, <2>1 DEF ApplyFailed, MoveTo, WriteOutcome
  <2>5. \A c \in Campaigns : Live(c) => campaign'[c].status \in {"PENDENTE", "ENVIADA"}
    BY <1>24 DEF ApplyFailed, WriteOutcome, CampaignAfter, DoneIfFinished, Live
  <2>6. \A i \in Job : i # j => finalizers'[i] = finalizers[i]
    BY <1>24 DEF ApplyFailed, MoveTo
  <2>7. recipient[r] # "none" => envio[<<r, j[1][2]>>] = "FALHOU"
    BY <2>1 DEF FateInv, RowsInv, ListenerInv
  <2> HIDE DEF r
  <2>a. RowsInv'
    BY <2>1, <2>2, <2>3, <2>4, <2>5, RecipientPair DEF FateInv, RowsInv, Live
  <2>b. RecipientReflectsEnvios'
    BY <2>1, <2>2, <2>3, <2>4, <2>7 DEF FateInv, RecipientReflectsEnvios
  <2>c. ListenerInv'
    BY <2>1, <2>2, <2>4, <2>6 DEF FateInv, ListenerInv
  <2>d. WorkerInv'
    BY <2>2 DEF FateInv, WorkerInv, CurrentEnvio
  <2> QED
    BY <2>a, <2>b, <2>c, <2>d DEF FateInv
<1>25. ASSUME NEW j \in Job, SettleFailed(j) PROVE FateInv'
  <2>1. UNCHANGED <<envio, recipient, jobs, worker, campaign>>
    BY <1>25 DEF SettleFailed, dbVars
  <2>2. \A i \in Job : i # j => finalizers'[i] = finalizers[i]
    BY <1>25 DEF SettleFailed, MoveTo
  <2>3. finalizers[j] = "settling" /\ finalizers'[j] \in {"pushing"}
    BY <1>25 DEF SettleFailed, MoveTo
  <2> QED
    BY <2>1, <2>2, <2>3 DEF FateInv, RowsInv, RecipientReflectsEnvios, ListenerInv, WorkerInv, CurrentEnvio, Live
<1>26. ASSUME NEW j \in Job, PushDeadLetter(j) PROVE FateInv'
  BY <1>26, <1>0 DEF PushDeadLetter, dbVars, processVars, MoveTo
<1>27. ASSUME NEW j \in Job, FinalizeFails(j) PROVE FateInv'
  BY <1>27, NeverSpent DEF FinalizeFails, Sober, NoFailedTransaction, FaultKinds
<1>28. ASSUME ClearHistory PROVE FateInv'
  <2>1. (\A r \in Recipient : recipient'[r] = "none") /\ (\A e \in Envio : envio'[e] = "none")
    BY <1>28 DEF ClearHistory
  <2>2. UNCHANGED <<jobs, finalizers, worker>>
    BY <1>28 DEF ClearHistory, processVars
  <2>3. RowsInv' /\ RecipientReflectsEnvios'
    BY <2>1, RecipientEnvios DEF RowsInv, RecipientReflectsEnvios
  <2>4. ListenerInv' /\ WorkerInv'
    BY <2>1, <2>2, JobParts, RecipientEnvios DEF FateInv, ListenerInv, WorkerInv, CurrentEnvio
  <2> QED
    BY <2>3, <2>4 DEF FateInv
<1>29. ASSUME NEW k \in Contacts, RemoveContact(k) PROVE FateInv'
  <2>1. \A r \in Recipient : IF r[2] = k
            THEN recipient'[r] = "none" /\ \A m \in Messages : envio'[<<r, m>>] = "none"
            ELSE recipient'[r] = recipient[r] /\ \A m \in Messages : envio'[<<r, m>>] = envio[<<r, m>>]
    BY <1>29, RecipientEnvios DEF RemoveContact
  <2>2. \A e \in Envio : envio'[e] \in {"none", envio[e]}
    BY <1>29 DEF RemoveContact
  <2>3. UNCHANGED <<jobs, finalizers, worker, campaign>>
    BY <1>29 DEF RemoveContact, processVars
  <2>4. RowsInv' /\ RecipientReflectsEnvios'
    <3>1. RowsInv'
      BY <2>1, <2>3 DEF FateInv, RowsInv, Live
    <3>2. RecipientReflectsEnvios'
      <4>1. ASSUME NEW r \in Recipient, recipient'[r] \in {"ENVIADO", "FALHOU"}
            PROVE  recipient'[r] = recipient[r] /\ \A m \in Messages : envio'[<<r, m>>] = envio[<<r, m>>]
        BY <2>1, <4>1
      <4>2. ASSUME NEW r \in Recipient, recipient'[r] = "ENVIADO"
            PROVE  \A m \in Messages : envio'[<<r, m>>] = "ENVIADO"
        BY <4>1, <4>2 DEF FateInv, RecipientReflectsEnvios
      <4>3. ASSUME NEW r \in Recipient, recipient'[r] = "FALHOU"
            PROVE  \E m \in Messages : envio'[<<r, m>>] = "FALHOU"
        <5>1. PICK m \in Messages : envio[<<r, m>>] = "FALHOU"
          BY <4>1, <4>3 DEF FateInv, RecipientReflectsEnvios
        <5> QED
          BY <4>1, <4>3, <5>1
      <4> QED
        BY <4>2, <4>3 DEF RecipientReflectsEnvios
    <3> QED
      BY <3>1, <3>2
  <2>5. ListenerInv'
    BY <2>2, <2>3, JobParts DEF FateInv, ListenerInv
  <2>6. WorkerInv'
    BY <2>2, <2>3, JobParts, RecipientEnvios DEF FateInv, WorkerInv, CurrentEnvio
  <2> QED
    BY <2>4, <2>5, <2>6 DEF FateInv
<1>30. ASSUME NEW k \in Contacts, EditContact(k) PROVE FateInv'
  BY <1>30, <1>0 DEF EditContact, dbVars, processVars
<1>31. ASSUME NEW k \in Contacts, ValidateContact(k) PROVE FateInv'
  BY <1>31, <1>0 DEF ValidateContact, dbVars, processVars
<1>32. ASSUME ChangeSessionStatus PROVE FateInv'
  BY <1>32, <1>0 DEF ChangeSessionStatus, dbVars, processVars
<1>33. ASSUME Crash PROVE FateInv'
  BY <1>33, <1>0 DEF Crash, dbVars, processVars, IdleWorker
<1>34. CASE UNCHANGED vars
  BY <1>34, <1>0 DEF vars, dbVars, processVars
<1> QED
  BY <1>1, <1>2, <1>3, <1>4, <1>5, <1>6, <1>7, <1>8, <1>9, <1>10, <1>11, <1>12, <1>13, <1>14,
     <1>15, <1>16, <1>17, <1>18, <1>19, <1>20, <1>21, <1>22, <1>23, <1>24, <1>25, <1>26, <1>27,
     <1>28, <1>29, <1>30, <1>31, <1>32, <1>33, <1>34
     DEF Next, Request, Process, Finalize, Disturbance


\* A recipient is ENVIADO only when all its envios are and FALHOU only when one is, for any faults but a failed
\* transaction and any number of overlapping listeners (applyRecipientOutcome, schema.prisma 473-481).
THEOREM RecipientsReflectEnvios == ASSUME Sober PROVE Spec => []RecipientReflectsEnvios
<1>1. TypeInv /\ FreshInv /\ SoloInv /\ FateInv /\ [Next]_vars => (TypeInv /\ FreshInv /\ SoloInv /\ FateInv)'
  BY TypeInvStep, FreshStep, SoloStep, FateStep DEF Sober
<1>2. FateInv => RecipientReflectsEnvios
  BY DEF FateInv
<1> QED
  BY <1>1, <1>2, TypeInvInit, FreshInit, SoloInit, FateInit, PTL DEF Spec

-----------------------------------------------------------------------------
(* Final outcomes *)

\* What OutcomeIsFinal asks of a step.
KeepsOutcomes ==
    /\ \A e \in Envio : envio[e] \in {"ENVIADO", "FALHOU"} => envio'[e] \in {envio[e], "none"}
    /\ \A r \in Recipient :
           recipient[r] \in {"ENVIADO", "FALHOU"} => recipient'[r] \in {recipient[r], "none"}

\* Each of the seven actions that write envios or recipients keeps an outcome or deletes its row.
LEMMA OutcomesStep == TypeInv /\ SoloInv /\ FateInv /\ [Next]_vars => KeepsOutcomes
<1> SUFFICES ASSUME TypeInv, SoloInv, FateInv, [Next]_vars PROVE KeepsOutcomes
  OBVIOUS
<1> USE DEF TypeInv, TypeOK, WorkerHoldsJob
<1>1. ASSUME NEW c \in Campaigns, NEW chosen \in SUBSET Contacts, CreateCampaign(c, chosen)
      PROVE  KeepsOutcomes
  <2>1. ~ Live(c)
    BY <1>1 DEF CreateCampaign, Live
  <2>2. ASSUME NEW r \in Recipient PROVE recipient'[r] = recipient[r] \/ recipient[r] = "none"
    BY <1>1, <2>1, RecipientPair DEF CreateCampaign, FateInv, RowsInv
  <2>3. ASSUME NEW e \in Envio PROVE envio'[e] = envio[e] \/ envio[e] = "none"
    <3>1. e[1] \in {c} \X chosen => e[1][1] = c
      OBVIOUS
    <3>2. e[1][1] = c => envio[e] = "none"
      BY <2>1, EnvioPair DEF FateInv, RowsInv
    <3> QED
      BY <1>1, <3>1, <3>2 DEF CreateCampaign
  <2> QED
    BY <2>2, <2>3 DEF KeepsOutcomes
<1>2. ASSUME MarkSent PROVE KeepsOutcomes
  BY <1>2 DEF MarkSent, FateInv, WorkerInv, KeepsOutcomes
<1>3. ASSUME NEW j \in Job, MarkFailed(j) PROVE KeepsOutcomes
  BY <1>3 DEF MarkFailed, FateInv, ListenerInv, KeepsOutcomes
<1>4. ASSUME ApplySent PROVE KeepsOutcomes
  <2> DEFINE r == CurrentEnvio[1]
  <2>1. r \in Recipient /\ worker.pc = "writing"
    BY <1>4, JobParts DEF ApplySent, CurrentEnvio
  <2>2. recipient[r] # "FALHOU"
    BY <2>1 DEF FateInv, WorkerInv, RecipientReflectsEnvios
  <2>3. recipient'[r] \in {recipient[r], "ENVIADO"} /\ \A s \in Recipient : s # r => recipient'[s] = recipient[s]
    BY <1>4, <2>1 DEF ApplySent, WriteOutcome
  <2> QED
    BY <1>4, <2>2, <2>3 DEF ApplySent, KeepsOutcomes
<1>5. ASSUME NEW j \in Job, ApplyFailed(j) PROVE KeepsOutcomes
  <2> DEFINE r == j[1][1]
  <2>1. r \in Recipient /\ j[1][2] \in Messages /\ j[1] = <<r, j[1][2]>>
    BY JobParts, EnvioPair
  <2>2. recipient[r] # "ENVIADO"
    BY ZenonT(60), <1>5, <2>1 DEF ApplyFailed, FateInv, ListenerInv, RecipientReflectsEnvios
  <2>3. recipient'[r] \in {recipient[r], "FALHOU"} /\ \A s \in Recipient : s # r => recipient'[s] = recipient[s]
    BY <1>5, <2>1 DEF ApplyFailed, WriteOutcome
  <2> QED
    BY <1>5, <2>2, <2>3 DEF ApplyFailed, KeepsOutcomes
<1>6. ASSUME ClearHistory \/ \E k \in Contacts : RemoveContact(k) PROVE KeepsOutcomes
  BY <1>6 DEF ClearHistory, RemoveContact, KeepsOutcomes
<1>7. ASSUME UNCHANGED <<envio, recipient>> PROVE KeepsOutcomes
  BY <1>7 DEF KeepsOutcomes
<1>8. CASE \E c \in Campaigns : Request(c) \/ RequestFails(c)
  BY <1>8, <1>7 DEF Request, EnqueueCampaign, CountPending, EnsureWorker, RequestFails, dbVars
<1>9. CASE \E j \in Job : TakeJob(j) \/ RecoverStalled(j) \/ Finalize(j) \/ FinalizeFails(j)
  BY <1>9, <1>3, <1>5, <1>7
     DEF TakeJob, RecoverStalled, Finalize, BeginFinalize, ReadFailedOutcome, SettleFailed,
         PushDeadLetter, FinalizeFails, dbVars
<1>10. CASE Process
  BY <1>10, <1>2, <1>4, <1>7
     DEF Process, SkipResolved, Reschedule, BeginAttempt, SendMessage, AttemptFails, ReadOutcome,
         SettleSent, CompleteJob, FailJob, dbVars
<1>11. CASE \/ StepFails \/ LoseAck \/ Crash \/ ChangeSessionStatus
            \/ \E k \in Contacts : EditContact(k) \/ ValidateContact(k)
            \/ UNCHANGED vars
  BY <1>11, <1>7 DEF StepFails, LoseAck, Crash, ChangeSessionStatus, EditContact, ValidateContact, vars, dbVars
<1> QED
  BY <1>1, <1>6, <1>8, <1>9, <1>10, <1>11 DEF Next, Disturbance

\* No retry, listener or sibling turns ENVIADO into FALHOU or back, for an envio or a recipient, whatever
\* crashes, deletions and overlaps occur (schema.prisma 473-481).
THEOREM OutcomesAreFinal == ASSUME Sober PROVE Spec => OutcomeIsFinal
<1>1. TypeInv /\ FreshInv /\ SoloInv /\ FateInv /\ [Next]_vars => (TypeInv /\ FreshInv /\ SoloInv /\ FateInv)'
  BY TypeInvStep, FreshStep, SoloStep, FateStep DEF Sober
<1>2. TypeInv /\ SoloInv /\ FateInv /\ [Next]_vars => [KeepsOutcomes]_vars
  BY OutcomesStep
<1>3. Spec => [][KeepsOutcomes]_vars
  BY <1>1, <1>2, TypeInvInit, FreshInit, SoloInit, FateInit, PTL DEF Spec
<1> QED
  BY <1>3 DEF OutcomeIsFinal, KeepsOutcomes

-----------------------------------------------------------------------------
(* Nobody is forgotten *)

\* Every step of the handlers happens: no transaction fails, no process dies, no acknowledgement is lost.
NoLostStep == Budget["infra"] = 0 /\ Budget["crash"] = 0 /\ Budget["ack"] = 0

\* An active job is in the hands of the worker.
ActiveIsHeld == \A j \in Job : jobs[j].state = "active" => worker.pc # "idle" /\ worker.job = j

\* Until enqueueCampaign adds them, a campaign has no jobs.
EnqueuedOnce ==
    \A c \in Campaigns : requests[c].pc = "enqueue" =>
        \A j \in Job : j[1][1][1] = c => jobs[j].state = "none"

\* A PENDENTE envio waits for its request or has a job that acts.
PendingIsCarried ==
    \A e \in Envio : envio[e] = "PENDENTE" =>
        \/ requests[e[1][1]].pc = "enqueue"
        \/ \E j \in Job : j[1] = e /\ Acting(j)

\* Whoever made the last envio of a recipient final is about to write the outcome of the recipient.
RollupIsCarried ==
    \A r \in Recipient : recipient[r] = "PENDENTE" =>
        /\ \A m \in Messages : envio[<<r, m>>] = "FALHOU" =>
               \E j \in Job : j[1] = <<r, m>> /\ finalizers[j] \in {"reading", "writing"}
        /\ (\A m \in Messages : envio[<<r, m>>] = "ENVIADO") =>
               worker.pc \in {"reading", "writing"} /\ CurrentEnvio[1] = r

WorkInv == ActiveIsHeld /\ EnqueuedOnce /\ PendingIsCarried /\ RollupIsCarried

LEMMA WorkInit == Init => WorkInv
<1> SUFFICES ASSUME Init PROVE WorkInv
  OBVIOUS
<1>1. ActiveIsHeld /\ EnqueuedOnce
  BY DEF Init, ActiveIsHeld, EnqueuedOnce, NoJobRow
<1>2. PendingIsCarried
  BY DEF Init, PendingIsCarried
<1>3. RollupIsCarried
  BY DEF Init, RollupIsCarried
<1> QED
  BY <1>1, <1>2, <1>3 DEF WorkInv

\* PENDENTE envios stay carried while every job that acts hands over to one that does.
LEMMA StillPending ==
    ASSUME PendingIsCarried,
           \A e \in Envio : envio'[e] = "PENDENTE" => envio[e] = "PENDENTE",
           \A c \in Campaigns : requests[c].pc = "enqueue" => requests'[c].pc = "enqueue",
           \A j \in Job : Acting(j) /\ envio'[j[1]] = "PENDENTE" =>
               \E i \in Job : i[1] = j[1] /\ Acting(i)'
    PROVE  PendingIsCarried'
<1> SUFFICES ASSUME NEW e \in Envio, envio'[e] = "PENDENTE", requests'[e[1][1]].pc # "enqueue"
             PROVE  \E j \in Job : j[1] = e /\ Acting(j)'
  BY DEF PendingIsCarried
<1>1. e[1][1] \in Campaigns
  BY EnvioPair, RecipientPair
<1>2. PICK j \in Job : j[1] = e /\ Acting(j)
  BY <1>1 DEF PendingIsCarried
<1> QED
  BY <1>2

\* Rollups stay carried while nobody leaves one that is still to be written.
LEMMA StillRolledUp ==
    ASSUME RollupIsCarried,
           \A r \in Recipient : recipient'[r] = "PENDENTE" =>
               recipient[r] = "PENDENTE" /\ \A m \in Messages : envio'[<<r, m>>] = envio[<<r, m>>],
           \A j \in Job : finalizers[j] \in {"reading", "writing"} /\ recipient'[j[1][1]] = "PENDENTE" =>
               finalizers'[j] \in {"reading", "writing"},
           \/ worker.pc \notin {"reading", "writing"}
           \/ worker'.pc \in {"reading", "writing"} /\ CurrentEnvio' = CurrentEnvio
           \/ recipient'[CurrentEnvio[1]] # "PENDENTE"
           \/ \E m \in Messages : envio'[<<CurrentEnvio[1], m>>] # "ENVIADO"
    PROVE  RollupIsCarried'
<1> SUFFICES ASSUME NEW r \in Recipient, recipient'[r] = "PENDENTE"
             PROVE  /\ \A m \in Messages : envio'[<<r, m>>] = "FALHOU" =>
                           \E j \in Job : j[1] = <<r, m>> /\ finalizers'[j] \in {"reading", "writing"}
                    /\ (\A m \in Messages : envio'[<<r, m>>] = "ENVIADO") =>
                           worker'.pc \in {"reading", "writing"} /\ CurrentEnvio'[1] = r
  BY DEF RollupIsCarried, CurrentEnvio
<1>1. ASSUME NEW m \in Messages, envio'[<<r, m>>] = "FALHOU"
      PROVE  \E j \in Job : j[1] = <<r, m>> /\ finalizers'[j] \in {"reading", "writing"}
  <2>1. PICK j \in Job : j[1] = <<r, m>> /\ finalizers[j] \in {"reading", "writing"}
    BY SMTT(30), <1>1 DEF RollupIsCarried
  <2>2. j[1][1] = r
    BY <2>1
  <2> QED
    BY <1>1, <2>1, <2>2
<1>2. ASSUME \A m \in Messages : envio'[<<r, m>>] = "ENVIADO"
      PROVE  worker'.pc \in {"reading", "writing"} /\ CurrentEnvio'[1] = r
  <2>1. worker.pc \in {"reading", "writing"} /\ CurrentEnvio[1] = r
    BY <1>2 DEF RollupIsCarried
  <2> QED
    BY <1>2, <2>1
<1> QED
  BY <1>1, <1>2

\* Every step hands the unresolved envios and recipients over.
LEMMA WorkStep ==
    ASSUME NoLostStep
    PROVE  TypeInv /\ FreshInv /\ SoloInv /\ FateInv /\ WorkInv /\ [Next]_vars => WorkInv'
<1> SUFFICES ASSUME TypeInv, FreshInv, SoloInv, FateInv, WorkInv, [Next]_vars PROVE WorkInv'
  OBVIOUS
<1> USE DEF TypeInv, TypeOK, WorkerHoldsJob
<1> DEFINE Quiet ==
        /\ UNCHANGED <<envio, recipient, jobs, finalizers>>
        /\ \A c \in Campaigns : requests'[c].pc = "enqueue" <=> requests[c].pc = "enqueue"
        /\ worker'.job = worker.job
        /\ \/ worker'.pc = worker.pc
           \/ worker.pc \notin {"idle", "reading", "writing"} /\ worker'.pc \notin {"idle", "returned"}
<1>0. ASSUME Quiet PROVE WorkInv'
  <2>1. ActiveIsHeld' /\ EnqueuedOnce'
    BY <1>0 DEF WorkInv, ActiveIsHeld, EnqueuedOnce
  <2>2. \A j \in Job : Acting(j) => Acting(j)'
    BY <1>0 DEF Acting
  <2>3. PendingIsCarried'
    BY <1>0, <2>2, StillPending DEF WorkInv
  <2>4. RollupIsCarried'
    BY <1>0, StillRolledUp DEF WorkInv, CurrentEnvio
  <2> QED
    BY <2>1, <2>3, <2>4 DEF WorkInv
<1>1. ASSUME NEW c \in Campaigns, NEW chosen \in SUBSET Contacts, CreateCampaign(c, chosen)
      PROVE  WorkInv'
  <2>1. campaign[c].status = "none" /\ ~ Live(c)
    BY <1>1 DEF CreateCampaign, Live
  <2>2. UNCHANGED <<jobs, finalizers, worker>>
    BY <1>1 DEF CreateCampaign
  <2>3. requests'[c].pc = "enqueue" /\ \A d \in Campaigns : d # c => requests'[d].pc = requests[d].pc
    BY <1>1 DEF CreateCampaign
  <2>4. \A j \in Job : j[1][1][1] = c => jobs[j].state = "none"
    BY <2>1 DEF FreshInv
  <2>5. ActiveIsHeld' /\ EnqueuedOnce'
    BY <2>2, <2>3, <2>4 DEF WorkInv, ActiveIsHeld, EnqueuedOnce
  <2>6. \A e \in Envio : e[1][1] # c => envio'[e] = envio[e]
    BY <1>1 DEF CreateCampaign
  <2>7. PendingIsCarried'
    BY SMTT(30), <2>2, <2>3, <2>6, EnvioPair, RecipientPair DEF WorkInv, PendingIsCarried, Acting
  <2>8. ASSUME NEW r \in Recipient, r[1] # c
        PROVE  recipient'[r] = recipient[r] /\ \A m \in Messages : envio'[<<r, m>>] = envio[<<r, m>>]
    BY <1>1, <2>8, RecipientEnvios DEF CreateCampaign
  <2>9. ASSUME NEW r \in Recipient, r[1] = c, recipient'[r] = "PENDENTE"
        PROVE  \A m \in Messages : envio'[<<r, m>>] = "PENDENTE"
    <3>1. recipient[r] = "none"
      BY <2>1, <2>9 DEF FateInv, RowsInv
    <3>2. r \in {c} \X chosen
      BY <1>1, <2>9, <3>1 DEF CreateCampaign
    <3> QED
      BY <1>1, <3>2, RecipientEnvios DEF CreateCampaign
  <2>10. RollupIsCarried'
    <3> SUFFICES ASSUME NEW r \in Recipient, recipient'[r] = "PENDENTE"
                 PROVE  /\ \A m \in Messages : envio'[<<r, m>>] = "FALHOU" =>
                               \E j \in Job : j[1] = <<r, m>> /\ finalizers'[j] \in {"reading", "writing"}
                        /\ (\A m \in Messages : envio'[<<r, m>>] = "ENVIADO") =>
                               worker'.pc \in {"reading", "writing"} /\ CurrentEnvio'[1] = r
      BY DEF RollupIsCarried, CurrentEnvio
    <3>1. CASE r[1] = c
      BY <2>9, <3>1, SetsAssumption
    <3>2. CASE r[1] # c
      <4>1. recipient[r] = "PENDENTE" /\ \A m \in Messages : envio'[<<r, m>>] = envio[<<r, m>>]
        BY <2>8, <3>2
      <4>2. CurrentEnvio' = CurrentEnvio
        BY <2>2 DEF CurrentEnvio
      <4>3. RollupIsCarried
        BY DEF WorkInv
      <4>4. \A m \in Messages : envio[<<r, m>>] = "FALHOU" =>
                \E j \in Job : j[1] = <<r, m>> /\ finalizers[j] \in {"reading", "writing"}
        BY <4>1, <4>3 DEF RollupIsCarried
      <4>5. (\A m \in Messages : envio[<<r, m>>] = "ENVIADO") =>
                worker.pc \in {"reading", "writing"} /\ CurrentEnvio[1] = r
        BY <4>1, <4>3 DEF RollupIsCarried
      <4> QED
        BY <2>2, <4>1, <4>2, <4>4, <4>5
    <3> QED
      BY <3>1, <3>2
  <2> QED
    BY <2>5, <2>7, <2>10 DEF WorkInv
<1>2. ASSUME NEW c \in Campaigns, EnqueueCampaign(c) PROVE WorkInv'
  <2>1. UNCHANGED <<worker, finalizers, envio, recipient>> /\ requests[c].pc = "enqueue"
    BY <1>2 DEF EnqueueCampaign, dbVars
  <2>2. ASSUME NEW j \in Job
        PROVE  \/ jobs'[j] = jobs[j]
               \/ j[1][1][1] = c /\ jobs[j].state = "none" /\ jobs'[j].state = "wait"
    BY <1>2 DEF EnqueueCampaign, JobRow, PendingEnvios
  <2>3. requests'[c].pc # "enqueue" /\ \A d \in Campaigns : d # c => requests'[d] = requests[d]
    BY <1>2 DEF EnqueueCampaign
  <2>4. ActiveIsHeld' /\ EnqueuedOnce'
    BY <2>1, <2>2, <2>3 DEF WorkInv, ActiveIsHeld, EnqueuedOnce
  <2>5. ASSUME NEW e \in Envio, envio[e] = "PENDENTE", e[1][1] = c
        PROVE  \E j \in Job : j[1] = e /\ Acting(j)'
    <3>1. <<e, 0>> \in Job
      BY BoundsAssumption DEF Job
    <3>2. jobs[<<e, 0>>].state = "none"
      BY <2>1, <2>5, <3>1 DEF WorkInv, EnqueuedOnce
    <3>3. jobs'[<<e, 0>>].state = "wait"
      BY <1>2, <2>5, <3>1, <3>2 DEF EnqueueCampaign, PendingEnvios, JobRow
    <3> QED
      BY <3>1, <3>3 DEF Acting
  <2>6. \A j \in Job : Acting(j) => Acting(j)'
    BY <2>1, <2>2 DEF Acting
  <2>7. PendingIsCarried'
    BY SMTT(30), <2>1, <2>3, <2>5, <2>6, EnvioPair, RecipientPair DEF WorkInv, PendingIsCarried
  <2>8. CurrentEnvio' = CurrentEnvio
    BY <2>1 DEF CurrentEnvio
  <2>9. RollupIsCarried'
    BY <2>1, <2>8, StillRolledUp DEF WorkInv
  <2> QED
    BY <2>4, <2>7, <2>9 DEF WorkInv
<1>3. ASSUME NEW c \in Campaigns, CountPending(c) \/ EnsureWorker(c) PROVE WorkInv'
  BY <1>3, <1>0 DEF CountPending, EnsureWorker, dbVars
<1>4. ASSUME NEW c \in Campaigns, RequestFails(c) PROVE WorkInv'
  BY <1>4, NeverSpent DEF RequestFails, NoLostStep, FaultKinds
<1>5. ASSUME NEW j \in Job, TakeJob(j) PROVE WorkInv'
  <2>1. /\ UNCHANGED <<envio, recipient, finalizers, requests>>
        /\ worker.pc = "idle" /\ worker'.pc = "claimed" /\ worker'.job = j
        /\ jobs[j].state = "wait" /\ jobs'[j].state = "active"
        /\ \A i \in Job : i # j => jobs'[i] = jobs[i]
    BY <1>5 DEF TakeJob, dbVars, JobRow
  <2>2. ActiveIsHeld' /\ EnqueuedOnce'
    BY <2>1 DEF WorkInv, ActiveIsHeld, EnqueuedOnce
  <2>3. \A i \in Job : Acting(i) => Acting(i)'
    BY <2>1 DEF Acting
  <2>4. PendingIsCarried'
    BY <2>1, <2>3, StillPending DEF WorkInv
  <2>5. RollupIsCarried'
    BY <2>1, StillRolledUp DEF WorkInv
  <2> QED
    BY <2>2, <2>4, <2>5 DEF WorkInv
<1>6. ASSUME NEW j \in Job, RecoverStalled(j) PROVE WorkInv'
  BY <1>6 DEF RecoverStalled, WorkInv, ActiveIsHeld
<1>7. ASSUME SkipResolved PROVE WorkInv'
  <2>1. /\ UNCHANGED <<envio, recipient, finalizers, requests, jobs>>
        /\ worker.pc = "claimed" /\ worker'.pc = "returned" /\ worker'.job = worker.job
        /\ envio[worker.job[1]] # "PENDENTE"
    BY <1>7 DEF SkipResolved, dbVars, Goto, Unresolved, CurrentEnvio
  <2>2. ActiveIsHeld' /\ EnqueuedOnce'
    BY <2>1 DEF WorkInv, ActiveIsHeld, EnqueuedOnce
  <2>3. \A i \in Job : Acting(i) /\ envio'[i[1]] = "PENDENTE" => Acting(i)'
    BY <2>1 DEF Acting
  <2>4. PendingIsCarried'
    BY <2>1, <2>3, StillPending DEF WorkInv
  <2>5. RollupIsCarried'
    BY <2>1, StillRolledUp DEF WorkInv
  <2> QED
    BY <2>2, <2>4, <2>5 DEF WorkInv
<1>8. ASSUME NEW n \in 1 .. MaxReschedules, Reschedule(n) PROVE WorkInv'
  <2>1. worker.job \in Job /\ jobs[worker.job].state = "active" /\ worker.pc = "claimed"
    BY <1>8 DEF Reschedule
  <2>2. PICK new \in Job : new = <<worker.job[1], n>>
    <3>1. <<worker.job[1], n>> \in Job
      BY <2>1, JobParts, BoundsAssumption DEF Job
    <3> QED
      BY <3>1
  <2>3. /\ UNCHANGED <<envio, recipient, finalizers, requests>>
        /\ worker'.pc = "returned" /\ worker'.job = worker.job
        /\ jobs[new].state = "none" /\ jobs'[new].state = "wait"
        /\ \A i \in Job : i # new => jobs'[i] = jobs[i]
    BY <1>8, <2>2 DEF Reschedule, CurrentEnvio, Goto, JobRow, dbVars
  <2>4. ActiveIsHeld'
    BY <2>1, <2>3 DEF WorkInv, ActiveIsHeld
  <2>5. EnqueuedOnce'
    <3>1. worker.job[1][1][1] \in Campaigns /\ requests[worker.job[1][1][1]].pc # "enqueue"
      BY <2>1, JobParts DEF WorkInv, EnqueuedOnce
    <3> QED
      BY <2>1, <2>2, <2>3, <3>1 DEF WorkInv, EnqueuedOnce
  <2>6. Acting(new)'
    BY <2>3 DEF Acting
  <2>7. \A i \in Job : Acting(i) /\ i # worker.job => Acting(i)'
    BY <2>3, <2>6 DEF Acting
  <2>8. PendingIsCarried'
    <3>1. new[1] = worker.job[1]
      BY <2>2
    <3> QED
      BY <2>3, <2>6, <2>7, <3>1, StillPending DEF WorkInv
  <2>9. RollupIsCarried'
    BY <2>1, <2>3, StillRolledUp DEF WorkInv
  <2> QED
    BY <2>4, <2>5, <2>8, <2>9 DEF WorkInv
<1>9. ASSUME BeginAttempt \/ SendMessage \/ AttemptFails PROVE WorkInv'
  BY <1>9, <1>0 DEF BeginAttempt, SendMessage, AttemptFails, Goto, dbVars
<1>10. ASSUME MarkSent PROVE WorkInv'
  <2> DEFINE e == CurrentEnvio
  <2>1. e \in Envio /\ worker.pc = "marking" /\ e = worker.job[1] /\ worker.job \in Job
    BY <1>10, JobParts DEF MarkSent, CurrentEnvio
  <2>2. UNCHANGED <<recipient, jobs, finalizers, requests>> /\ worker'.job = worker.job /\ CurrentEnvio' = CurrentEnvio
    BY <1>10 DEF MarkSent, Goto, CurrentEnvio
  <2>3. \A d \in Envio : d # e => envio'[d] = envio[d]
    BY <1>10 DEF MarkSent
  <2>4. \/ envio[e] = "none" /\ envio'[e] = "none" /\ worker'.pc = "threw"
        \/ envio'[e] = "ENVIADO" /\ worker'.pc = "reading"
    BY <1>10, <2>1 DEF MarkSent, Goto
  <2> HIDE DEF e
  <2>5. ActiveIsHeld' /\ EnqueuedOnce'
    BY <2>1, <2>2, <2>4 DEF WorkInv, ActiveIsHeld, EnqueuedOnce
  <2>6. \A i \in Job : Acting(i) => Acting(i)'
    BY <2>2, <2>4 DEF Acting
  <2>7. PendingIsCarried'
    BY <2>2, <2>3, <2>4, <2>6, StillPending DEF WorkInv
  <2>8. RollupIsCarried'
    <3> SUFFICES ASSUME NEW r \in Recipient, recipient'[r] = "PENDENTE"
                 PROVE  /\ \A m \in Messages : envio'[<<r, m>>] = "FALHOU" =>
                               \E j \in Job : j[1] = <<r, m>> /\ finalizers'[j] \in {"reading", "writing"}
                        /\ (\A m \in Messages : envio'[<<r, m>>] = "ENVIADO") =>
                               worker'.pc \in {"reading", "writing"} /\ CurrentEnvio'[1] = r
      BY DEF RollupIsCarried, CurrentEnvio
    <3>1. \A m \in Messages : envio'[<<r, m>>] = "FALHOU" => envio[<<r, m>>] = "FALHOU"
      BY <2>3, <2>4, RecipientEnvios
    <3>2. ASSUME \A m \in Messages : envio'[<<r, m>>] = "ENVIADO"
          PROVE  worker'.pc \in {"reading", "writing"} /\ CurrentEnvio'[1] = r
      <4>1. CASE e[1] = r
        BY <2>1, <2>2, <2>4, <3>2, <4>1, EnvioPair DEF e
      <4>2. CASE e[1] # r
        <5>1. \A m \in Messages : envio[<<r, m>>] = "ENVIADO"
          BY <2>3, <3>2, <4>2, RecipientEnvios
        <5> QED
          BY <2>1, <2>2, <5>1 DEF WorkInv, RollupIsCarried
      <4> QED
        BY <4>1, <4>2
    <3>3. \A m \in Messages : envio[<<r, m>>] = "FALHOU" =>
              \E j \in Job : j[1] = <<r, m>> /\ finalizers[j] \in {"reading", "writing"}
      BY <2>2 DEF WorkInv, RollupIsCarried
    <3> QED
      BY <2>2, <3>1, <3>2, <3>3
  <2> QED
    BY <2>5, <2>7, <2>8 DEF WorkInv
<1>11. ASSUME ReadOutcome PROVE WorkInv'
  <2>1. /\ UNCHANGED <<envio, recipient, finalizers, requests, jobs>>
        /\ worker.pc = "reading" /\ worker'.job = worker.job /\ CurrentEnvio' = CurrentEnvio
        /\ worker'.pc = IF OutcomeApplies(CurrentEnvio[1], "ENVIADO") THEN "writing" ELSE "settling"
    BY <1>11 DEF ReadOutcome, dbVars, Goto, CurrentEnvio
  <2>2. ActiveIsHeld' /\ EnqueuedOnce'
    BY <2>1 DEF WorkInv, ActiveIsHeld, EnqueuedOnce
  <2>3. \A i \in Job : Acting(i) => Acting(i)'
    BY <2>1 DEF Acting
  <2>4. PendingIsCarried'
    BY <2>1, <2>3, StillPending DEF WorkInv
  <2>5. RollupIsCarried'
    BY <2>1, StillRolledUp DEF WorkInv, OutcomeApplies
  <2> QED
    BY <2>2, <2>4, <2>5 DEF WorkInv
<1>12. ASSUME ApplySent PROVE WorkInv'
  <2>1. /\ UNCHANGED <<envio, finalizers, requests, jobs>>
        /\ worker.pc = "writing" /\ worker'.job = worker.job /\ worker'.pc \in {"threw", "settling"}
    BY <1>12 DEF ApplySent, Goto
  <2>2. CurrentEnvio[1] \in Recipient /\ recipient'[CurrentEnvio[1]] # "PENDENTE"
    BY <1>12, <2>1, JobParts DEF ApplySent, WriteOutcome, CurrentEnvio
  <2>3. \A r \in Recipient : r # CurrentEnvio[1] => recipient'[r] = recipient[r]
    BY <1>12 DEF ApplySent, WriteOutcome
  <2>4. ActiveIsHeld' /\ EnqueuedOnce'
    BY <2>1 DEF WorkInv, ActiveIsHeld, EnqueuedOnce
  <2>5. \A i \in Job : Acting(i) => Acting(i)'
    BY <2>1 DEF Acting
  <2>6. PendingIsCarried'
    BY <2>1, <2>5, StillPending DEF WorkInv
  <2>7. RollupIsCarried'
    BY <2>1, <2>2, <2>3, StillRolledUp DEF WorkInv
  <2> QED
    BY <2>4, <2>6, <2>7 DEF WorkInv
<1>13. ASSUME SettleSent PROVE WorkInv'
  <2>1. /\ UNCHANGED <<envio, recipient, finalizers, requests, jobs>>
        /\ worker.pc = "settling" /\ worker'.job = worker.job /\ worker'.pc = "returned"
    BY <1>13 DEF SettleSent, Goto
  <2>2. ActiveIsHeld' /\ EnqueuedOnce'
    BY <2>1 DEF WorkInv, ActiveIsHeld, EnqueuedOnce
  <2>3. \A i \in Job : Acting(i) /\ envio'[i[1]] = "PENDENTE" => Acting(i)'
    BY <2>1 DEF Acting, FateInv, WorkerInv, CurrentEnvio
  <2>4. PendingIsCarried'
    BY <2>1, <2>3, StillPending DEF WorkInv
  <2>5. RollupIsCarried'
    BY <2>1, StillRolledUp DEF WorkInv
  <2> QED
    BY <2>2, <2>4, <2>5 DEF WorkInv
<1>14. ASSUME StepFails PROVE WorkInv'
  BY <1>14, NeverSpent DEF StepFails, NoLostStep, FaultKinds
<1>15. ASSUME CompleteJob PROVE WorkInv'
  <2>1. /\ UNCHANGED <<envio, recipient, finalizers, requests>>
        /\ worker.job \in Job /\ worker.pc = "returned" /\ worker'.pc = "idle"
        /\ jobs[worker.job].state = "active" /\ jobs'[worker.job].state = "completed"
        /\ \A i \in Job : i # worker.job => jobs'[i] = jobs[i]
    BY <1>15 DEF CompleteJob, IdleWorker, JobRow, dbVars
  <2>2. ActiveIsHeld' /\ EnqueuedOnce'
    BY SMTT(30), <2>1 DEF WorkInv, ActiveIsHeld, EnqueuedOnce
  <2>3. \A i \in Job : Acting(i) => Acting(i)'
    BY <2>1, <2>2 DEF Acting, WorkInv, ActiveIsHeld
  <2>4. PendingIsCarried'
    BY <2>1, <2>3, StillPending DEF WorkInv
  <2>5. RollupIsCarried'
    BY <2>1, StillRolledUp DEF WorkInv
  <2> QED
    BY <2>2, <2>4, <2>5 DEF WorkInv
<1>16. ASSUME FailJob PROVE WorkInv'
  <2> DEFINE j == worker.job
  <2>1. /\ UNCHANGED <<envio, recipient, requests>>
        /\ j \in Job /\ worker.pc = "threw" /\ worker'.pc = "idle" /\ jobs[j].state = "active"
        /\ \/ jobs'[j].state = "wait" /\ finalizers'[j] = finalizers[j]
           \/ jobs'[j].state = "failed" /\ finalizers'[j] = "started"
        /\ \A i \in Job : i # j => jobs'[i] = jobs[i] /\ finalizers'[i] = finalizers[i]
    BY <1>16 DEF FailJob, IdleWorker, JobRow, dbVars, Definitive, Exhausted
  <2> HIDE DEF j
  <2>2. ActiveIsHeld' /\ EnqueuedOnce'
    BY <2>1 DEF WorkInv, ActiveIsHeld, EnqueuedOnce, j
  <2>3. \A i \in Job : Acting(i) => Acting(i)'
    BY <2>1, <2>2 DEF Acting, WorkInv, ActiveIsHeld, j
  <2>4. finalizers[j] = "off"
    BY <2>1 DEF SoloInv, ListensLast
  <2>5. PendingIsCarried'
    BY <2>1, <2>3, StillPending DEF WorkInv
  <2>6. RollupIsCarried'
    BY <2>1, <2>4, StillRolledUp DEF WorkInv
  <2> QED
    BY <2>2, <2>5, <2>6 DEF WorkInv
<1>17. ASSUME LoseAck \/ Crash PROVE WorkInv'
  BY <1>17, NeverSpent DEF LoseAck, Crash, NoLostStep, FaultKinds
<1>18. ASSUME NEW j \in Job, Finalize(j) PROVE WorkInv'
  <2> DEFINE e == j[1]
             r == j[1][1]
  <2>1. e \in Envio /\ r \in Recipient /\ j[1][2] \in Messages /\ e = <<r, j[1][2]>>
    BY JobParts, EnvioPair
  <2>2. UNCHANGED <<jobs, worker, requests>> /\ CurrentEnvio' = CurrentEnvio
    BY <1>18 DEF Finalize, BeginFinalize, MarkFailed, ReadFailedOutcome, ApplyFailed, SettleFailed,
                 PushDeadLetter, CurrentEnvio
  <2>3. \A i \in Job : i # j => finalizers'[i] = finalizers[i]
    BY <1>18 DEF Finalize, BeginFinalize, MarkFailed, ReadFailedOutcome, ApplyFailed, SettleFailed,
                 PushDeadLetter, MoveTo
  <2>4. ActiveIsHeld' /\ EnqueuedOnce'
    BY <2>2 DEF WorkInv, ActiveIsHeld, EnqueuedOnce
  <2>5. \A i \in Job : i # j /\ Acting(i) => Acting(i)'
    BY <2>2, <2>3 DEF Acting
  <2>6. CASE UNCHANGED <<envio, recipient>> /\ ~ ReadFailedOutcome(j) /\ ~ ApplyFailed(j)
    <3>1. finalizers'[j] # "off" \/ envio[e] # "PENDENTE"
      BY <1>18, <2>6 DEF Finalize, BeginFinalize, MarkFailed, SettleFailed, PushDeadLetter, MoveTo,
                         FateInv, ListenerInv
    <3>2. finalizers[j] \in {"reading", "writing"} => finalizers'[j] \in {"reading", "writing"}
      BY <1>18, <2>6 DEF Finalize, BeginFinalize, MarkFailed, SettleFailed, PushDeadLetter, MoveTo
    <3>3. PendingIsCarried'
      BY <2>2, <2>5, <2>6, <3>1, StillPending DEF WorkInv, Acting
    <3>4. RollupIsCarried'
      BY <2>2, <2>3, <2>6, <3>2, StillRolledUp DEF WorkInv
    <3> QED
      BY <2>4, <3>3, <3>4 DEF WorkInv
  <2>7. CASE ReadFailedOutcome(j)
    <3>1. /\ UNCHANGED <<envio, recipient>> /\ finalizers[j] = "reading"
          /\ finalizers'[j] = IF OutcomeApplies(r, "FALHOU") THEN "writing" ELSE "settling"
      BY <2>7 DEF ReadFailedOutcome, MoveTo, dbVars
    <3>2. PendingIsCarried'
      BY <2>2, <2>5, <3>1, StillPending DEF WorkInv, Acting
    <3>3. RollupIsCarried'
      BY <2>2, <2>3, <3>1, StillRolledUp DEF WorkInv, OutcomeApplies
    <3> QED
      BY <2>4, <3>2, <3>3 DEF WorkInv
  <2>8. CASE ApplyFailed(j)
    <3>1. /\ envio' = envio /\ recipient'[r] # "PENDENTE"
          /\ \A s \in Recipient : s # r => recipient'[s] = recipient[s]
          /\ finalizers'[j] # "off" \/ recipient[r] = "none"
      BY <2>1, <2>8 DEF ApplyFailed, WriteOutcome, MoveTo
    <3>2. recipient[r] = "none" => envio[e] = "none"
      <4>1. recipient[r] = "none" => envio[<<r, j[1][2]>>] = "none"
        BY <2>1 DEF FateInv, RowsInv
      <4> QED
        BY <2>1, <4>1
    <3>3. PendingIsCarried'
      BY <2>2, <2>5, <3>1, <3>2, StillPending DEF WorkInv, Acting
    <3>4. RollupIsCarried'
      BY <2>2, <2>3, <3>1, StillRolledUp DEF WorkInv
    <3> QED
      BY <2>4, <3>3, <3>4 DEF WorkInv
  <2>9. CASE MarkFailed(j) /\ envio[e] # "none"
    <3>1. /\ finalizers[j] = "failing" /\ finalizers'[j] = "reading" /\ recipient' = recipient
          /\ envio'[e] = "FALHOU" /\ \A d \in Envio : d # e => envio'[d] = envio[d]
      BY <2>1, <2>9 DEF MarkFailed, MoveTo
    <3>2. PendingIsCarried'
      <4>1. \A d \in Envio : envio'[d] = "PENDENTE" => envio[d] = "PENDENTE"
        BY <3>1
      <4>2. \A i \in Job : Acting(i) => Acting(i)'
        BY <2>5, <3>1 DEF Acting
      <4> QED
        BY <2>2, <4>1, <4>2, StillPending DEF WorkInv
    <3>3. RollupIsCarried'
      <4> HIDE DEF e, r
      <4> SUFFICES ASSUME NEW s \in Recipient, recipient'[s] = "PENDENTE"
                   PROVE  /\ \A m \in Messages : envio'[<<s, m>>] = "FALHOU" =>
                                 \E i \in Job : i[1] = <<s, m>> /\ finalizers'[i] \in {"reading", "writing"}
                          /\ (\A m \in Messages : envio'[<<s, m>>] = "ENVIADO") =>
                                 worker'.pc \in {"reading", "writing"} /\ CurrentEnvio'[1] = s
        BY DEF RollupIsCarried, CurrentEnvio
      <4>1. ASSUME NEW m \in Messages, envio'[<<s, m>>] = "FALHOU"
            PROVE  \E i \in Job : i[1] = <<s, m>> /\ finalizers'[i] \in {"reading", "writing"}
        <5>1. CASE <<s, m>> = e
          BY <3>1, <5>1 DEF e
        <5>2. CASE <<s, m>> # e
          <6>1. envio[<<s, m>>] = "FALHOU"
            BY <3>1, <4>1, <5>2, RecipientEnvios
          <6>2. PICK i \in Job : i[1] = <<s, m>> /\ finalizers[i] \in {"reading", "writing"}
            <7>1. recipient[s] = "PENDENTE"
              BY <3>1
            <7>2. RollupIsCarried
              BY DEF WorkInv
            <7> QED
              BY <6>1, <7>1, <7>2 DEF RollupIsCarried
          <6> QED
            BY <2>3, <3>1, <6>2
        <5> QED
          BY <5>1, <5>2
      <4>2. ASSUME \A m \in Messages : envio'[<<s, m>>] = "ENVIADO"
            PROVE  worker'.pc \in {"reading", "writing"} /\ CurrentEnvio'[1] = s
        <5>1. \A m \in Messages : <<s, m>> # e
          BY <3>1, <4>2
        <5>2. \A m \in Messages : envio[<<s, m>>] = "ENVIADO"
          BY <3>1, <4>2, <5>1, RecipientEnvios
        <5> QED
          BY <2>2, <3>1, <5>2 DEF WorkInv, RollupIsCarried
      <4> QED
        BY <4>1, <4>2
    <3> QED
      BY <2>4, <3>2, <3>3 DEF WorkInv
  <2>10. UNCHANGED <<envio, recipient>> \/ ApplyFailed(j) \/ (MarkFailed(j) /\ envio[e] # "none")
    BY <1>18 DEF Finalize, BeginFinalize, MarkFailed, ReadFailedOutcome, SettleFailed, PushDeadLetter, dbVars
  <2> QED
    BY <2>6, <2>7, <2>8, <2>9, <2>10
<1>19. ASSUME NEW j \in Job, FinalizeFails(j) PROVE WorkInv'
  BY <1>19, NeverSpent DEF FinalizeFails, NoLostStep, FaultKinds
<1>20. ASSUME ClearHistory \/ \E k \in Contacts : RemoveContact(k) PROVE WorkInv'
  <2>1. UNCHANGED <<jobs, worker, finalizers, requests>> /\ CurrentEnvio' = CurrentEnvio
    BY <1>20 DEF ClearHistory, RemoveContact, processVars, CurrentEnvio
  <2>2. \A e \in Envio : envio'[e] = "PENDENTE" => envio[e] = "PENDENTE"
    BY <1>20 DEF ClearHistory, RemoveContact
  <2>3. ASSUME NEW r \in Recipient, recipient'[r] = "PENDENTE"
        PROVE  recipient[r] = "PENDENTE" /\ \A m \in Messages : envio'[<<r, m>>] = envio[<<r, m>>]
    BY <1>20, <2>3, RecipientEnvios DEF ClearHistory, RemoveContact
  <2>4. ActiveIsHeld' /\ EnqueuedOnce'
    BY <2>1 DEF WorkInv, ActiveIsHeld, EnqueuedOnce
  <2>5. \A i \in Job : Acting(i) => Acting(i)'
    BY <2>1 DEF Acting
  <2>6. PendingIsCarried'
    BY <2>1, <2>2, <2>5, StillPending DEF WorkInv
  <2>7. RollupIsCarried'
    BY <2>1, <2>3, StillRolledUp DEF WorkInv
  <2> QED
    BY <2>4, <2>6, <2>7 DEF WorkInv
<1>21. ASSUME \/ \E k \in Contacts : EditContact(k) \/ ValidateContact(k)
              \/ ChangeSessionStatus \/ UNCHANGED vars
       PROVE  WorkInv'
  BY <1>21, <1>0 DEF EditContact, ValidateContact, ChangeSessionStatus, vars, dbVars, processVars
<1> QED
  BY <1>1, <1>2, <1>3, <1>4, <1>5, <1>6, <1>7, <1>8, <1>9, <1>10, <1>11, <1>12, <1>13, <1>14,
     <1>15, <1>16, <1>17, <1>18, <1>19, <1>20, <1>21
     DEF Next, Request, Process, Disturbance

\* As long as no step of a handler is lost, no recipient stays PENDENTE without a request, a job, the worker or
\* a listener to go on with one of its envios, whatever the user clears, removes or edits meanwhile.
THEOREM NobodyForgotten == ASSUME NoLostStep PROVE Spec => []NoRecipientForgotten
<1>1. Sober
  BY DEF NoLostStep, Sober, NoFailedTransaction, NoReplacedJobRuns
<1> DEFINE Inv == TypeInv /\ FreshInv /\ SoloInv /\ FateInv /\ WorkInv
<1>2. Init => Inv
  BY TypeInvInit, FreshInit, SoloInit, FateInit, WorkInit
<1>3. Inv /\ [Next]_vars => Inv'
  BY <1>1, TypeInvStep, FreshStep, SoloStep, FateStep, WorkStep DEF Sober
<1>4. Inv => NoRecipientForgotten
  <2> SUFFICES ASSUME Inv, NEW r \in Recipient, recipient[r] = "PENDENTE", requests[r[1]].pc # "enqueue"
               PROVE  \E m \in Messages : LET e == <<r, m>> IN
                          \/ envio[e] = "PENDENTE" /\ (Queued(e) \/ Finalizing(e))
                          \/ envio[e] # "PENDENTE" /\ (Busy(e) \/ Finalizing(e))
    BY DEF NoRecipientForgotten
  <2>1. CASE \E m \in Messages : envio[<<r, m>>] = "PENDENTE"
    <3>1. PICK m \in Messages : envio[<<r, m>>] = "PENDENTE"
      BY <2>1
    <3>2. PICK j \in Job : j[1] = <<r, m>> /\ Acting(j)
      BY <3>1, RecipientEnvios DEF WorkInv, PendingIsCarried
    <3>3. Queued(<<r, m>>) \/ Finalizing(<<r, m>>)
      BY <3>2 DEF Acting, Queued, Finalizing
    <3> QED
      BY <3>1, <3>3
  <2>2. CASE \E m \in Messages : envio[<<r, m>>] = "FALHOU"
    <3>1. PICK m \in Messages : envio[<<r, m>>] = "FALHOU"
      BY <2>2
    <3>2. Finalizing(<<r, m>>)
      BY ZenonT(60), <3>1 DEF WorkInv, RollupIsCarried, Finalizing
    <3> QED
      BY <3>1, <3>2
  <2>3. CASE \A m \in Messages : envio[<<r, m>>] = "ENVIADO"
    <3>1. worker.pc \in {"reading", "writing"} /\ CurrentEnvio[1] = r
      BY <2>3 DEF WorkInv, RollupIsCarried
    <3>2. worker.job \in Job /\ CurrentEnvio \in Envio /\ CurrentEnvio = <<r, CurrentEnvio[2]>> /\ CurrentEnvio[2] \in Messages
      BY <3>1, JobParts, EnvioPair DEF TypeInv, WorkerHoldsJob, CurrentEnvio
    <3>3. worker.job # NoJob
      <4>1. DOMAIN worker.job = 1 .. 2 /\ DOMAIN NoJob = {}
        BY <3>2 DEF Job, NoJob
      <4>2. 1 \in 1 .. 2
        OBVIOUS
      <4> QED
        BY <4>1, <4>2
    <3>4. Busy(<<r, CurrentEnvio[2]>>)
      BY <3>2, <3>3 DEF Busy
    <3> QED
      BY <2>3, <3>2, <3>4
  <2>4. \A m \in Messages : envio[<<r, m>>] \in {"PENDENTE", "ENVIADO", "FALHOU"}
    BY RecipientEnvios DEF TypeInv, TypeOK, RowStatus, FateInv, RowsInv
  <2> QED
    BY <2>1, <2>2, <2>3, <2>4
<1> QED
  BY <1>2, <1>3, <1>4, PTL DEF Spec

-----------------------------------------------------------------------------
(* The counters of a campaign *)

\* No contact is removed under a campaign and listeners do not overlap: removeContact leaves the counters, and
\* two listeners of one recipient may both count it.
OneByOne == Budget["remove"] = 0 /\ MaxFinalizers = 1

OneListener == \A i, j \in Job : finalizers[i] # "off" /\ finalizers[j] # "off" => i = j

\* Whoever is about to write an outcome writes the first one of its recipient.
FirstOutcome ==
    /\ \A j \in Job : finalizers[j] = "writing" => recipient[j[1][1]] \in {"none", "PENDENTE"}
    /\ worker.pc = "reading" => recipient[CurrentEnvio[1]] # "ENVIADO"
    /\ worker.pc = "writing" => recipient[CurrentEnvio[1]] \in {"none", "PENDENTE"}

\* A campaign that does not exist yet has the empty row; one that is over has nobody pending.
StatusInv ==
    \A c \in Campaigns :
        /\ campaign[c].status = "none" => campaign[c] = NoCampaign
        /\ campaign[c].status = "ENVIADA" => campaign[c].pending = 0

BucketInv == OneListener /\ FirstOutcome /\ StatusInv /\ BucketsMatchRecipients

LEMMA RecipientsFinite ==
    \A c, status : IsFiniteSet(RecipientsIn(c, status)) /\ Cardinality(RecipientsIn(c, status)) \in Nat
<1>1. IsFiniteSet(Recipient)
  BY SetsAssumption, FS_Product DEF Recipient
<1> QED
  BY <1>1, FS_Subset, FS_CardinalityType DEF RecipientsIn

\* createCampaign counts its recipients.
LEMMA CreatedSize ==
    ASSUME NEW c \in Campaigns, NEW chosen \in SUBSET Contacts, chosen # {}
    PROVE  Cardinality({c} \X chosen) \in 1 .. Cardinality(Contacts)
<1>1. IsFiniteSet({c}) /\ Cardinality({c}) = 1
  BY FS_Singleton
<1>2. IsFiniteSet(chosen) /\ Cardinality(chosen) <= Cardinality(Contacts)
  BY SetsAssumption, FS_Subset
<1>3. Cardinality(chosen) \in Nat /\ Cardinality(chosen) # 0
  BY <1>2, FS_CardinalityType, FS_EmptySet
<1>4. Cardinality({c} \X chosen) = Cardinality({c}) * Cardinality(chosen)
  BY <1>1, <1>2, FS_Product
<1> QED
  BY <1>1, <1>2, <1>3, <1>4, SetsAssumption, FS_CardinalityType

\* A first outcome moves one recipient from the pending bucket to its own.
LEMMA OneMoves ==
    ASSUME recipient \in [Recipient -> RowStatus], NEW r \in Recipient, recipient[r] = "PENDENTE",
           NEW outcome \in {"ENVIADO", "FALHOU"}, recipient' = [recipient EXCEPT ![r] = outcome],
           NEW c \in Campaigns, NEW status \in {"PENDENTE", "ENVIADO", "FALHOU"}
    PROVE  Cardinality(RecipientsIn(c, status)') = Cardinality(RecipientsIn(c, status))
               + (IF c = r[1] /\ status = outcome THEN 1 ELSE 0)
               - (IF c = r[1] /\ status = "PENDENTE" THEN 1 ELSE 0)
<1> DEFINE S == RecipientsIn(c, status)
<1>1. IsFiniteSet(S) /\ Cardinality(S) \in Nat
  BY RecipientsFinite
<1>2. CASE c = r[1] /\ status = outcome
  <2>1. RecipientsIn(c, status)' = S \cup {r} /\ r \notin S
    BY <1>2 DEF RecipientsIn
  <2>2. Cardinality(S \cup {r}) = Cardinality(S) + 1
    BY <1>1, <2>1, FS_AddElement
  <2> QED
    BY <1>1, <1>2, <2>1, <2>2
<1>3. CASE c = r[1] /\ status = "PENDENTE"
  <2>1. RecipientsIn(c, status)' = S \ {r} /\ r \in S
    BY <1>3 DEF RecipientsIn
  <2> QED
    BY SMTT(30), <1>1, <1>3, <2>1, FS_RemoveElement
<1>4. CASE c # r[1] \/ status \notin {outcome, "PENDENTE"}
  <2>1. RecipientsIn(c, status)' = S
    BY <1>4 DEF RecipientsIn
  <2> QED
    BY <1>1, <1>4, <2>1
<1> QED
  BY <1>2, <1>3, <1>4

\* The row of the campaign after a first outcome.
LEMMA RowMoves ==
    ASSUME TypeOK, RowsInv, StatusInv, BucketsMatchRecipients,
           NEW r \in Recipient, recipient[r] = "PENDENTE",
           NEW outcome \in {"ENVIADO", "FALHOU"}, WriteOutcome(r, outcome)
    PROVE  LET row == campaign[r[1]]
               left == row.pending - 1
           IN  /\ row.status = "PENDENTE" /\ row.pending > 0 /\ row.pending \in Nat
               /\ campaign' = [campaign EXCEPT ![r[1]] =
                      [status |-> IF left = 0 THEN "ENVIADA" ELSE "PENDENTE", total |-> row.total, pending |-> left,
                       sent |-> row.sent + (IF outcome = "ENVIADO" THEN 1 ELSE 0),
                       failed |-> row.failed + (IF outcome = "FALHOU" THEN 1 ELSE 0)]]
<1> DEFINE row == campaign[r[1]]
           left == row.pending - 1
<1>1. r[1] \in Campaigns /\ Live(r[1])
  BY RecipientPair DEF RowsInv
<1>2. r \in RecipientsIn(r[1], "PENDENTE") /\ row.pending = Cardinality(RecipientsIn(r[1], "PENDENTE"))
  BY <1>1 DEF RecipientsIn, BucketsMatchRecipients
<1>3. Cardinality(RecipientsIn(r[1], "PENDENTE")) \in Nat \ {0}
  BY <1>2, RecipientsFinite, FS_EmptySet
<1>4. row.pending \in Nat \ {0}
  BY <1>2, <1>3
<1>5. row.status = "PENDENTE"
  BY <1>1, <1>4 DEF StatusInv, Live
<1>6. DoneIfFinished(row.status, left) = IF left = 0 THEN "ENVIADA" ELSE "PENDENTE"
  BY <1>4, <1>5 DEF DoneIfFinished
<1>7. CampaignAfter(row, outcome) =
          [status |-> IF left = 0 THEN "ENVIADA" ELSE "PENDENTE", total |-> row.total, pending |-> left,
           sent |-> row.sent + (IF outcome = "ENVIADO" THEN 1 ELSE 0),
           failed |-> row.failed + (IF outcome = "FALHOU" THEN 1 ELSE 0)]
  BY <1>6 DEF CampaignAfter
<1>8. campaign' = [campaign EXCEPT ![r[1]] = CampaignAfter(row, outcome)]
  BY DEF WriteOutcome
<1> QED
  BY <1>4, <1>5, <1>7, <1>8

\* A first outcome keeps rows and buckets in step.
LEMMA BucketsMove ==
    ASSUME TypeOK, RowsInv, StatusInv, BucketsMatchRecipients,
           NEW r \in Recipient, recipient[r] = "PENDENTE",
           NEW outcome \in {"ENVIADO", "FALHOU"}, WriteOutcome(r, outcome)
    PROVE  StatusInv' /\ BucketsMatchRecipients'
<1> DEFINE row == campaign[r[1]]
           left == row.pending - 1
<1>1. r[1] \in Campaigns /\ Live(r[1])
  BY RecipientPair DEF RowsInv
<1>2. /\ row.status = "PENDENTE" /\ row.pending > 0 /\ row.pending \in Nat
      /\ campaign' = [campaign EXCEPT ![r[1]] =
             [status |-> IF left = 0 THEN "ENVIADA" ELSE "PENDENTE", total |-> row.total, pending |-> left,
              sent |-> row.sent + (IF outcome = "ENVIADO" THEN 1 ELSE 0),
              failed |-> row.failed + (IF outcome = "FALHOU" THEN 1 ELSE 0)]]
  BY RowMoves
<1>3. \A c \in Campaigns : c # r[1] => campaign'[c] = campaign[c]
  BY <1>2 DEF TypeOK
<1>4. /\ campaign'[r[1]].status = IF left = 0 THEN "ENVIADA" ELSE "PENDENTE"
      /\ campaign'[r[1]].pending = row.pending - 1
      /\ campaign'[r[1]].sent = row.sent + (IF outcome = "ENVIADO" THEN 1 ELSE 0)
      /\ campaign'[r[1]].failed = row.failed + (IF outcome = "FALHOU" THEN 1 ELSE 0)
  BY <1>1, <1>2 DEF TypeOK
<1>5. StatusInv'
  BY <1>2, <1>3, <1>4 DEF StatusInv
<1>6. recipient \in [Recipient -> RowStatus] /\ recipient' = [recipient EXCEPT ![r] = outcome]
  BY DEF TypeOK, WriteOutcome
<1>7. ASSUME NEW c \in Campaigns, Live(c)'
      PROVE  /\ campaign'[c].pending = Cardinality(RecipientsIn(c, "PENDENTE")')
             /\ campaign'[c].sent = Cardinality(RecipientsIn(c, "ENVIADO")')
             /\ campaign'[c].failed = Cardinality(RecipientsIn(c, "FALHOU")')
  <2>1. Live(c)
    BY <1>1, <1>3, <1>7 DEF Live
  <2>2. /\ campaign[c].pending = Cardinality(RecipientsIn(c, "PENDENTE"))
        /\ campaign[c].sent = Cardinality(RecipientsIn(c, "ENVIADO"))
        /\ campaign[c].failed = Cardinality(RecipientsIn(c, "FALHOU"))
    BY <2>1 DEF BucketsMatchRecipients
  <2>3. \A status \in {"PENDENTE", "ENVIADO", "FALHOU"} : Cardinality(RecipientsIn(c, status)) \in Nat
    BY RecipientsFinite
  <2>4. \A status \in {"PENDENTE", "ENVIADO", "FALHOU"} :
            Cardinality(RecipientsIn(c, status)') = Cardinality(RecipientsIn(c, status))
                + (IF c = r[1] /\ status = outcome THEN 1 ELSE 0)
                - (IF c = r[1] /\ status = "PENDENTE" THEN 1 ELSE 0)
    BY <1>6, OneMoves
  <2>5. CASE c = r[1]
    BY <1>4, <2>2, <2>3, <2>4, <2>5
  <2>6. CASE c # r[1]
    BY <1>3, <2>2, <2>3, <2>4, <2>6
  <2> QED
    BY <2>5, <2>6
<1>8. BucketsMatchRecipients'
  BY <1>7 DEF BucketsMatchRecipients
<1> QED
  BY <1>5, <1>8

\* Buckets stay while nothing is written to either table.
LEMMA BucketsStay ==
    ASSUME StatusInv, BucketsMatchRecipients, UNCHANGED <<recipient, campaign>>
    PROVE  StatusInv' /\ BucketsMatchRecipients'
<1>1. \A c, status : RecipientsIn(c, status)' = RecipientsIn(c, status)
  BY DEF RecipientsIn
<1>2. BucketsMatchRecipients'
  BY <1>1 DEF BucketsMatchRecipients, Live
<1> QED
  BY <1>2 DEF StatusInv

LEMMA BucketInit == Init => BucketInv
<1> SUFFICES ASSUME Init PROVE BucketInv
  OBVIOUS
<1>1. OneListener /\ FirstOutcome
  BY JobParts DEF Init, OneListener, FirstOutcome, IdleWorker
<1>2. StatusInv /\ BucketsMatchRecipients
  BY DEF Init, StatusInv, BucketsMatchRecipients, NoCampaign, Live
<1> QED
  BY <1>1, <1>2 DEF BucketInv

\* Every step keeps the counters exact.
LEMMA BucketStep ==
    ASSUME Sober, OneByOne
    PROVE  TypeInv /\ SoloInv /\ FateInv /\ BucketInv /\ [Next]_vars => BucketInv'
<1> SUFFICES ASSUME TypeInv, SoloInv, FateInv, BucketInv, [Next]_vars PROVE BucketInv'
  OBVIOUS
<1> USE DEF TypeInv, TypeOK, WorkerHoldsJob
<1> DEFINE Quiet ==
        /\ UNCHANGED <<recipient, campaign>>
        /\ \A j \in Job : finalizers'[j] # finalizers[j] => finalizers[j] # "off" /\ finalizers'[j] # "writing"
        /\ \/ worker'.pc \notin {"reading", "writing"}
           \/ worker'.pc = worker.pc /\ worker'.job = worker.job
<1>0. ASSUME Quiet PROVE BucketInv'
  <2>1. OneListener'
    BY <1>0 DEF BucketInv, OneListener
  <2>2. FirstOutcome'
    BY <1>0 DEF BucketInv, FirstOutcome, CurrentEnvio
  <2>3. StatusInv' /\ BucketsMatchRecipients'
    BY <1>0, BucketsStay DEF BucketInv
  <2> QED
    BY <2>1, <2>2, <2>3 DEF BucketInv
<1>1. ASSUME NEW c \in Campaigns, NEW chosen \in SUBSET Contacts, CreateCampaign(c, chosen)
      PROVE  BucketInv'
  <2> DEFINE rows == {c} \X chosen
  <2>1. /\ ~ Live(c) /\ UNCHANGED <<jobs, finalizers, worker>>
        /\ campaign'[c] = [status |-> "PENDENTE", total |-> Cardinality(rows),
                           pending |-> Cardinality(rows), sent |-> 0, failed |-> 0]
        /\ \A d \in Campaigns : d # c => campaign'[d] = campaign[d]
    BY <1>1 DEF CreateCampaign, Live
  <2>2. \A r \in Recipient : r[1] = c => recipient[r] = "none"
    BY <2>1 DEF FateInv, RowsInv
  <2>3. \A r \in Recipient : recipient'[r] = IF r \in rows THEN "PENDENTE" ELSE recipient[r]
    BY <1>1 DEF CreateCampaign
  <2>4. \A r \in rows : r \in Recipient /\ r[1] = c
    BY DEF Recipient
  <2> HIDE DEF rows
  <2>5. OneListener'
    BY <2>1 DEF BucketInv, OneListener
  <2>6. \A r \in Recipient : recipient'[r] = recipient[r] \/ (recipient[r] = "none" /\ recipient'[r] = "PENDENTE")
    BY <2>2, <2>3, <2>4
  <2>7. FirstOutcome'
    <3>1. worker.pc # "idle" => CurrentEnvio[1] \in Recipient
      BY JobParts DEF CurrentEnvio
    <3>2. CurrentEnvio' = CurrentEnvio
      BY <2>1 DEF CurrentEnvio
    <3> QED
      BY <2>1, <2>6, <3>1, <3>2, JobParts DEF BucketInv, FirstOutcome
  <2>8. StatusInv'
    BY <2>1 DEF BucketInv, StatusInv
  <2>9. ASSUME NEW d \in Campaigns, d = c
        PROVE  /\ RecipientsIn(d, "PENDENTE")' = rows
               /\ RecipientsIn(d, "ENVIADO")' = {}
               /\ RecipientsIn(d, "FALHOU")' = {}
    BY <2>2, <2>3, <2>4, <2>9 DEF RecipientsIn
  <2>10. ASSUME NEW d \in Campaigns, d # c, NEW status \in {"PENDENTE", "ENVIADO", "FALHOU"}
         PROVE  RecipientsIn(d, status)' = RecipientsIn(d, status)
    BY <2>3, <2>4, <2>10 DEF RecipientsIn
  <2>11. ASSUME NEW d \in Campaigns, Live(d)'
         PROVE  /\ campaign'[d].pending = Cardinality(RecipientsIn(d, "PENDENTE")')
                /\ campaign'[d].sent = Cardinality(RecipientsIn(d, "ENVIADO")')
                /\ campaign'[d].failed = Cardinality(RecipientsIn(d, "FALHOU")')
    <3>1. CASE d = c
      <4>1. campaign'[d].pending = Cardinality(rows) /\ campaign'[d].sent = 0 /\ campaign'[d].failed = 0
        BY <2>1, <3>1
      <4> QED
        BY <2>9, <3>1, <4>1, FS_EmptySet
    <3>2. CASE d # c
      <4>1. Live(d)
        BY <2>1, <2>11, <3>2 DEF Live
      <4> QED
        BY <2>1, <2>10, <3>2, <4>1 DEF BucketInv, BucketsMatchRecipients
    <3> QED
      BY <3>1, <3>2
  <2>12. BucketsMatchRecipients'
    BY <2>11 DEF BucketsMatchRecipients
  <2> QED
    BY <2>5, <2>7, <2>8, <2>12 DEF BucketInv
<1>2. ASSUME NEW c \in Campaigns, Request(c) \/ RequestFails(c) PROVE BucketInv'
  BY <1>2, <1>0 DEF Request, EnqueueCampaign, CountPending, EnsureWorker, RequestFails, dbVars
<1>3. ASSUME NEW j \in Job, TakeJob(j) \/ RecoverStalled(j) PROVE BucketInv'
  BY <1>3, <1>0 DEF TakeJob, RecoverStalled, dbVars, processVars
<1>4. ASSUME \/ SkipResolved \/ (\E n \in 1 .. MaxReschedules : Reschedule(n)) \/ BeginAttempt
             \/ SendMessage \/ AttemptFails \/ SettleSent \/ CompleteJob \/ LoseAck
      PROVE  BucketInv'
  <2>1. UNCHANGED <<recipient, campaign, finalizers>>
    BY <1>4 DEF SkipResolved, Reschedule, BeginAttempt, SendMessage, AttemptFails, SettleSent,
                CompleteJob, LoseAck, dbVars, processVars
  <2>2. worker'.pc \in {"idle", "sending", "marking", "threw", "returned"}
    <3>1. CASE SkipResolved \/ (\E n \in 1 .. MaxReschedules : Reschedule(n)) \/ BeginAttempt
      BY <3>1 DEF SkipResolved, Reschedule, BeginAttempt, Goto
    <3>2. CASE SendMessage \/ AttemptFails \/ SettleSent
      BY <3>2 DEF SendMessage, AttemptFails, SettleSent, Goto
    <3>3. CASE CompleteJob \/ LoseAck
      BY <3>3 DEF CompleteJob, LoseAck, IdleWorker
    <3> QED
      BY <1>4, <3>1, <3>2, <3>3
  <2> QED
    BY <1>0, <2>1, <2>2
<1>5. ASSUME MarkSent PROVE BucketInv'
  <2>1. /\ UNCHANGED <<recipient, campaign, finalizers>> /\ CurrentEnvio' = CurrentEnvio
        /\ worker.pc = "marking"
        /\ worker'.pc = IF envio[CurrentEnvio] = "none" THEN "threw" ELSE "reading"
    BY <1>5 DEF MarkSent, Goto, CurrentEnvio
  <2>2. CurrentEnvio \in Envio /\ CurrentEnvio[1] \in Recipient /\ CurrentEnvio[2] \in Messages
        /\ CurrentEnvio = <<CurrentEnvio[1], CurrentEnvio[2]>>
    BY <2>1, JobParts, EnvioPair DEF CurrentEnvio
  <2>3. envio[CurrentEnvio] \in {"none", "PENDENTE"}
    BY <2>1 DEF FateInv, WorkerInv
  <2>4. recipient[CurrentEnvio[1]] # "ENVIADO"
    BY <2>2, <2>3 DEF FateInv, RecipientReflectsEnvios
  <2>5. FirstOutcome'
    BY <2>1, <2>4 DEF BucketInv, FirstOutcome
  <2>6. OneListener' /\ StatusInv' /\ BucketsMatchRecipients'
    BY <2>1, BucketsStay DEF BucketInv, OneListener
  <2> QED
    BY <2>5, <2>6 DEF BucketInv
<1>6. ASSUME ReadOutcome PROVE BucketInv'
  <2>1. /\ UNCHANGED <<recipient, campaign, finalizers>> /\ CurrentEnvio' = CurrentEnvio
        /\ worker.pc = "reading"
        /\ worker'.pc = IF OutcomeApplies(CurrentEnvio[1], "ENVIADO") THEN "writing" ELSE "settling"
    BY <1>6 DEF ReadOutcome, Goto, CurrentEnvio, dbVars
  <2>2. CurrentEnvio[1] \in Recipient
    BY <2>1, JobParts DEF CurrentEnvio
  <2>3. FirstOutcome'
    BY <2>1, <2>2 DEF BucketInv, FirstOutcome, OutcomeApplies, RowStatus
  <2>4. OneListener' /\ StatusInv' /\ BucketsMatchRecipients'
    BY <2>1, BucketsStay DEF BucketInv, OneListener
  <2> QED
    BY <2>3, <2>4 DEF BucketInv
<1>7. ASSUME ApplySent PROVE BucketInv'
  <2> DEFINE r == CurrentEnvio[1]
  <2>1. r \in Recipient /\ worker.pc = "writing" /\ worker'.pc \in {"threw", "settling"} /\ finalizers' = finalizers
    BY <1>7, JobParts DEF ApplySent, CurrentEnvio, Goto
  <2> HIDE DEF r
  <2>2. recipient[r] \in {"none", "PENDENTE"}
    BY <2>1 DEF BucketInv, FirstOutcome, r
  <2>3. CASE recipient[r] = "none"
    BY <1>7, <1>0, <2>1, <2>3 DEF ApplySent, r
  <2>4. CASE recipient[r] = "PENDENTE"
    <3>1. WriteOutcome(r, "ENVIADO")
      BY <1>7, <2>4 DEF ApplySent, r
    <3>2. StatusInv' /\ BucketsMatchRecipients'
      BY <2>1, <2>4, <3>1, BucketsMove DEF BucketInv, FateInv
    <3>3. \A s \in Recipient : s # r => recipient'[s] = recipient[s]
      BY <3>1 DEF WriteOutcome
    <3>4. ASSUME NEW j \in Job, finalizers[j] = "writing" PROVE j[1][1] # r
      <4>1. j[1][1] \in Recipient /\ j[1][2] \in Messages /\ j[1] = <<j[1][1], j[1][2]>>
        BY JobParts, EnvioPair
      <4>2. envio[<<j[1][1], j[1][2]>>] \in {"none", "FALHOU"}
        BY <3>4, <4>1 DEF FateInv, ListenerInv
      <4>3. envio[<<r, j[1][2]>>] \in {"none", "ENVIADO"} /\ envio[<<r, j[1][2]>>] # "none"
        BY <2>1, <2>4, <4>1 DEF FateInv, WorkerInv, RowsInv, r
      <4> QED
        BY <4>2, <4>3
    <3>5. OneListener'
      BY <2>1 DEF BucketInv, OneListener
    <3>6. FirstOutcome'
      BY <2>1, <3>3, <3>4, JobParts DEF BucketInv, FirstOutcome
    <3> QED
      BY <3>2, <3>5, <3>6 DEF BucketInv
  <2> QED
    BY <2>2, <2>3, <2>4
<1>8. ASSUME StepFails \/ \E j \in Job : FinalizeFails(j) PROVE BucketInv'
  BY <1>8, NeverSpent DEF StepFails, FinalizeFails, Sober, NoFailedTransaction, FaultKinds
<1>9. ASSUME FailJob PROVE BucketInv'
  <2>1. UNCHANGED <<recipient, campaign>> /\ worker'.pc = "idle" /\ worker.job \in Job
    BY <1>9 DEF FailJob, dbVars, IdleWorker
  <2>2. CASE finalizers' = finalizers
    BY <1>0, <2>1, <2>2
  <2>3. CASE finalizers' # finalizers
    <3> DEFINE on == {j \in Job : finalizers[j] # "off"}
    <3>1. Definitive(jobs[worker.job].made + 1)
      BY <1>9, <2>3 DEF FailJob
    <3>2. Cardinality(on) < 1 /\ finalizers' = [finalizers EXCEPT ![worker.job] = "started"]
      BY <1>9, <3>1 DEF FailJob, OneByOne
    <3>3. IsFiniteSet(on)
      <4>1. IsFiniteSet(0 .. MaxReschedules)
        BY BoundsAssumption, FS_Interval
      <4>2. IsFiniteSet(Job)
        BY <4>1, SetsAssumption, FS_Product DEF Job, Envio, Recipient
      <4> QED
        BY <4>2, FS_Subset
    <3>4. on = {}
      <4>1. Cardinality(on) \in Nat
        BY <3>3, FS_CardinalityType
      <4>2. Cardinality(on) = 0
        BY <3>2, <4>1
      <4> QED
        BY <3>3, <4>2, FS_EmptySet
    <3>5. \A j \in Job : finalizers[j] = "off"
      BY <3>4
    <3>6. OneListener'
      BY <3>2, <3>5 DEF OneListener
    <3>7. FirstOutcome'
      BY <2>1, <3>2, <3>5 DEF FirstOutcome
    <3>8. StatusInv' /\ BucketsMatchRecipients'
      BY <2>1, BucketsStay DEF BucketInv
    <3> QED
      BY <3>6, <3>7, <3>8 DEF BucketInv
  <2> QED
    BY <2>2, <2>3
<1>10. ASSUME NEW j \in Job, BeginFinalize(j) \/ MarkFailed(j) \/ SettleFailed(j) \/ PushDeadLetter(j)
       PROVE  BucketInv'
  BY <1>10, <1>0 DEF BeginFinalize, MarkFailed, SettleFailed, PushDeadLetter, MoveTo, dbVars
<1>11. ASSUME NEW j \in Job, ReadFailedOutcome(j) PROVE BucketInv'
  <2> DEFINE r == j[1][1]
  <2>1. /\ UNCHANGED <<recipient, campaign, worker>> /\ finalizers[j] = "reading"
        /\ finalizers'[j] = IF OutcomeApplies(r, "FALHOU") THEN "writing" ELSE "settling"
        /\ \A i \in Job : i # j => finalizers'[i] = finalizers[i]
    BY <1>11 DEF ReadFailedOutcome, MoveTo, dbVars
  <2>2. r \in Recipient /\ j[1][2] \in Messages /\ j[1] = <<r, j[1][2]>>
    BY JobParts, EnvioPair
  <2>3. recipient[r] # "ENVIADO"
    <3>1. envio[<<r, j[1][2]>>] \in {"none", "FALHOU"}
      BY <2>1, <2>2 DEF FateInv, ListenerInv
    <3>2. recipient[r] = "ENVIADO" => envio[<<r, j[1][2]>>] = "ENVIADO"
      BY <2>2 DEF FateInv, RecipientReflectsEnvios
    <3> QED
      BY <3>1, <3>2
  <2>4. FirstOutcome'
    BY <2>1, <2>2, <2>3 DEF BucketInv, FirstOutcome, OutcomeApplies, CurrentEnvio, RowStatus
  <2>5. OneListener' /\ StatusInv' /\ BucketsMatchRecipients'
    BY <2>1, BucketsStay DEF BucketInv, OneListener
  <2> QED
    BY <2>4, <2>5 DEF BucketInv
<1>12. ASSUME NEW j \in Job, ApplyFailed(j) PROVE BucketInv'
  <2> DEFINE r == j[1][1]
  <2>1. /\ r \in Recipient /\ j[1][2] \in Messages /\ j[1] = <<r, j[1][2]>>
        /\ finalizers[j] = "writing" /\ finalizers'[j] \in {"off", "settling"}
        /\ worker' = worker /\ CurrentEnvio' = CurrentEnvio
        /\ \A i \in Job : i # j => finalizers'[i] = finalizers[i]
    BY <1>12, JobParts, EnvioPair DEF ApplyFailed, MoveTo, CurrentEnvio
  <2> HIDE DEF r
  <2>2. recipient[r] \in {"none", "PENDENTE"}
    BY <2>1 DEF BucketInv, FirstOutcome, r
  <2>3. CASE recipient[r] = "none"
    BY <1>12, <1>0, <2>1, <2>3 DEF ApplyFailed, r
  <2>4. CASE recipient[r] = "PENDENTE"
    <3>1. WriteOutcome(r, "FALHOU")
      BY <1>12, <2>4 DEF ApplyFailed, r
    <3>2. StatusInv' /\ BucketsMatchRecipients'
      BY <2>1, <2>4, <3>1, BucketsMove DEF BucketInv, FateInv
    <3>3. recipient'[r] = "FALHOU" /\ \A s \in Recipient : s # r => recipient'[s] = recipient[s]
      BY <2>1, <3>1 DEF WriteOutcome
    <3>4. OneListener'
      BY <2>1 DEF BucketInv, OneListener
    <3>5. \A i \in Job : finalizers'[i] # "writing"
      BY <2>1 DEF BucketInv, OneListener
    <3>6. worker.pc = "writing" => CurrentEnvio[1] # r
      <4>1. envio[<<r, j[1][2]>>] \in {"none", "FALHOU"} /\ envio[<<r, j[1][2]>>] # "none"
        BY <2>1, <2>4 DEF FateInv, ListenerInv, RowsInv, r
      <4> QED
        BY <2>1, <4>1 DEF FateInv, WorkerInv
    <3>7. worker.pc # "idle" => CurrentEnvio[1] \in Recipient
      BY JobParts DEF CurrentEnvio
    <3>8. FirstOutcome'
      BY <2>1, <3>3, <3>5, <3>6, <3>7 DEF BucketInv, FirstOutcome
    <3> QED
      BY <3>2, <3>4, <3>8 DEF BucketInv
  <2> QED
    BY <2>2, <2>3, <2>4
<1>13. ASSUME ClearHistory PROVE BucketInv'
  <2>1. /\ UNCHANGED <<finalizers, worker>>
        /\ \A r \in Recipient : recipient'[r] = "none"
        /\ \A c \in Campaigns : campaign'[c] = NoCampaign \/ campaign'[c].status = "deleted"
    BY <1>13 DEF ClearHistory, processVars, NoCampaign
  <2>2. OneListener' /\ StatusInv' /\ BucketsMatchRecipients'
    BY <2>1 DEF BucketInv, OneListener, StatusInv, BucketsMatchRecipients, Live, NoCampaign
  <2>3. worker.pc # "idle" => CurrentEnvio[1] \in Recipient
    BY JobParts DEF CurrentEnvio
  <2>4. FirstOutcome'
    BY <2>1, <2>3, JobParts DEF FirstOutcome, CurrentEnvio
  <2> QED
    BY <2>2, <2>4 DEF BucketInv
<1>14. ASSUME NEW k \in Contacts, RemoveContact(k) PROVE BucketInv'
  BY <1>14, NeverSpent DEF RemoveContact, OneByOne, FaultKinds
<1>15. ASSUME Crash PROVE BucketInv'
  BY <1>15, <1>0 DEF Crash, dbVars, IdleWorker
<1>16. ASSUME \/ \E k \in Contacts : EditContact(k) \/ ValidateContact(k)
              \/ ChangeSessionStatus \/ UNCHANGED vars
       PROVE  BucketInv'
  BY <1>16, <1>0 DEF EditContact, ValidateContact, ChangeSessionStatus, vars, dbVars, processVars
<1> QED
  BY <1>1, <1>2, <1>3, <1>4, <1>5, <1>6, <1>7, <1>8, <1>9, <1>10, <1>11, <1>12, <1>13, <1>14, <1>15, <1>16
     DEF Next, Process, Finalize, Disturbance

\* The denormalised counters of every campaign are the counts of its recipients in each status, whatever crashes,
\* lost acknowledgements and clearings occur (applyRecipientOutcome, schema.prisma 360-370).
THEOREM BucketsAreExact == ASSUME Sober, OneByOne PROVE Spec => []BucketsMatchRecipients
<1> DEFINE Inv == TypeInv /\ FreshInv /\ SoloInv /\ FateInv /\ BucketInv
<1>1. Init => Inv
  BY TypeInvInit, FreshInit, SoloInit, FateInit, BucketInit
<1>2. Inv /\ [Next]_vars => Inv'
  BY TypeInvStep, FreshStep, SoloStep, FateStep, BucketStep DEF Sober
<1>3. Inv => BucketsMatchRecipients
  BY DEF BucketInv
<1> QED
  BY <1>1, <1>2, <1>3, PTL DEF Spec

-----------------------------------------------------------------------------
(* The refinement of CampaignProgress *)

\* The transaction of createCampaign is the creation of a campaign of as many contacts as it chose.
LEMMA CreateIsCreate ==
    ASSUME NEW c \in Campaigns, NEW chosen \in SUBSET Contacts, CreateCampaign(c, chosen)
    PROVE  Progress!Create(c)
BY CreatedSize DEF CreateCampaign, Progress!Create

\* The row of a campaign field by field.
LEMMA RowUpdates ==
    ASSUME NEW row \in CampaignRow, NEW left, NEW done
    PROVE  /\ [row EXCEPT !.pending = left, !.status = done, !.sent = @ + 1] =
                  [status |-> done, total |-> row.total, pending |-> left, sent |-> row.sent + 1, failed |-> row.failed + 0]
           /\ [row EXCEPT !.pending = left, !.status = done, !.failed = @ + 1] =
                  [status |-> done, total |-> row.total, pending |-> left, sent |-> row.sent + 0, failed |-> row.failed + 1]
<1> DEFINE one == [row EXCEPT !.pending = left]
           two == [one EXCEPT !.status = done]
           sent == [two EXCEPT !.sent = @ + 1]
           failed == [two EXCEPT !.failed = @ + 1]
<1>1. /\ [row EXCEPT !.pending = left, !.status = done, !.sent = @ + 1] = sent
      /\ [row EXCEPT !.pending = left, !.status = done, !.failed = @ + 1] = failed
  OBVIOUS
<1>2. row.sent + 0 = row.sent /\ row.failed + 0 = row.failed
  BY DEF CampaignRow
<1>3. one = [status |-> row.status, total |-> row.total, pending |-> left, sent |-> row.sent, failed |-> row.failed]
  BY DEF CampaignRow
<1> HIDE DEF one
<1>4. two = [status |-> done, total |-> row.total, pending |-> left, sent |-> row.sent, failed |-> row.failed]
  BY <1>3
<1> HIDE DEF two
<1>5. sent = [status |-> done, total |-> row.total, pending |-> left, sent |-> row.sent + 1, failed |-> row.failed]
  BY <1>4
<1>6. failed = [status |-> done, total |-> row.total, pending |-> left, sent |-> row.sent, failed |-> row.failed + 1]
  BY <1>4
<1> QED
  BY <1>1, <1>2, <1>5, <1>6

\* The first outcome of a recipient is its resolution.
LEMMA OutcomeIsResolve ==
    ASSUME TypeOK, FateInv, BucketInv, NEW r \in Recipient, recipient[r] = "PENDENTE",
           NEW outcome \in {"ENVIADO", "FALHOU"}, WriteOutcome(r, outcome)
    PROVE  Progress!Resolve(r[1])
<1> DEFINE row == campaign[r[1]]
           left == row.pending - 1
           done == IF left = 0 THEN "ENVIADA" ELSE "PENDENTE"
<1>1. /\ row.status = "PENDENTE" /\ row.pending > 0 /\ row.pending \in Nat
      /\ campaign' = [campaign EXCEPT ![r[1]] =
             [status |-> IF left = 0 THEN "ENVIADA" ELSE "PENDENTE", total |-> row.total, pending |-> left,
              sent |-> row.sent + (IF outcome = "ENVIADO" THEN 1 ELSE 0),
              failed |-> row.failed + (IF outcome = "FALHOU" THEN 1 ELSE 0)]]
  BY RowMoves DEF FateInv, BucketInv
<1>2. r[1] \in Campaigns /\ row \in CampaignRow
  BY RecipientPair DEF TypeOK
<1>3. CASE outcome = "ENVIADO"
  <2>1. campaign' = [campaign EXCEPT ![r[1]] =
            [status |-> done, total |-> row.total, pending |-> left, sent |-> row.sent + 1, failed |-> row.failed + 0]]
    BY <1>1, <1>3
  <2>2. campaign' = [campaign EXCEPT ![r[1]] = [row EXCEPT !.pending = left, !.status = done, !.sent = @ + 1]]
    <3> HIDE DEF row, left, done
    <3> QED
      BY <1>2, <2>1, RowUpdates
  <2> QED
    BY <1>1, <1>2, <2>2 DEF Progress!Resolve, TypeOK
<1>4. CASE outcome = "FALHOU"
  <2>1. campaign' = [campaign EXCEPT ![r[1]] =
            [status |-> done, total |-> row.total, pending |-> left, sent |-> row.sent + 0, failed |-> row.failed + 1]]
    BY <1>1, <1>4
  <2>2. campaign' = [campaign EXCEPT ![r[1]] = [row EXCEPT !.pending = left, !.status = done, !.failed = @ + 1]]
    <3> HIDE DEF row, left, done
    <3> QED
      BY <1>2, <2>1, RowUpdates
  <2> QED
    BY <1>1, <1>2, <2>2 DEF Progress!Resolve, TypeOK
<1> QED
  BY <1>3, <1>4

\* Every step is a step of CampaignProgress or leaves the rows of the campaigns alone.
LEMMA ProgressStep ==
    ASSUME Sober, OneByOne
    PROVE  TypeInv /\ FateInv /\ BucketInv /\ [Next]_vars => [Progress!Next]_campaign
<1> SUFFICES ASSUME TypeInv, FateInv, BucketInv, [Next]_vars PROVE Progress!Next \/ UNCHANGED campaign
  OBVIOUS
<1> USE DEF TypeInv, WorkerHoldsJob
<1>1. CASE \E c \in Campaigns, chosen \in SUBSET Contacts : CreateCampaign(c, chosen)
  BY <1>1, CreateIsCreate DEF Progress!Next
<1>2. CASE ApplySent
  <2>1. CurrentEnvio[1] \in Recipient /\ recipient[CurrentEnvio[1]] \in {"none", "PENDENTE"}
    BY <1>2, JobParts DEF ApplySent, CurrentEnvio, BucketInv, FirstOutcome
  <2>2. CASE recipient[CurrentEnvio[1]] = "PENDENTE"
    BY <1>2, <2>1, <2>2, OutcomeIsResolve, RecipientPair DEF ApplySent, Progress!Next
  <2> QED
    BY <1>2, <2>1, <2>2 DEF ApplySent
<1>3. ASSUME NEW j \in Job, ApplyFailed(j) PROVE Progress!Next \/ UNCHANGED campaign
  <2>1. j[1][1] \in Recipient /\ recipient[j[1][1]] \in {"none", "PENDENTE"}
    BY <1>3, JobParts DEF ApplyFailed, BucketInv, FirstOutcome
  <2>2. CASE recipient[j[1][1]] = "PENDENTE"
    BY <1>3, <2>1, <2>2, OutcomeIsResolve, RecipientPair DEF ApplyFailed, Progress!Next
  <2> QED
    BY <1>3, <2>1, <2>2 DEF ApplyFailed
<1>4. CASE ClearHistory
  <2>1. \A c \in Campaigns : campaign[c].status = "none" => campaign[c] = NoCampaign
    BY DEF BucketInv, StatusInv
  <2>2. [NoCampaign EXCEPT !.status = "deleted"] = Progress!Absent("deleted")
    BY DEF NoCampaign, Progress!Absent
  <2> QED
    BY <1>4, <2>1, <2>2 DEF ClearHistory, Progress!Clear, Progress!Next
<1>5. CASE \E c \in Campaigns : Request(c) \/ RequestFails(c)
  BY <1>5 DEF Request, EnqueueCampaign, CountPending, EnsureWorker, RequestFails, dbVars
<1>6. CASE \E j \in Job : TakeJob(j) \/ RecoverStalled(j) \/ Finalize(j) \/ FinalizeFails(j)
  BY <1>6, <1>3 DEF TakeJob, RecoverStalled, Finalize, BeginFinalize, MarkFailed, ReadFailedOutcome,
                    SettleFailed, PushDeadLetter, FinalizeFails, dbVars
<1>7. CASE Process
  BY <1>7, <1>2 DEF Process, SkipResolved, Reschedule, BeginAttempt, SendMessage, AttemptFails, MarkSent,
                    ReadOutcome, SettleSent, CompleteJob, FailJob, dbVars
<1>8. CASE \/ StepFails \/ LoseAck \/ Crash \/ ChangeSessionStatus
           \/ \E k \in Contacts : RemoveContact(k) \/ EditContact(k) \/ ValidateContact(k)
           \/ UNCHANGED vars
  BY <1>8 DEF StepFails, LoseAck, Crash, ChangeSessionStatus, RemoveContact, EditContact, ValidateContact,
              vars, dbVars
<1> QED
  BY <1>1, <1>4, <1>5, <1>6, <1>7, <1>8 DEF Next, Disturbance

\* Seen through their counters the campaigns do what the progress bar of the app promises: created whole, resolved
\* one contact at a time and once, over exactly when nobody is pending, gone when cleared.
THEOREM PipelineImplementsProgress == ASSUME Sober, OneByOne PROVE Spec => ImplementsProgress
<1> DEFINE Inv == TypeInv /\ FreshInv /\ SoloInv /\ FateInv /\ BucketInv
<1>1. Init => Inv
  BY TypeInvInit, FreshInit, SoloInit, FateInit, BucketInit
<1>2. Inv /\ [Next]_vars => Inv'
  BY TypeInvStep, FreshStep, SoloStep, FateStep, BucketStep DEF Sober
<1>3. Inv /\ [Next]_vars => [Progress!Next]_campaign
  BY ProgressStep
<1>4. Init => Progress!Init
  BY DEF Init, Progress!Init, NoCampaign, Progress!Absent
<1> QED
  BY <1>1, <1>2, <1>3, <1>4, PTL DEF Spec, ImplementsProgress, Progress!Spec

-----------------------------------------------------------------------------
(* The counters of the session and the dead-letter queue *)

\* No row is deleted: clearHistory and removeContact leave the counters of the session.
NoDeletion == Budget["clear"] = 0 /\ Budget["remove"] = 0

\* Envios appear with their request, stay PENDENTE until their jobs exist, and outlive their jobs.
ExistInv ==
    /\ \A c \in Campaigns : requests[c].pc = "none" => \A e \in Envio : e[1][1] = c => envio[e] = "none"
    /\ \A c \in Campaigns : requests[c].pc = "enqueue" =>
           \A e \in Envio : e[1][1] = c => envio[e] \in {"none", "PENDENTE"}
    /\ \A j \in Job : jobs[j].state # "none" => envio[j[1]] # "none"

\* The worker owes the session the envio it has just marked ENVIADO.
OwesSent == IF worker.pc \in {"reading", "writing", "settling"} THEN 1 ELSE 0
SentInv == session.sent + OwesSent = Cardinality(EnviosIn("ENVIADO"))

\* So does every listener between the terminal transition of its envio and the session's counters.
OwingFailure == {j \in Job : finalizers[j] \in {"reading", "writing", "settling"}}
FailedInv == session.failures + Cardinality(OwingFailure) = Cardinality(EnviosIn("FALHOU"))

\* Each definitive failure reaches the dead-letter queue once, when its listener ends.
LetterInv ==
    \A e \in Envio :
        deadLetter[e] = IF envio[e] = "FALHOU" /\ \A j \in Job : j[1] = e => finalizers[j] = "off" THEN 1 ELSE 0

\* The session has counted the envios of the requests that got past it.
EnviosOf(c) == {e \in Envio : e[1][1] = c /\ envio[e] # "none"}
Counted == {e \in Envio : requests[e[1][1]].pc \in {"ensure", "end"} /\ envio[e] # "none"}
PendingInv ==
    /\ \A c \in Campaigns : requests[c].pc = "count" => requests[c].n = Cardinality(EnviosOf(c))
    /\ session.pending + session.sent + session.failures = Cardinality(Counted)

LEMMA JobsFinite == \A S : S \subseteq Job => IsFiniteSet(S) /\ Cardinality(S) \in Nat
<1>1. IsFiniteSet(0 .. MaxReschedules)
  BY BoundsAssumption, FS_Interval
<1>2. IsFiniteSet(Job)
  BY <1>1, SetsAssumption, FS_Product DEF Job, Envio, Recipient
<1> QED
  BY <1>2, FS_Subset, FS_CardinalityType

LEMMA EnviosFinite == \A S : S \subseteq Envio => IsFiniteSet(S) /\ Cardinality(S) \in Nat
<1>1. IsFiniteSet(Envio)
  BY SetsAssumption, FS_Product DEF Envio, Recipient
<1> QED
  BY <1>1, FS_Subset, FS_CardinalityType

\* Disjoint sets count separately.
LEMMA DisjointCount ==
    ASSUME NEW S, NEW T, IsFiniteSet(S), IsFiniteSet(T), S \cap T = {}
    PROVE  Cardinality(S \cup T) = Cardinality(S) + Cardinality(T)
<1>1. Cardinality(S \cup T) = Cardinality(S) + Cardinality(T) - Cardinality(S \cap T)
  BY FS_Union
<1>2. Cardinality(S \cap T) = 0 /\ Cardinality(S) \in Nat /\ Cardinality(T) \in Nat
  BY FS_EmptySet, FS_CardinalityType
<1> QED
  BY <1>1, <1>2

\* What the faults set aside would do does not happen.
LEMMA Undisturbed ==
    ASSUME TypeInv, NoLostStep, NoDeletion
    PROVE  /\ ~ (\E c \in Campaigns : RequestFails(c))
           /\ ~ StepFails /\ ~ LoseAck /\ ~ Crash /\ ~ ClearHistory
           /\ ~ (\E j \in Job : FinalizeFails(j))
           /\ ~ (\E k \in Contacts : RemoveContact(k))
BY NeverSpent DEF RequestFails, StepFails, LoseAck, Crash, ClearHistory, FinalizeFails, RemoveContact,
                  NoLostStep, NoDeletion, FaultKinds

\* The steps that write no envio.
LEMMA EnvioStays ==
    ASSUME TypeInv, NoLostStep, NoDeletion, [Next]_vars,
           ~ (\E c \in Campaigns, chosen \in SUBSET Contacts : CreateCampaign(c, chosen)),
           ~ MarkSent, ~ (\E j \in Job : MarkFailed(j))
    PROVE  envio' = envio
<1>1. CASE \E c \in Campaigns : Request(c)
  BY <1>1 DEF Request, EnqueueCampaign, CountPending, EnsureWorker, dbVars
<1>2. CASE \E j \in Job : TakeJob(j) \/ RecoverStalled(j) \/ Finalize(j)
  BY <1>2 DEF TakeJob, RecoverStalled, Finalize, BeginFinalize, ReadFailedOutcome, ApplyFailed,
              SettleFailed, PushDeadLetter, dbVars
<1>3. CASE Process
  BY <1>3 DEF Process, SkipResolved, Reschedule, BeginAttempt, SendMessage, AttemptFails,
              ReadOutcome, ApplySent, SettleSent, CompleteJob, FailJob, dbVars
<1>4. CASE (\E k \in Contacts : EditContact(k) \/ ValidateContact(k)) \/ ChangeSessionStatus \/ UNCHANGED vars
  BY <1>4 DEF EditContact, ValidateContact, ChangeSessionStatus, vars, dbVars
<1> QED
  BY <1>1, <1>2, <1>3, <1>4, Undisturbed DEF Next, Disturbance

\* The three that do: envios are created PENDENTE, and one of them becomes ENVIADO or FALHOU.
LEMMA CreatedPending ==
    ASSUME FateInv, NEW c \in Campaigns, NEW chosen \in SUBSET Contacts, CreateCampaign(c, chosen), NEW e \in Envio
    PROVE  \/ envio'[e] = envio[e]
           \/ e[1][1] = c /\ envio[e] = "none" /\ envio'[e] = "PENDENTE"
<1>1. ~ Live(c)
  BY DEF CreateCampaign, Live
<1>2. e[1] \in {c} \X chosen => e[1][1] = c /\ envio[e] = "none"
  BY <1>1, EnvioPair DEF FateInv, RowsInv
<1> QED
  BY <1>2 DEF CreateCampaign

LEMMA MarkedSent ==
    ASSUME TypeInv, FateInv, ExistInv, MarkSent
    PROVE  /\ CurrentEnvio \in Envio /\ worker.job \in Job /\ CurrentEnvio = worker.job[1]
           /\ jobs[worker.job].state = "active"
           /\ envio[CurrentEnvio] = "PENDENTE" /\ envio' = [envio EXCEPT ![CurrentEnvio] = "ENVIADO"]
           /\ worker.pc = "marking" /\ worker' = [worker EXCEPT !.pc = "reading"]
<1>1. CurrentEnvio \in Envio /\ worker.job \in Job /\ CurrentEnvio = worker.job[1]
      /\ worker.pc = "marking" /\ jobs[worker.job].state = "active"
  BY JobParts DEF MarkSent, CurrentEnvio, TypeInv, WorkerHoldsJob
<1>2. envio[CurrentEnvio] = "PENDENTE"
  BY <1>1 DEF FateInv, WorkerInv, ExistInv
<1> QED
  BY <1>1, <1>2 DEF MarkSent, Goto

LEMMA MarkedFailed ==
    ASSUME TypeInv, SoloInv, FateInv, ExistInv, NEW j \in Job, MarkFailed(j)
    PROVE  /\ j[1] \in Envio /\ jobs[j].state = "failed"
           /\ envio[j[1]] = "PENDENTE" /\ envio' = [envio EXCEPT ![j[1]] = "FALHOU"]
           /\ finalizers[j] = "failing" /\ finalizers' = [finalizers EXCEPT ![j] = "reading"]
<1>1. j[1] \in Envio /\ finalizers[j] = "failing" /\ jobs[j].state = "failed"
  BY JobParts DEF MarkFailed, SoloInv, ListensLast
<1>2. envio[j[1]] = "PENDENTE"
  BY <1>1 DEF FateInv, ListenerInv, ExistInv
<1> QED
  BY <1>1, <1>2 DEF MarkFailed, MoveTo

LEMMA OutcomeCounts ==
    ASSUME envio \in [Envio -> RowStatus], NEW e \in Envio, envio[e] = "PENDENTE",
           NEW outcome \in {"ENVIADO", "FALHOU"}, envio' = [envio EXCEPT ![e] = outcome],
           NEW status \in {"ENVIADO", "FALHOU"}
    PROVE  Cardinality(EnviosIn(status)') = Cardinality(EnviosIn(status)) + (IF status = outcome THEN 1 ELSE 0)
<1>1. IsFiniteSet(EnviosIn(status)) /\ Cardinality(EnviosIn(status)) \in Nat
  BY EnviosFinite DEF EnviosIn
<1>2. CASE status = outcome
  <2>1. EnviosIn(status)' = EnviosIn(status) \cup {e} /\ e \notin EnviosIn(status)
    BY <1>2 DEF EnviosIn
  <2>2. Cardinality(EnviosIn(status) \cup {e}) = Cardinality(EnviosIn(status)) + 1
    BY <1>1, <2>1, FS_AddElement
  <2> QED
    BY <1>1, <1>2, <2>1, <2>2
<1>3. CASE status # outcome
  <2>1. EnviosIn(status)' = EnviosIn(status)
    BY <1>3 DEF EnviosIn
  <2> QED
    BY <1>1, <1>3, <2>1
<1> QED
  BY <1>2, <1>3

\* Creating envios resolves none.
LEMMA CreateCounts ==
    ASSUME FateInv, NEW c \in Campaigns, NEW chosen \in SUBSET Contacts, CreateCampaign(c, chosen),
           NEW status \in {"ENVIADO", "FALHOU"}
    PROVE  EnviosIn(status)' = EnviosIn(status)
BY CreatedPending DEF EnviosIn

-----------------------------------------------------------------------------
(* Existence of rows *)

LEMMA ExistStep ==
    ASSUME NoLostStep, NoDeletion
    PROVE  TypeInv /\ FreshInv /\ SoloInv /\ FateInv /\ WorkInv /\ ExistInv /\ [Next]_vars => ExistInv'
<1> SUFFICES ASSUME TypeInv, FreshInv, SoloInv, FateInv, WorkInv, ExistInv, [Next]_vars PROVE ExistInv'
  OBVIOUS
<1> USE DEF TypeInv, TypeOK, WorkerHoldsJob
<1> DEFINE Quiet ==
        /\ envio' = envio
        /\ \A c \in Campaigns : requests'[c].pc \in {"none", "enqueue"} => requests'[c].pc = requests[c].pc
        /\ \A j \in Job : jobs'[j].state # "none" => jobs[j].state # "none" \/ envio[j[1]] # "none"
<1>0. ASSUME Quiet PROVE ExistInv'
  BY <1>0 DEF ExistInv
<1>1. ASSUME NEW c \in Campaigns, NEW chosen \in SUBSET Contacts, CreateCampaign(c, chosen)
      PROVE  ExistInv'
  <2>1. /\ jobs' = jobs /\ requests'[c].pc = "enqueue"
        /\ \A d \in Campaigns : d # c => requests'[d] = requests[d]
    BY <1>1 DEF CreateCampaign
  <2>2. \A e \in Envio : \/ envio'[e] = envio[e]
                         \/ e[1][1] = c /\ envio[e] = "none" /\ envio'[e] = "PENDENTE"
    BY <1>1, CreatedPending
  <2>3. campaign[c].status = "none" /\ requests[c].pc = "none"
    BY <1>1 DEF CreateCampaign, FreshInv
  <2> QED
    BY <2>1, <2>2, <2>3, JobParts DEF ExistInv
<1>2. ASSUME NEW c \in Campaigns, EnqueueCampaign(c) PROVE ExistInv'
  <2>1. envio' = envio /\ requests'[c].pc \in {"end", "count"} /\ \A d \in Campaigns : d # c => requests'[d] = requests[d]
    BY <1>2 DEF EnqueueCampaign, dbVars
  <2>2. ASSUME NEW j \in Job PROVE jobs'[j] = jobs[j] \/ envio[j[1]] = "PENDENTE"
    BY <1>2 DEF EnqueueCampaign, PendingEnvios
  <2> QED
    BY <1>0, <2>1, <2>2
<1>3. ASSUME NEW c \in Campaigns, CountPending(c) \/ EnsureWorker(c) PROVE ExistInv'
  BY <1>3, <1>0 DEF CountPending, EnsureWorker, dbVars
<1>4. ASSUME NEW j \in Job, TakeJob(j) \/ RecoverStalled(j) PROVE ExistInv'
  BY <1>4, <1>0 DEF TakeJob, RecoverStalled, dbVars, processVars
<1>5. ASSUME NEW n \in 1 .. MaxReschedules, Reschedule(n) PROVE ExistInv'
  <2>1. envio' = envio /\ requests' = requests
    BY <1>5 DEF Reschedule, dbVars
  <2>2. ASSUME NEW j \in Job PROVE jobs'[j] = jobs[j] \/ envio[j[1]] = "PENDENTE"
    BY <1>5 DEF Reschedule, CurrentEnvio, Unresolved
  <2> QED
    BY <1>0, <2>1, <2>2
<1>6. ASSUME \/ SkipResolved \/ BeginAttempt \/ SendMessage \/ AttemptFails \/ ReadOutcome \/ ApplySent \/ SettleSent
      PROVE  ExistInv'
  BY <1>6, <1>0 DEF SkipResolved, BeginAttempt, SendMessage, AttemptFails, ReadOutcome, ApplySent, SettleSent, dbVars
<1>7. ASSUME CompleteJob \/ FailJob PROVE ExistInv'
  <2>1. envio' = envio /\ requests' = requests /\ worker.job \in Job /\ jobs[worker.job].state = "active"
        /\ \A j \in Job : j # worker.job => jobs'[j] = jobs[j]
    BY <1>7 DEF CompleteJob, FailJob, dbVars
  <2> QED
    BY <1>0, <2>1
<1>8. ASSUME MarkSent PROVE ExistInv'
  <2>1. UNCHANGED <<jobs, requests>>
    BY <1>8 DEF MarkSent
  <2>2. /\ CurrentEnvio \in Envio /\ CurrentEnvio[1][1] \in Campaigns /\ requests[CurrentEnvio[1][1]].pc # "enqueue"
        /\ envio[CurrentEnvio] = "PENDENTE" /\ envio' = [envio EXCEPT ![CurrentEnvio] = "ENVIADO"]
    BY <1>8, MarkedSent, JobParts DEF WorkInv, EnqueuedOnce
  <2> QED
    BY <2>1, <2>2, JobParts DEF ExistInv
<1>9. ASSUME NEW j \in Job, MarkFailed(j) PROVE ExistInv'
  <2>1. UNCHANGED <<jobs, requests>>
    BY <1>9 DEF MarkFailed
  <2>2. /\ j[1] \in Envio /\ j[1][1][1] \in Campaigns /\ requests[j[1][1][1]].pc # "enqueue"
        /\ envio[j[1]] = "PENDENTE" /\ envio' = [envio EXCEPT ![j[1]] = "FALHOU"]
    BY <1>9, MarkedFailed, JobParts DEF WorkInv, EnqueuedOnce
  <2> QED
    BY <2>1, <2>2, JobParts DEF ExistInv
<1>10. ASSUME NEW j \in Job, BeginFinalize(j) \/ ReadFailedOutcome(j) \/ ApplyFailed(j) \/ SettleFailed(j) \/ PushDeadLetter(j)
       PROVE  ExistInv'
  BY <1>10, <1>0 DEF BeginFinalize, ReadFailedOutcome, ApplyFailed, SettleFailed, PushDeadLetter, dbVars
<1>11. ASSUME \/ \E k \in Contacts : EditContact(k) \/ ValidateContact(k)
              \/ ChangeSessionStatus \/ UNCHANGED vars
       PROVE  ExistInv'
  BY <1>11, <1>0 DEF EditContact, ValidateContact, ChangeSessionStatus, vars, dbVars, processVars
<1> QED
  BY <1>1, <1>2, <1>3, <1>4, <1>5, <1>6, <1>7, <1>8, <1>9, <1>10, <1>11, Undisturbed
     DEF Next, Request, Process, Finalize, Disturbance

-----------------------------------------------------------------------------
(* Counting sent and failed envios *)

LEMMA SentStep ==
    ASSUME NoLostStep, NoDeletion
    PROVE  TypeInv /\ SoloInv /\ FateInv /\ ExistInv /\ SentInv /\ [Next]_vars => SentInv'
<1> SUFFICES ASSUME TypeInv, SoloInv, FateInv, ExistInv, SentInv, [Next]_vars PROVE SentInv'
  OBVIOUS
<1> USE DEF TypeInv, TypeOK, WorkerHoldsJob
<1> DEFINE Owed == session'.sent + OwesSent' = session.sent + OwesSent
<1>0. ASSUME EnviosIn("ENVIADO")' = EnviosIn("ENVIADO"), Owed PROVE SentInv'
  BY <1>0 DEF SentInv
<1>1. envio' = envio => EnviosIn("ENVIADO")' = EnviosIn("ENVIADO")
  BY DEF EnviosIn
<1>2. UNCHANGED <<session, worker>> => Owed
  BY DEF OwesSent
<1>3. ASSUME NEW c \in Campaigns, NEW chosen \in SUBSET Contacts, CreateCampaign(c, chosen)
      PROVE  SentInv'
  BY <1>3, <1>0, <1>2, CreateCounts DEF CreateCampaign
<1>4. ASSUME NEW c \in Campaigns, EnqueueCampaign(c) PROVE SentInv'
  BY <1>4, <1>0, <1>1, <1>2 DEF EnqueueCampaign, dbVars
<1>5. ASSUME NEW c \in Campaigns, CountPending(c) PROVE SentInv'
  BY <1>5, <1>0, <1>1 DEF CountPending, OwesSent
<1>6. ASSUME NEW c \in Campaigns, EnsureWorker(c) PROVE SentInv'
  BY <1>6, <1>0, <1>1 DEF EnsureWorker, OwesSent, dbVars
<1>7. ASSUME NEW j \in Job, TakeJob(j) \/ RecoverStalled(j) PROVE SentInv'
  BY <1>7, <1>0, <1>1 DEF TakeJob, RecoverStalled, OwesSent, dbVars, processVars
<1>8. ASSUME SkipResolved \/ (\E n \in 1 .. MaxReschedules : Reschedule(n)) \/ BeginAttempt PROVE SentInv'
  BY <1>8, <1>0, <1>1 DEF SkipResolved, Reschedule, BeginAttempt, Goto, OwesSent, dbVars
<1>9. ASSUME SendMessage \/ AttemptFails \/ ReadOutcome PROVE SentInv'
  BY <1>9, <1>0, <1>1 DEF SendMessage, AttemptFails, ReadOutcome, Goto, OwesSent, dbVars
<1>10. ASSUME MarkSent PROVE SentInv'
  <2>1. /\ CurrentEnvio \in Envio /\ envio[CurrentEnvio] = "PENDENTE"
        /\ envio' = [envio EXCEPT ![CurrentEnvio] = "ENVIADO"]
        /\ worker.pc = "marking" /\ worker'.pc = "reading"
    BY <1>10, MarkedSent
  <2>2. Cardinality(EnviosIn("ENVIADO")') = Cardinality(EnviosIn("ENVIADO")) + 1
    BY <2>1, OutcomeCounts
  <2>3. session' = session /\ OwesSent = 0 /\ OwesSent' = 1
    BY <1>10, <2>1 DEF MarkSent, OwesSent
  <2> QED
    BY <2>2, <2>3 DEF SentInv
<1>11. ASSUME ApplySent PROVE SentInv'
  <2>1. worker.pc = "writing" /\ UNCHANGED <<session, envio>>
    BY <1>11 DEF ApplySent
  <2>2. CurrentEnvio \in Envio /\ CurrentEnvio[1] \in Recipient /\ CurrentEnvio[2] \in Messages
        /\ CurrentEnvio = <<CurrentEnvio[1], CurrentEnvio[2]>>
        /\ envio[CurrentEnvio] # "none"
    BY <2>1, JobParts, EnvioPair DEF CurrentEnvio, ExistInv
  <2>3. recipient[CurrentEnvio[1]] # "none"
    BY <2>2 DEF FateInv, RowsInv
  <2>4. worker'.pc = "settling"
    BY <1>11, <2>3 DEF ApplySent, Goto
  <2> QED
    BY <1>0, <1>1, <2>1, <2>4 DEF OwesSent
<1>12. ASSUME SettleSent PROVE SentInv'
  BY <1>12, <1>0, <1>1 DEF SettleSent, Goto, OwesSent
<1>13. ASSUME CompleteJob \/ FailJob PROVE SentInv'
  BY <1>13, <1>0, <1>1 DEF CompleteJob, FailJob, IdleWorker, OwesSent, dbVars
<1>14. ASSUME NEW j \in Job, MarkFailed(j) PROVE SentInv'
  <2>1. j[1] \in Envio /\ envio[j[1]] = "PENDENTE" /\ envio' = [envio EXCEPT ![j[1]] = "FALHOU"]
    BY <1>14, MarkedFailed
  <2>2. Cardinality(EnviosIn("ENVIADO")') = Cardinality(EnviosIn("ENVIADO")) + 0
    BY <2>1, OutcomeCounts
  <2>3. Cardinality(EnviosIn("ENVIADO")) \in Nat
    BY EnviosFinite DEF EnviosIn
  <2>4. Owed
    BY <1>14, <1>2 DEF MarkFailed
  <2> QED
    BY <2>2, <2>3, <2>4 DEF SentInv
<1>15. ASSUME NEW j \in Job, BeginFinalize(j) \/ ReadFailedOutcome(j) \/ ApplyFailed(j) \/ SettleFailed(j) \/ PushDeadLetter(j)
       PROVE  SentInv'
  BY <1>15, <1>0, <1>1 DEF BeginFinalize, ReadFailedOutcome, ApplyFailed, SettleFailed, PushDeadLetter, OwesSent, dbVars
<1>16. ASSUME \/ \E k \in Contacts : EditContact(k) \/ ValidateContact(k)
              \/ ChangeSessionStatus \/ UNCHANGED vars
       PROVE  SentInv'
  BY <1>16, <1>0, <1>1, <1>2 DEF EditContact, ValidateContact, ChangeSessionStatus, vars, dbVars, processVars
<1> QED
  BY <1>3, <1>4, <1>5, <1>6, <1>7, <1>8, <1>9, <1>10, <1>11, <1>12, <1>13, <1>14, <1>15, <1>16, Undisturbed
     DEF Next, Request, Process, Finalize, Disturbance

LEMMA FailedStep ==
    ASSUME NoLostStep, NoDeletion
    PROVE  TypeInv /\ SoloInv /\ FateInv /\ ExistInv /\ FailedInv /\ [Next]_vars => FailedInv'
<1> SUFFICES ASSUME TypeInv, SoloInv, FateInv, ExistInv, FailedInv, [Next]_vars PROVE FailedInv'
  OBVIOUS
<1> USE DEF TypeInv, TypeOK, WorkerHoldsJob
<1>0. ASSUME EnviosIn("FALHOU")' = EnviosIn("FALHOU"), OwingFailure' = OwingFailure,
             session'.failures = session.failures
      PROVE  FailedInv'
  BY <1>0 DEF FailedInv
<1>1. envio' = envio => EnviosIn("FALHOU")' = EnviosIn("FALHOU")
  BY DEF EnviosIn
<1>2. finalizers' = finalizers => OwingFailure' = OwingFailure
  BY DEF OwingFailure
<1>3. ASSUME NEW c \in Campaigns, NEW chosen \in SUBSET Contacts, CreateCampaign(c, chosen)
      PROVE  FailedInv'
  BY <1>3, <1>0, <1>2, CreateCounts DEF CreateCampaign
<1>4. ASSUME NEW c \in Campaigns, Request(c) PROVE FailedInv'
  BY <1>4, <1>0, <1>1, <1>2 DEF Request, EnqueueCampaign, CountPending, EnsureWorker, dbVars
<1>5. ASSUME NEW j \in Job, TakeJob(j) \/ RecoverStalled(j) PROVE FailedInv'
  BY <1>5, <1>0, <1>1, <1>2 DEF TakeJob, RecoverStalled, dbVars, processVars
<1>6. ASSUME \/ SkipResolved \/ (\E n \in 1 .. MaxReschedules : Reschedule(n)) \/ BeginAttempt
             \/ SendMessage \/ AttemptFails \/ ReadOutcome \/ ApplySent \/ SettleSent \/ CompleteJob
      PROVE  FailedInv'
  <2>1. UNCHANGED <<envio, finalizers>>
    BY <1>6 DEF SkipResolved, Reschedule, BeginAttempt, SendMessage, AttemptFails, ReadOutcome,
                ApplySent, SettleSent, CompleteJob, dbVars
  <2>2. session'.failures = session.failures
    <3>1. CASE SettleSent
      BY <3>1 DEF SettleSent
    <3>2. CASE ~ SettleSent
      BY <1>6, <3>2 DEF SkipResolved, Reschedule, BeginAttempt, SendMessage, AttemptFails, ReadOutcome,
                        ApplySent, CompleteJob, dbVars
    <3> QED
      BY <3>1, <3>2
  <2> QED
    BY <1>0, <1>1, <1>2, <2>1, <2>2
<1>7. ASSUME MarkSent PROVE FailedInv'
  <2>1. CurrentEnvio \in Envio /\ envio[CurrentEnvio] = "PENDENTE" /\ envio' = [envio EXCEPT ![CurrentEnvio] = "ENVIADO"]
    BY <1>7, MarkedSent
  <2>2. EnviosIn("FALHOU")' = EnviosIn("FALHOU")
    BY <2>1 DEF EnviosIn
  <2> QED
    BY <1>7, <1>0, <1>2, <2>2 DEF MarkSent
<1>8. ASSUME FailJob PROVE FailedInv'
  <2>1. worker.job \in Job /\ finalizers[worker.job] = "off"
    BY <1>8 DEF FailJob, SoloInv, ListensLast
  <2>2. finalizers'[worker.job] \in {"off", "started"} /\ \A j \in Job : j # worker.job => finalizers'[j] = finalizers[j]
    BY <1>8, <2>1 DEF FailJob
  <2>3. OwingFailure' = OwingFailure
    BY <2>1, <2>2 DEF OwingFailure
  <2> QED
    BY <1>8, <1>0, <1>1, <2>3 DEF FailJob, dbVars
<1>9. ASSUME NEW j \in Job, MarkFailed(j) PROVE FailedInv'
  <2>1. /\ j[1] \in Envio /\ envio[j[1]] = "PENDENTE" /\ envio' = [envio EXCEPT ![j[1]] = "FALHOU"]
        /\ finalizers[j] = "failing" /\ finalizers' = [finalizers EXCEPT ![j] = "reading"]
    BY <1>9, MarkedFailed
  <2>2. Cardinality(EnviosIn("FALHOU")') = Cardinality(EnviosIn("FALHOU")) + 1
    BY <2>1, OutcomeCounts
  <2>3. OwingFailure' = OwingFailure \cup {j} /\ j \notin OwingFailure
    BY <2>1 DEF OwingFailure
  <2>4. IsFiniteSet(OwingFailure) /\ Cardinality(OwingFailure) \in Nat
    BY JobsFinite DEF OwingFailure
  <2>5. Cardinality(OwingFailure \cup {j}) = Cardinality(OwingFailure) + 1
    BY <2>3, <2>4, FS_AddElement
  <2>6. session' = session
    BY <1>9 DEF MarkFailed
  <2> QED
    BY <2>2, <2>3, <2>4, <2>5, <2>6 DEF FailedInv
<1>10. ASSUME NEW j \in Job, BeginFinalize(j) \/ ReadFailedOutcome(j) \/ PushDeadLetter(j) PROVE FailedInv'
  <2>1. OwingFailure' = OwingFailure
    BY <1>10 DEF BeginFinalize, ReadFailedOutcome, PushDeadLetter, MoveTo, OwingFailure
  <2> QED
    BY <1>10, <1>0, <1>1, <2>1 DEF BeginFinalize, ReadFailedOutcome, PushDeadLetter, dbVars
<1>11. ASSUME NEW j \in Job, ApplyFailed(j) PROVE FailedInv'
  <2>1. j[1][1] \in Recipient /\ j[1][2] \in Messages /\ j[1] = <<j[1][1], j[1][2]>> /\ envio[j[1]] # "none"
    BY <1>11, JobParts, EnvioPair DEF ApplyFailed, SoloInv, ListensLast, ExistInv
  <2>2. recipient[j[1][1]] # "none"
    <3>1. envio[<<j[1][1], j[1][2]>>] # "none"
      BY <2>1
    <3> QED
      BY <2>1, <3>1 DEF FateInv, RowsInv
  <2>3. OwingFailure' = OwingFailure
    BY <1>11, <2>2 DEF ApplyFailed, MoveTo, OwingFailure
  <2> QED
    BY <1>11, <1>0, <1>1, <2>3 DEF ApplyFailed
<1>12. ASSUME NEW j \in Job, SettleFailed(j) PROVE FailedInv'
  <2>1. OwingFailure' = OwingFailure \ {j} /\ j \in OwingFailure
    BY <1>12 DEF SettleFailed, MoveTo, OwingFailure
  <2>2. IsFiniteSet(OwingFailure) /\ Cardinality(OwingFailure) \in Nat
    BY JobsFinite DEF OwingFailure
  <2>3. Cardinality(OwingFailure \ {j}) = Cardinality(OwingFailure) - 1
    BY <2>1, <2>2, FS_RemoveElement
  <2>4. session'.failures = session.failures + 1 /\ envio' = envio
    BY <1>12 DEF SettleFailed
  <2> QED
    BY <1>1, <2>1, <2>2, <2>3, <2>4 DEF FailedInv
<1>13. ASSUME \/ \E k \in Contacts : EditContact(k) \/ ValidateContact(k)
              \/ ChangeSessionStatus \/ UNCHANGED vars
       PROVE  FailedInv'
  BY <1>13, <1>0, <1>1, <1>2 DEF EditContact, ValidateContact, ChangeSessionStatus, vars, dbVars, processVars
<1> QED
  BY <1>3, <1>4, <1>5, <1>6, <1>7, <1>8, <1>9, <1>10, <1>11, <1>12, <1>13, Undisturbed
     DEF Next, Process, Finalize, Disturbance

LEMMA LetterStep ==
    ASSUME NoLostStep, NoDeletion
    PROVE  TypeInv /\ SoloInv /\ FateInv /\ ExistInv /\ LetterInv /\ [Next]_vars => LetterInv'
<1> SUFFICES ASSUME TypeInv, SoloInv, FateInv, ExistInv, LetterInv, [Next]_vars PROVE LetterInv'
  OBVIOUS
<1> USE DEF TypeInv, TypeOK, WorkerHoldsJob
<1>0. ASSUME deadLetter' = deadLetter, \A e \in Envio : envio'[e] = "FALHOU" <=> envio[e] = "FALHOU",
             \A j \in Job : (finalizers'[j] = "off" <=> finalizers[j] = "off") \/ envio[j[1]] # "FALHOU"
      PROVE  LetterInv'
  BY <1>0 DEF LetterInv
<1>1. ASSUME NEW c \in Campaigns, NEW chosen \in SUBSET Contacts, CreateCampaign(c, chosen)
      PROVE  LetterInv'
  <2>1. \A e \in Envio : envio'[e] = "FALHOU" <=> envio[e] = "FALHOU"
    BY <1>1, CreatedPending
  <2> QED
    BY <1>1, <1>0, <2>1 DEF CreateCampaign
<1>2. ASSUME NEW c \in Campaigns, Request(c) PROVE LetterInv'
  BY <1>2, <1>0 DEF Request, EnqueueCampaign, CountPending, EnsureWorker, dbVars
<1>3. ASSUME NEW j \in Job, TakeJob(j) \/ RecoverStalled(j) PROVE LetterInv'
  BY <1>3, <1>0 DEF TakeJob, RecoverStalled, dbVars, processVars
<1>4. ASSUME \/ SkipResolved \/ (\E n \in 1 .. MaxReschedules : Reschedule(n)) \/ BeginAttempt
             \/ SendMessage \/ AttemptFails \/ ReadOutcome \/ ApplySent \/ SettleSent \/ CompleteJob
      PROVE  LetterInv'
  BY <1>4, <1>0 DEF SkipResolved, Reschedule, BeginAttempt, SendMessage, AttemptFails, ReadOutcome,
                    ApplySent, SettleSent, CompleteJob, dbVars
<1>5. ASSUME MarkSent PROVE LetterInv'
  <2>1. CurrentEnvio \in Envio /\ envio[CurrentEnvio] = "PENDENTE" /\ envio' = [envio EXCEPT ![CurrentEnvio] = "ENVIADO"]
    BY <1>5, MarkedSent
  <2> QED
    BY <1>5, <1>0, <2>1 DEF MarkSent
<1>6. ASSUME FailJob PROVE LetterInv'
  <2>1. worker.job \in Job /\ envio[worker.job[1]] # "FALHOU"
    BY <1>6 DEF FailJob, FateInv, WorkerInv, CurrentEnvio
  <2>2. UNCHANGED <<deadLetter, envio>> /\ \A j \in Job : j # worker.job => finalizers'[j] = finalizers[j]
    BY <1>6 DEF FailJob, dbVars
  <2> QED
    BY <1>0, <2>1, <2>2
<1>7. ASSUME NEW j \in Job, BeginFinalize(j) PROVE LetterInv'
  <2>1. envio[j[1]] = "PENDENTE"
    BY <1>7, JobParts DEF BeginFinalize, FateInv, ListenerInv, SoloInv, ListensLast, ExistInv
  <2>2. UNCHANGED <<deadLetter, envio>> /\ \A i \in Job : i # j => finalizers'[i] = finalizers[i]
    BY <1>7 DEF BeginFinalize, MoveTo, dbVars
  <2> QED
    BY <1>0, <2>1, <2>2
<1>8. ASSUME NEW j \in Job, MarkFailed(j) PROVE LetterInv'
  <2>1. /\ j[1] \in Envio /\ envio[j[1]] = "PENDENTE" /\ envio' = [envio EXCEPT ![j[1]] = "FALHOU"]
        /\ finalizers[j] = "failing" /\ finalizers' = [finalizers EXCEPT ![j] = "reading"]
    BY <1>8, MarkedFailed
  <2>2. deadLetter' = deadLetter
    BY <1>8 DEF MarkFailed
  <2>3. deadLetter'[j[1]] = 0 /\ finalizers'[j] # "off"
    BY <2>1, <2>2 DEF LetterInv
  <2>4. ASSUME NEW e \in Envio, e # j[1]
        PROVE  deadLetter'[e] = IF envio'[e] = "FALHOU" /\ \A i \in Job : i[1] = e => finalizers'[i] = "off" THEN 1 ELSE 0
    <3>1. envio'[e] = envio[e] /\ \A i \in Job : i[1] = e => finalizers'[i] = finalizers[i]
      BY <2>1, <2>4
    <3> QED
      BY <2>2, <3>1 DEF LetterInv
  <2> QED
    BY <2>3, <2>4 DEF LetterInv
<1>9. ASSUME NEW j \in Job, ReadFailedOutcome(j) \/ SettleFailed(j) PROVE LetterInv'
  <2>1. /\ UNCHANGED <<deadLetter, envio>> /\ finalizers[j] # "off" /\ finalizers'[j] # "off"
        /\ \A i \in Job : i # j => finalizers'[i] = finalizers[i]
    BY <1>9 DEF ReadFailedOutcome, SettleFailed, MoveTo, dbVars
  <2> QED
    BY <1>0, <2>1
<1>10. ASSUME NEW j \in Job, ApplyFailed(j) PROVE LetterInv'
  <2>1. j[1][1] \in Recipient /\ j[1][2] \in Messages /\ j[1] = <<j[1][1], j[1][2]>> /\ envio[j[1]] # "none"
    BY <1>10, JobParts, EnvioPair DEF ApplyFailed, SoloInv, ListensLast, ExistInv
  <2>2. recipient[j[1][1]] # "none"
    <3>1. envio[<<j[1][1], j[1][2]>>] # "none"
      BY <2>1
    <3> QED
      BY <2>1, <3>1 DEF FateInv, RowsInv
  <2>3. /\ UNCHANGED <<deadLetter, envio>> /\ finalizers[j] # "off" /\ finalizers'[j] # "off"
        /\ \A i \in Job : i # j => finalizers'[i] = finalizers[i]
    BY <1>10, <2>2 DEF ApplyFailed, MoveTo
  <2> QED
    BY <1>0, <2>3
<1>11. ASSUME NEW j \in Job, PushDeadLetter(j) PROVE LetterInv'
  <2>1. /\ j[1] \in Envio /\ envio' = envio /\ finalizers[j] = "pushing"
        /\ finalizers'[j] = "off" /\ \A i \in Job : i # j => finalizers'[i] = finalizers[i]
        /\ deadLetter' = [deadLetter EXCEPT ![j[1]] = deadLetter[j[1]] + 1]
    BY <1>11, JobParts DEF PushDeadLetter, MoveTo, dbVars
  <2>2. envio[j[1]] = "FALHOU"
    BY <2>1 DEF FateInv, ListenerInv, SoloInv, ListensLast, ExistInv
  <2>3. \A i \in Job : i[1] = j[1] => finalizers'[i] = "off"
    BY <2>1 DEF SoloInv, OneActs, Acting
  <2>4. deadLetter[j[1]] = 0
    BY <2>1 DEF LetterInv
  <2>5. deadLetter'[j[1]] = 1
    BY <2>1, <2>4
  <2>6. ASSUME NEW e \in Envio, e # j[1]
        PROVE  deadLetter'[e] = IF envio'[e] = "FALHOU" /\ \A i \in Job : i[1] = e => finalizers'[i] = "off" THEN 1 ELSE 0
    <3>1. deadLetter'[e] = deadLetter[e] /\ \A i \in Job : i[1] = e => finalizers'[i] = finalizers[i]
      BY <2>1, <2>6
    <3> QED
      BY <2>1, <3>1 DEF LetterInv
  <2> QED
    BY <2>1, <2>2, <2>3, <2>5, <2>6 DEF LetterInv
<1>12. ASSUME \/ \E k \in Contacts : EditContact(k) \/ ValidateContact(k)
              \/ ChangeSessionStatus \/ UNCHANGED vars
       PROVE  LetterInv'
  BY <1>12, <1>0 DEF EditContact, ValidateContact, ChangeSessionStatus, vars, dbVars, processVars
<1> QED
  BY <1>1, <1>2, <1>3, <1>4, <1>5, <1>6, <1>7, <1>8, <1>9, <1>10, <1>11, <1>12, Undisturbed
     DEF Next, Process, Finalize, Disturbance

LEMMA PendingStep ==
    ASSUME NoLostStep, NoDeletion
    PROVE  TypeInv /\ FreshInv /\ SoloInv /\ FateInv /\ ExistInv /\ PendingInv /\ [Next]_vars => PendingInv'
<1> SUFFICES ASSUME TypeInv, FreshInv, SoloInv, FateInv, ExistInv, PendingInv, [Next]_vars PROVE PendingInv'
  OBVIOUS
<1> USE DEF TypeInv, TypeOK, WorkerHoldsJob
<1> DEFINE Sum == session'.pending + session'.sent + session'.failures = session.pending + session.sent + session.failures
<1>0. ASSUME Sum, requests' = requests, \A e \in Envio : envio'[e] = "none" <=> envio[e] = "none" PROVE PendingInv'
  <2>1. Counted' = Counted
    BY <1>0 DEF Counted
  <2>2. \A c \in Campaigns : EnviosOf(c)' = EnviosOf(c)
    BY <1>0 DEF EnviosOf
  <2> QED
    BY <1>0, <2>1, <2>2 DEF PendingInv
<1>1. ASSUME NEW c \in Campaigns, NEW chosen \in SUBSET Contacts, CreateCampaign(c, chosen)
      PROVE  PendingInv'
  <2>1. /\ session' = session /\ requests'[c].pc = "enqueue"
        /\ \A d \in Campaigns : d # c => requests'[d] = requests[d]
        /\ requests[c].pc = "none"
    BY <1>1 DEF CreateCampaign, FreshInv
  <2>2. \A e \in Envio : e[1][1] # c => envio'[e] = envio[e]
    BY <1>1, CreatedPending
  <2>3. Counted' = Counted
    BY <2>1, <2>2, EnvioPair, RecipientPair DEF Counted
  <2>4. ASSUME NEW d \in Campaigns, d # c PROVE EnviosOf(d)' = EnviosOf(d)
    BY <2>2, <2>4 DEF EnviosOf
  <2> QED
    BY <2>1, <2>3, <2>4 DEF PendingInv
<1>2. ASSUME NEW c \in Campaigns, EnqueueCampaign(c) PROVE PendingInv'
  <2>1. /\ UNCHANGED <<session, envio>> /\ requests[c].pc = "enqueue"
        /\ requests' = [requests EXCEPT ![c] = IF PendingEnvios(c) = {} THEN [pc |-> "end", n |-> 0]
                                               ELSE [pc |-> "count", n |-> Cardinality(PendingEnvios(c))]]
    BY <1>2 DEF EnqueueCampaign, dbVars
  <2>2. PendingEnvios(c) = EnviosOf(c)
    BY <2>1 DEF ExistInv, PendingEnvios, EnviosOf
  <2>3. Counted' = Counted
    <3>1. CASE EnviosOf(c) = {}
      <4>1. \A e \in Envio : e[1][1] = c => envio[e] = "none"
        BY <3>1 DEF EnviosOf
      <4>2. \A d \in Campaigns : d # c => requests'[d] = requests[d]
        BY <2>1
      <4> QED
        BY <2>1, <4>1, <4>2, EnvioPair, RecipientPair DEF Counted
    <3>2. CASE EnviosOf(c) # {}
      <4>1. requests'[c].pc = "count" /\ \A d \in Campaigns : d # c => requests'[d] = requests[d]
        BY <2>1, <2>2, <3>2
      <4> QED
        BY <2>1, <4>1, EnvioPair, RecipientPair DEF Counted
    <3> QED
      BY <3>1, <3>2
  <2>4. \A d \in Campaigns : EnviosOf(d)' = EnviosOf(d)
    BY <2>1 DEF EnviosOf
  <2>5. ASSUME NEW d \in Campaigns, requests'[d].pc = "count" PROVE requests'[d].n = Cardinality(EnviosOf(d)')
    <3>1. CASE d = c
      <4>1. requests'[d].n = Cardinality(PendingEnvios(c))
        BY <2>1, <2>5, <3>1
      <4> QED
        BY <2>2, <2>4, <3>1, <4>1
    <3>2. CASE d # c
      <4>1. requests'[d] = requests[d]
        BY <2>1, <3>2
      <4> QED
        BY <2>4, <2>5, <4>1 DEF PendingInv
    <3> QED
      BY <3>1, <3>2
  <2> QED
    BY <2>1, <2>3, <2>5 DEF PendingInv
<1>3. ASSUME NEW c \in Campaigns, CountPending(c) PROVE PendingInv'
  <2>1. /\ envio' = envio /\ requests[c].pc = "count"
        /\ requests'[c].pc = "ensure" /\ \A d \in Campaigns : d # c => requests'[d] = requests[d]
        /\ session'.pending = session.pending + requests[c].n
        /\ session'.sent = session.sent /\ session'.failures = session.failures
    BY <1>3 DEF CountPending
  <2>2. requests[c].n = Cardinality(EnviosOf(c))
    BY <2>1 DEF PendingInv
  <2>3. Counted' = Counted \cup EnviosOf(c) /\ Counted \cap EnviosOf(c) = {}
    BY <2>1, EnvioPair, RecipientPair DEF Counted, EnviosOf
  <2>4. /\ IsFiniteSet(Counted) /\ IsFiniteSet(EnviosOf(c))
        /\ Cardinality(Counted) \in Nat /\ Cardinality(EnviosOf(c)) \in Nat
    BY EnviosFinite DEF Counted, EnviosOf
  <2>5. Cardinality(Counted \cup EnviosOf(c)) = Cardinality(Counted) + Cardinality(EnviosOf(c))
    BY <2>3, <2>4, DisjointCount
  <2>6. Cardinality(Counted') = Cardinality(Counted) + Cardinality(EnviosOf(c))
    BY <2>3, <2>5
  <2>7. session'.pending + session'.sent + session'.failures = Cardinality(Counted')
    BY <2>1, <2>2, <2>4, <2>6 DEF PendingInv
  <2>8. \A d \in Campaigns : EnviosOf(d)' = EnviosOf(d)
    BY <2>1 DEF EnviosOf
  <2> QED
    BY <2>1, <2>7, <2>8 DEF PendingInv
<1>4. ASSUME NEW c \in Campaigns, EnsureWorker(c) PROVE PendingInv'
  <2>1. /\ UNCHANGED <<session, envio>> /\ requests[c].pc = "ensure" /\ requests'[c].pc = "end"
        /\ \A d \in Campaigns : d # c => requests'[d] = requests[d]
    BY <1>4 DEF EnsureWorker, dbVars
  <2>2. Counted' = Counted
    BY <2>1, EnvioPair, RecipientPair DEF Counted
  <2>3. \A d \in Campaigns : EnviosOf(d)' = EnviosOf(d)
    BY <2>1 DEF EnviosOf
  <2> QED
    BY <2>1, <2>2, <2>3 DEF PendingInv
<1>5. ASSUME NEW j \in Job, TakeJob(j) \/ RecoverStalled(j) PROVE PendingInv'
  BY <1>5, <1>0 DEF TakeJob, RecoverStalled, dbVars, processVars
<1>6. ASSUME \/ SkipResolved \/ (\E n \in 1 .. MaxReschedules : Reschedule(n)) \/ BeginAttempt
             \/ SendMessage \/ AttemptFails \/ ReadOutcome \/ ApplySent \/ CompleteJob \/ FailJob
      PROVE  PendingInv'
  BY <1>6, <1>0 DEF SkipResolved, Reschedule, BeginAttempt, SendMessage, AttemptFails, ReadOutcome,
                    ApplySent, CompleteJob, FailJob, dbVars
<1>7. ASSUME SettleSent PROVE PendingInv'
  BY <1>7, <1>0 DEF SettleSent
<1>8. ASSUME MarkSent PROVE PendingInv'
  <2>1. CurrentEnvio \in Envio /\ envio[CurrentEnvio] = "PENDENTE" /\ envio' = [envio EXCEPT ![CurrentEnvio] = "ENVIADO"]
    BY <1>8, MarkedSent
  <2> QED
    BY <1>8, <1>0, <2>1 DEF MarkSent
<1>9. ASSUME NEW j \in Job, MarkFailed(j) PROVE PendingInv'
  <2>1. j[1] \in Envio /\ envio[j[1]] = "PENDENTE" /\ envio' = [envio EXCEPT ![j[1]] = "FALHOU"]
    BY <1>9, MarkedFailed
  <2> QED
    BY <1>9, <1>0, <2>1 DEF MarkFailed
<1>10. ASSUME NEW j \in Job, BeginFinalize(j) \/ ReadFailedOutcome(j) \/ ApplyFailed(j) \/ PushDeadLetter(j)
       PROVE  PendingInv'
  BY <1>10, <1>0 DEF BeginFinalize, ReadFailedOutcome, ApplyFailed, PushDeadLetter, dbVars
<1>11. ASSUME NEW j \in Job, SettleFailed(j) PROVE PendingInv'
  BY <1>11, <1>0 DEF SettleFailed
<1>12. ASSUME \/ \E k \in Contacts : EditContact(k) \/ ValidateContact(k)
              \/ ChangeSessionStatus \/ UNCHANGED vars
       PROVE  PendingInv'
  BY <1>12, <1>0 DEF EditContact, ValidateContact, ChangeSessionStatus, vars, dbVars, processVars
<1> QED
  BY <1>1, <1>2, <1>3, <1>4, <1>5, <1>6, <1>7, <1>8, <1>9, <1>10, <1>11, <1>12, Undisturbed
     DEF Next, Request, Process, Finalize, Disturbance

LEMMA CountInit == Init => ExistInv /\ SentInv /\ FailedInv /\ LetterInv /\ PendingInv
<1> SUFFICES ASSUME Init PROVE ExistInv /\ SentInv /\ FailedInv /\ LetterInv /\ PendingInv
  OBVIOUS
<1>1. ExistInv /\ LetterInv
  BY JobParts DEF Init, ExistInv, LetterInv, NoJobRow
<1>2. EnviosIn("ENVIADO") = {} /\ EnviosIn("FALHOU") = {} /\ OwingFailure = {} /\ Counted = {}
  BY DEF Init, EnviosIn, OwingFailure, Counted
<1>3. SentInv /\ FailedInv /\ PendingInv
  BY SMTT(30), <1>2, FS_EmptySet DEF Init, SentInv, OwesSent, IdleWorker, FailedInv, PendingInv
<1> QED
  BY <1>1, <1>3

\* Once everything queued has ended, sent, failed and pending of the session and the dead-letter queue tell the
\* outcome of every envio, each counted once, for any number of overlapping campaigns and listeners
\* (markSent, finalizeFailure).
THEOREM CountersAreExact == ASSUME NoLostStep, NoDeletion PROVE Spec => []CountersSettle
<1>1. Sober
  BY DEF NoLostStep, Sober, NoFailedTransaction, NoReplacedJobRuns
<1> DEFINE Inv == /\ TypeInv /\ FreshInv /\ SoloInv /\ FateInv /\ WorkInv
                  /\ ExistInv /\ SentInv /\ FailedInv /\ LetterInv /\ PendingInv
<1>2. Init => Inv
  BY TypeInvInit, FreshInit, SoloInit, FateInit, WorkInit, CountInit
<1>3. Inv /\ [Next]_vars => Inv'
  BY <1>1, TypeInvStep, FreshStep, SoloStep, FateStep, WorkStep, ExistStep, SentStep, FailedStep, LetterStep,
     PendingStep DEF Sober
<1>4. Inv => CountersSettle
  <2> SUFFICES ASSUME Inv, \A c \in Campaigns : requests[c].pc \in {"none", "end"},
                      \A e \in Envio : ~ Queued(e) /\ ~ Finalizing(e)
               PROVE  /\ session.pending = 0
                      /\ session.sent = Cardinality(EnviosIn("ENVIADO"))
                      /\ session.failures = Cardinality(EnviosIn("FALHOU"))
                      /\ \A e \in Envio : deadLetter[e] = IF envio[e] = "FALHOU" THEN 1 ELSE 0
    BY DEF CountersSettle
  <2>1. \A j \in Job : jobs[j].state \notin {"wait", "active"} /\ finalizers[j] = "off"
    BY JobParts DEF Queued, Finalizing
  <2>2. worker.pc = "idle"
    BY <2>1 DEF TypeInv, WorkerHoldsJob
  <2>3. session.sent = Cardinality(EnviosIn("ENVIADO"))
    BY <2>2 DEF SentInv, OwesSent, TypeInv, TypeOK
  <2>4. OwingFailure = {}
    BY <2>1 DEF OwingFailure
  <2>5. session.failures = Cardinality(EnviosIn("FALHOU"))
    BY <2>4, FS_EmptySet DEF FailedInv, TypeInv, TypeOK
  <2>6. \A e \in Envio : deadLetter[e] = IF envio[e] = "FALHOU" THEN 1 ELSE 0
    BY <2>1 DEF LetterInv
  <2>7. \A e \in Envio : envio[e] # "PENDENTE"
    BY <2>1, EnvioPair, RecipientPair DEF WorkInv, PendingIsCarried, Acting
  <2>8. Counted = EnviosIn("ENVIADO") \cup EnviosIn("FALHOU")
    <3>1. ASSUME NEW e \in Envio PROVE e \in Counted <=> envio[e] # "none"
      BY EnvioPair, RecipientPair DEF Counted, ExistInv
    <3>2. ASSUME NEW e \in Envio PROVE envio[e] # "none" <=> envio[e] \in {"ENVIADO", "FALHOU"}
      BY <2>7 DEF TypeInv, TypeOK, RowStatus
    <3> QED
      BY <3>1, <3>2 DEF Counted, EnviosIn
  <2>9. /\ IsFiniteSet(EnviosIn("ENVIADO")) /\ Cardinality(EnviosIn("ENVIADO")) \in Nat
        /\ IsFiniteSet(EnviosIn("FALHOU")) /\ Cardinality(EnviosIn("FALHOU")) \in Nat
    BY EnviosFinite DEF EnviosIn
  <2>10. EnviosIn("ENVIADO") \cap EnviosIn("FALHOU") = {}
    BY DEF EnviosIn
  <2>11. Cardinality(Counted) = Cardinality(EnviosIn("ENVIADO")) + Cardinality(EnviosIn("FALHOU"))
    BY <2>8, <2>9, <2>10, DisjointCount
  <2>12. session.pending = 0
    <3>1. session.pending + session.sent + session.failures = session.sent + session.failures
      BY <2>3, <2>5, <2>11 DEF PendingInv
    <3>2. session.pending \in Int /\ session.sent \in Int /\ session.failures \in Int
      BY DEF TypeInv, TypeOK
    <3> QED
      BY <3>1, <3>2
  <2> QED
    BY <2>3, <2>5, <2>6, <2>12
<1> QED
  BY <1>2, <1>3, <1>4, PTL DEF Spec

=============================================================================
