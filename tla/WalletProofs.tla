---------------------------- MODULE WalletProofs ----------------------------
(***************************************************************************)
(* Proofs about Wallet, for every set of recharges, campaigns and          *)
(* handlers, every catalogue and every number of faults: its type          *)
(* invariant, BalanceNeverNegative, PaidMeansApproved,                     *)
(* ApprovedFailsOnlyByFault, and the sums of the statement, PaidIsCovered  *)
(* and StatementExactUnlessRaced.                                          *)
(***************************************************************************)
EXTENDS Wallet, FiniteSetTheorems, TLAPS

-----------------------------------------------------------------------------
(* Inductive invariants *)

\* Whoever is busy with a payment is busy with one of a recharge.
ApplierHasRecharge == \A a \in Appliers : applier[a].pc # "idle" => applier[a].of \in Recharges

\* A debit past its check fits in the balance it read.
DebitFits == \A c \in Campaigns : debit[c].pc = "debiting" => debit[c].quantity <= debit[c].seen

TypeInv == TypeOK /\ ApplierHasRecharge /\ DebitFits /\ BalanceNeverNegative

\* A final answer of Mercado Pago is still the payment's status.
Final == {"approved", "rejected", "cancelled"}

\* No payment exists before Mercado Pago is asked, and the request knows its status.
CreatorInv ==
    \A t \in Recharges :
        /\ recharge[t].status = "none" => creator[t].pc = "none"
        /\ creator[t].pc \in {"none", "asking"} => payment[t] = "none"
        /\ creator[t].pc = "storing" /\ creator[t].answer \in Final => payment[t] = creator[t].answer

\* What an applier was answered, and what it decided from it.
ApplierInv ==
    \A a \in Appliers :
        /\ applier[a].pc \in {"idle", "asking"} => applier[a].status = "none"
        /\ applier[a].status \in Final => payment[applier[a].of] = applier[a].status
        /\ applier[a].pc = "rejecting" => Refused(applier[a].status)
        /\ applier[a].pc \in {"reading", "crediting"} => Approved(applier[a].status)

KnowledgeInv == CreatorInv /\ ApplierInv /\ PaidMeansApproved

\* Without a fault, a request gives up only when no payment was created, and a
\* recharge is FALHOU only when none was or it was refused.
FailedInv ==
    Faults = 0 => \A t \in Recharges :
        /\ creator[t].pc = "failing" => payment[t] = "none"
        /\ recharge[t].status = "FALHOU" =>
               \/ payment[t] \in {"rejected", "cancelled"}
               \/ payment[t] = "none" /\ creator[t].pc = "failed"

\* Faults are counted from zero.
FaultsCounted == Faults \in Nat

-----------------------------------------------------------------------------
(* Type correctness and the balance *)

\* The initial state is typed.
LEMMA TypeInvInit == Init => TypeInv
BY WalletAssumption
DEF Init, TypeInv, TypeOK, ApplierHasRecharge, DebitFits, BalanceNeverNegative, RechargeRow, PaymentStatus,
    CreatorRow, ApplierRow, DebitRow, IdleApplier, NoDebit

\* An idle applier is a typed row, and has no recharge.
LEMMA IdleType == IdleApplier \in ApplierRow /\ NoDebit \in DebitRow /\ IdleApplier.pc = "idle"
BY DEF IdleApplier, NoDebit, ApplierRow, DebitRow, PaymentStatus

\* Spending a fault keeps the budget typed.
LEMMA SpendType ==
    ASSUME TypeInv, NEW kind \in FaultKinds, Spend(kind)
    PROVE  budget' \in [FaultKinds -> Nat]
BY DEF TypeInv, TypeOK, Spend

\* Settling a recharge keeps the rows typed and lets the applier go.
LEMMA SettleType ==
    ASSUME TypeInv, NEW a \in Appliers, applier[a].of \in Recharges,
           NEW status \in {"PAGO", "FALHOU"}, NEW known \in BOOLEAN, Settle(a, status, known)
    PROVE  /\ recharge' \in [Recharges -> RechargeRow]
           /\ raced' \subseteq Recharges
           /\ applier' \in [Appliers -> ApplierRow]
           /\ ApplierHasRecharge'
<1>1. [status |-> status, known |-> known] \in RechargeRow
  BY DEF RechargeRow
<1>2. recharge' \in [Recharges -> RechargeRow]
  BY <1>1 DEF Settle, TypeInv, TypeOK
<1>3. raced' \subseteq Recharges
  BY DEF Settle, TypeInv, TypeOK
<1>4. applier' \in [Appliers -> ApplierRow] /\ ApplierHasRecharge'
  BY IdleType DEF Settle, TypeInv, TypeOK, ApplierHasRecharge
<1> QED
  BY <1>2, <1>3, <1>4

\* Every step preserves the type invariant.
LEMMA TypeInvStep == TypeInv /\ [Next]_vars => TypeInv'
<1> SUFFICES ASSUME TypeInv, [Next]_vars PROVE TypeInv'
  OBVIOUS
<1> USE DEF TypeInv, TypeOK, ApplierHasRecharge, DebitFits, BalanceNeverNegative
<1>1. ASSUME NEW t \in Recharges, NEW method \in {"pix", "card"}, CreateRecharge(t, method)
      PROVE  TypeInv'
  BY <1>1 DEF CreateRecharge, RechargeRow, CreatorRow, PaymentStatus
<1>2. ASSUME NEW t \in Recharges, Create(t) PROVE TypeInv'
  <2>1. ASSUME NEW answer \in PaymentStatus, PaymentCreated(t, answer) PROVE TypeInv'
    BY <2>1 DEF PaymentCreated, CreatorRow
  <2>2. CASE PaymentNotAnswered(t)
    <3>1. Answers(creator[t].method) \subseteq PaymentStatus
      BY DEF Answers, PaymentStatus
    <3>2. payment' \in [Recharges -> PaymentStatus] /\ budget' \in [FaultKinds -> Nat]
      BY <2>2, <3>1, SpendType DEF PaymentNotAnswered, FaultKinds
    <3>3. creator' \in [Recharges -> CreatorRow]
      BY <2>2 DEF PaymentNotAnswered, CreatorRow
    <3> QED
      BY <2>2, <3>2, <3>3 DEF PaymentNotAnswered
  <2>3. CASE StorePaymentId(t)
    <3>1. [IdleApplier EXCEPT !.pc = "answered", !.of = t, !.status = creator[t].answer] \in ApplierRow
      BY DEF IdleApplier, ApplierRow, CreatorRow
    <3>2. applier' \in [Appliers -> ApplierRow] /\ ApplierHasRecharge'
      BY <2>3, <3>1 DEF StorePaymentId, IdleApplier
    <3>3. recharge' \in [Recharges -> RechargeRow] /\ creator' \in [Recharges -> CreatorRow]
      BY <2>3 DEF StorePaymentId, RechargeRow, CreatorRow
    <3> QED
      BY <2>3, <3>2, <3>3 DEF StorePaymentId
  <2>4. CASE StoreFails(t)
    <3>1. budget' \in [FaultKinds -> Nat]
      BY <2>4, SpendType DEF StoreFails, FaultKinds
    <3>2. recharge' \in [Recharges -> RechargeRow]
      <4>1. PICK known \in {FALSE, TRUE} :
              recharge' = [recharge EXCEPT ![t] = [recharge[t] EXCEPT !.known = @ \/ known]]
        BY <2>4 DEF StoreFails
      <4>2. [recharge[t] EXCEPT !.known = @ \/ known] \in RechargeRow
        BY DEF RechargeRow
      <4> QED
        BY <4>1, <4>2
    <3>3. creator' \in [Recharges -> CreatorRow]
      BY <2>4 DEF StoreFails, CreatorRow
    <3> QED
      BY <2>4, <3>1, <3>2, <3>3 DEF StoreFails
  <2>5. CASE MarkFailed(t)
    <3>1. budget' \in [FaultKinds -> Nat]
      BY <2>5, SpendType DEF MarkFailed, FaultKinds
    <3>2. [recharge[t] EXCEPT !.status = "FALHOU"] \in RechargeRow
      BY DEF RechargeRow
    <3>3. \/ recharge' = recharge
          \/ recharge' = [recharge EXCEPT ![t] = [recharge[t] EXCEPT !.status = "FALHOU"]]
      BY <2>5 DEF MarkFailed
    <3>4. recharge' \in [Recharges -> RechargeRow]
      BY <3>2, <3>3
    <3>5. creator' \in [Recharges -> CreatorRow]
      BY <2>5 DEF MarkFailed, CreatorRow
    <3> QED
      BY <2>5, <3>1, <3>4, <3>5 DEF MarkFailed
  <2> QED
    BY <1>2, <2>1, <2>2, <2>3, <2>4, <2>5 DEF Create
<1>3. ASSUME NEW t \in Recharges, PaymentDecided(t) PROVE TypeInv'
  BY <1>3 DEF PaymentDecided, PaymentStatus
<1>4. ASSUME NEW h \in Handlers, NEW t \in Recharges, Notify(h, t) \/ Sync(h, t) PROVE TypeInv'
  BY SMTT(30), <1>4 DEF Notify, Sync, Appliers, ApplierRow
<1>5. ASSUME NEW a \in Appliers, Apply(a) PROVE TypeInv'
  <2>1. CASE GetPayment(a)
    BY <2>1 DEF GetPayment, ApplierRow
  <2>2. CASE ReadRecharge(a)
    <3>1. applier' \in [Appliers -> ApplierRow] /\ ApplierHasRecharge'
      BY <2>2, IdleType DEF ReadRecharge, ApplierRow
    <3> QED
      BY <2>2, <3>1 DEF ReadRecharge
  <2>3. CASE RejectRecharge(a)
    <3>1. applier[a].of \in Recharges /\ recharge[applier[a].of].known \in BOOLEAN
      BY <2>3 DEF RejectRecharge, RechargeRow
    <3> QED
      BY <2>3, <3>1, SettleType DEF RejectRecharge
  <2>4. CASE ReadWallet(a)
    <3>1. balance \in Nat
      OBVIOUS
    <3>2. [applier[a] EXCEPT !.pc = "crediting", !.seen = balance] \in ApplierRow
      BY <3>1 DEF ApplierRow
    <3>3. applier' = [applier EXCEPT ![a] = [applier[a] EXCEPT !.pc = "crediting", !.seen = balance]]
      BY <2>4 DEF ReadWallet
    <3>4. applier[a].of \in Recharges
      BY <2>4 DEF ReadWallet
    <3>5. applier' \in [Appliers -> ApplierRow] /\ ApplierHasRecharge'
      BY <3>2, <3>3, <3>4
    <3> QED
      BY <2>4, <3>5 DEF ReadWallet
  <2>5. CASE CreditRecharge(a)
    <3>1. applier[a].of \in Recharges
      BY <2>5 DEF CreditRecharge
    <3>2. Credits[applier[a].of] \in Nat
      BY <3>1, WalletAssumption
    <3>3. balance' \in Int /\ balance' >= 0
      BY <2>5, <3>2 DEF CreditRecharge
    <3> QED
      BY <2>5, <3>1, <3>3, SettleType DEF CreditRecharge
  <2>6. CASE CreditConflict(a)
    BY <2>6, IdleType DEF CreditConflict
  <2> QED
    BY <1>5, <2>1, <2>2, <2>3, <2>4, <2>5, <2>6 DEF Apply
<1>6. ASSUME NEW a \in Appliers, ApplierFails(a) PROVE TypeInv'
  <2>1. budget' \in [FaultKinds -> Nat]
    BY <1>6, SpendType DEF ApplierFails, FaultKinds
  <2> QED
    BY <1>6, <2>1, IdleType DEF ApplierFails
<1>7. ASSUME NEW c \in Campaigns, NEW quantity \in Quantities, CheckBalance(c, quantity)
      PROVE  TypeInv'
  BY <1>7, WalletAssumption DEF CheckBalance, DebitRow
<1>8. ASSUME NEW c \in Campaigns, Debit(c) PROVE TypeInv'
  <2>1. debit[c].quantity \in Int /\ debit[c].quantity <= balance
    BY <1>8, WalletAssumption DEF Debit, Unmoved, DebitRow
  <2>2. balance' \in Int /\ balance' >= 0
    BY <1>8, <2>1 DEF Debit
  <2> QED
    BY <1>8, <2>2 DEF Debit, DebitRow
<1>9. ASSUME NEW c \in Campaigns, DebitConflict(c) PROVE TypeInv'
  BY <1>9, IdleType DEF DebitConflict, NoDebit
<1>10. CASE Crash
  <2>1. budget' \in [FaultKinds -> Nat]
    BY <1>10, SpendType DEF Crash, FaultKinds
  <2>2. creator' \in [Recharges -> CreatorRow]
    BY <1>10 DEF Crash, CreatorRow
  <2>3. debit' \in [Campaigns -> DebitRow] /\ DebitFits'
    BY <1>10, IdleType DEF Crash, NoDebit
  <2> QED
    BY <1>10, <2>1, <2>2, <2>3, IdleType DEF Crash
<1>11. CASE UNCHANGED vars
  BY <1>11 DEF vars
<1> QED
  BY <1>1, <1>2, <1>3, <1>4, <1>5, <1>6, <1>7, <1>8, <1>9, <1>10, <1>11 DEF Next

\* Every reachable state of the wallet is well typed.
THEOREM WalletTypeCorrect == Spec => []TypeOK
<1>1. TypeInv => TypeOK
  BY DEF TypeInv
<1> QED
  BY TypeInvInit, TypeInvStep, <1>1, PTL DEF Spec

\* However campaigns and credits interleave, no debit takes the balance below
\* zero: debitWalletOrThrow writes only over the balance it checked.
THEOREM NeverNegative == Spec => []BalanceNeverNegative
<1>1. TypeInv => BalanceNeverNegative
  BY DEF TypeInv
<1> QED
  BY TypeInvInit, TypeInvStep, <1>1, PTL DEF Spec

-----------------------------------------------------------------------------
(* What the backend knows of a payment *)

\* Initially nothing is known.
LEMMA KnowledgeInit == Init => KnowledgeInv
BY DEF Init, KnowledgeInv, CreatorInv, ApplierInv, PaidMeansApproved, IdleApplier, Final

\* A payment never leaves a final status, nor comes back to "none".
LEMMA PaymentIsFinal ==
    ASSUME TypeInv, KnowledgeInv, [Next]_vars, NEW t \in Recharges
    PROVE  /\ payment[t] \in Final => payment'[t] = payment[t]
           /\ payment[t] # "none" => payment'[t] # "none"
<1> USE DEF TypeInv, TypeOK, Final
<1>1. ASSUME NEW u \in Recharges, Create(u)
      PROVE  payment' = payment \/ (payment[u] = "none" /\ \E s : payment' = [payment EXCEPT ![u] = s])
  BY <1>1
  DEF Create, PaymentCreated, PaymentNotAnswered, StorePaymentId, StoreFails, MarkFailed,
      KnowledgeInv, CreatorInv
<1>2. ASSUME NEW u \in Recharges, PaymentDecided(u)
      PROVE  payment[u] = "pending" /\ \E s \in Final : payment' = [payment EXCEPT ![u] = s]
  BY <1>2 DEF PaymentDecided
<1>3. ASSUME NEW a \in Appliers, Apply(a) PROVE payment' = payment
  BY <1>3 DEF Apply, GetPayment, ReadRecharge, RejectRecharge, ReadWallet, CreditRecharge, CreditConflict
<1>4. payment' = payment
      \/ (\E u \in Recharges : payment[u] = "none" /\ \E s : payment' = [payment EXCEPT ![u] = s])
      \/ (\E u \in Recharges : payment[u] = "pending" /\ \E s \in Final : payment' = [payment EXCEPT ![u] = s])
  BY <1>1, <1>2, <1>3
  DEF Next, vars, CreateRecharge, Notify, Sync, ApplierFails, CheckBalance, Debit, DebitConflict, Crash
<1> QED
  BY <1>4

\* Which steps settle a recharge.
LEMMA Settlements ==
    ASSUME TypeInv, [Next]_vars, NEW t \in Recharges
    PROVE  /\ recharge'[t].status = "PAGO" =>
                  \/ recharge[t].status = "PAGO"
                  \/ \E a \in Appliers : CreditRecharge(a) /\ applier[a].of = t
           /\ recharge'[t].status = "FALHOU" =>
                  \/ recharge[t].status = "FALHOU"
                  \/ \E a \in Appliers : RejectRecharge(a) /\ applier[a].of = t
                  \/ MarkFailed(t)
           /\ recharge'[t].status = "none" => recharge[t].status = "none"
<1> USE DEF TypeInv, TypeOK, RechargeRow
<1>1. ASSUME NEW u \in Recharges, NEW method \in {"pix", "card"}, CreateRecharge(u, method)
      PROVE  recharge'[t].status \in {recharge[t].status, "PENDENTE"}
  BY <1>1 DEF CreateRecharge
<1>2. ASSUME NEW u \in Recharges, Create(u)
      PROVE  recharge'[t].status = recharge[t].status \/ (u = t /\ MarkFailed(u) /\ recharge'[t].status = "FALHOU")
  BY <1>2 DEF Create, PaymentCreated, PaymentNotAnswered, StorePaymentId, StoreFails, MarkFailed
<1>3. ASSUME NEW a \in Appliers, Apply(a)
      PROVE  \/ recharge'[t].status = recharge[t].status
             \/ applier[a].of = t /\ RejectRecharge(a) /\ recharge'[t].status = "FALHOU"
             \/ applier[a].of = t /\ CreditRecharge(a) /\ recharge'[t].status = "PAGO"
  BY <1>3 DEF Apply, GetPayment, ReadRecharge, RejectRecharge, ReadWallet, CreditRecharge, CreditConflict, Settle
<1>4. \/ recharge' = recharge
      \/ \E u \in Recharges, method \in {"pix", "card"} : CreateRecharge(u, method)
      \/ \E u \in Recharges : Create(u)
      \/ \E a \in Appliers : Apply(a)
  BY DEF Next, vars, PaymentDecided, Notify, Sync, ApplierFails, CheckBalance, Debit, DebitConflict, Crash
<1> QED
  BY <1>1, <1>2, <1>3, <1>4

\* What the requests know is preserved.
LEMMA CreatorStep == TypeInv /\ KnowledgeInv /\ [Next]_vars => CreatorInv'
<1> SUFFICES ASSUME TypeInv, KnowledgeInv, [Next]_vars, NEW t \in Recharges
             PROVE  /\ recharge'[t].status = "none" => creator'[t].pc = "none"
                    /\ creator'[t].pc \in {"none", "asking"} => payment'[t] = "none"
                    /\ creator'[t].pc = "storing" /\ creator'[t].answer \in Final => payment'[t] = creator'[t].answer
  BY DEF CreatorInv
<1> DEFINE Goal == /\ recharge'[t].status = "none" => creator'[t].pc = "none"
                   /\ creator'[t].pc \in {"none", "asking"} => payment'[t] = "none"
                   /\ creator'[t].pc = "storing" /\ creator'[t].answer \in Final => payment'[t] = creator'[t].answer
<1> USE DEF TypeInv, TypeOK, CreatorRow
<1>1. CreatorInv
  BY DEF KnowledgeInv
<1>2. recharge'[t].status = "none" => recharge[t].status = "none"
  BY Settlements
<1>3. payment[t] \in Final => payment'[t] = payment[t]
  BY PaymentIsFinal
<1>4. ASSUME creator'[t] = creator[t], payment'[t] = payment[t] \/ payment[t] \in {"pending"} PROVE Goal
  BY <1>1, <1>2, <1>3, <1>4 DEF CreatorInv, Final
<1>5. ASSUME NEW u \in Recharges, NEW method \in {"pix", "card"}, CreateRecharge(u, method) PROVE Goal
  BY <1>1, <1>4, <1>5 DEF CreateRecharge, CreatorInv, RechargeRow
<1>6. ASSUME NEW u \in Recharges, Create(u) PROVE Goal
  <2>1. CASE u # t
    BY <1>4, <1>6, <2>1
    DEF Create, PaymentCreated, PaymentNotAnswered, StorePaymentId, StoreFails, MarkFailed
  <2>2. CASE u = t
    BY <1>1, <1>2, <1>6, <2>2
    DEF Create, PaymentCreated, PaymentNotAnswered, StorePaymentId, StoreFails, MarkFailed, CreatorInv
  <2> QED
    BY <2>1, <2>2
<1>7. ASSUME NEW u \in Recharges, PaymentDecided(u) PROVE Goal
  BY <1>4, <1>7 DEF PaymentDecided
<1>8. ASSUME NEW a \in Appliers, Apply(a) PROVE Goal
  BY <1>4, <1>8
  DEF Apply, GetPayment, ReadRecharge, RejectRecharge, ReadWallet, CreditRecharge, CreditConflict
<1>9. CASE Crash
  BY <1>1, <1>9 DEF Crash, CreatorInv
<1>10. CASE creator' = creator /\ payment' = payment
  BY <1>4, <1>10
<1> QED
  BY <1>5, <1>6, <1>7, <1>8, <1>9, <1>10
  DEF Next, vars, Notify, Sync, ApplierFails, CheckBalance, Debit, DebitConflict

\* What the appliers know is preserved.
LEMMA ApplierStep == TypeInv /\ KnowledgeInv /\ [Next]_vars => ApplierInv'
<1> SUFFICES ASSUME TypeInv, KnowledgeInv, [Next]_vars, NEW a \in Appliers
             PROVE  /\ applier'[a].pc \in {"idle", "asking"} => applier'[a].status = "none"
                    /\ applier'[a].status \in Final => payment'[applier'[a].of] = applier'[a].status
                    /\ applier'[a].pc = "rejecting" => Refused(applier'[a].status)
                    /\ applier'[a].pc \in {"reading", "crediting"} => Approved(applier'[a].status)
  BY DEF ApplierInv, Refused, Approved
<1> DEFINE Goal == /\ applier'[a].pc \in {"idle", "asking"} => applier'[a].status = "none"
                   /\ applier'[a].status \in Final => payment'[applier'[a].of] = applier'[a].status
                   /\ applier'[a].pc = "rejecting" => Refused(applier'[a].status)
                   /\ applier'[a].pc \in {"reading", "crediting"} => Approved(applier'[a].status)
<1> USE DEF TypeInv, TypeOK, ApplierRow
<1>1. ApplierInv /\ CreatorInv
  BY DEF KnowledgeInv
<1>2. applier[a].status \in Final =>
          applier[a].of \in Recharges /\ payment'[applier[a].of] = applier[a].status
  BY <1>1, PaymentIsFinal DEF ApplierInv, ApplierHasRecharge, Final
<1>3. ASSUME applier'[a] = applier[a] PROVE Goal
  BY <1>1, <1>2, <1>3 DEF ApplierInv
<1>4. ASSUME applier'[a] = IdleApplier PROVE Goal
  BY <1>4 DEF IdleApplier, Final
<1>5. ASSUME NEW u \in Recharges, StorePaymentId(u) PROVE Goal
  <2>1. CASE applier'[a] = applier[a]
    BY <1>3, <2>1
  <2>2. CASE applier'[a] # applier[a]
    <3>1. /\ applier'[a].pc = "answered" /\ applier'[a].of = u
          /\ applier'[a].status = creator[u].answer /\ payment' = payment
      BY <1>5, <2>2 DEF StorePaymentId, IdleApplier
    <3>2. creator[u].pc = "storing"
      BY <1>5 DEF StorePaymentId
    <3> QED
      BY <1>1, <3>1, <3>2 DEF CreatorInv
  <2> QED
    BY <2>1, <2>2
<1>6. ASSUME NEW h \in Handlers, NEW u \in Recharges, Notify(h, u) \/ Sync(h, u) PROVE Goal
  <2>1. h \in Appliers
    BY DEF Appliers
  <2>2. CASE h = a
    BY <1>1, <1>6, <2>1, <2>2 DEF Notify, Sync, ApplierInv, Final
  <2>3. CASE h # a
    BY <1>3, <1>6, <2>1, <2>3 DEF Notify, Sync
  <2> QED
    BY <2>2, <2>3
<1>7. ASSUME NEW b \in Appliers, Apply(b) PROVE Goal
  <2>1. CASE b # a
    <3>1. applier'[a] = applier[a]
      BY <1>7, <2>1
      DEF Apply, GetPayment, ReadRecharge, RejectRecharge, ReadWallet, CreditRecharge, CreditConflict, Settle
    <3> QED
      BY <1>3, <3>1
  <2>2. CASE b = a /\ GetPayment(a)
    BY <2>2 DEF GetPayment
  <2>3. CASE b = a /\ ReadRecharge(a)
    <3>1. CASE applier'[a] = IdleApplier
      BY <1>4, <3>1
    <3>2. CASE applier'[a] # IdleApplier
      <4>1. /\ applier'[a].of = applier[a].of /\ applier'[a].status = applier[a].status
            /\ \/ applier'[a].pc = "reading" /\ Approved(applier[a].status)
               \/ applier'[a].pc = "rejecting" /\ Refused(applier[a].status)
        BY <2>3, <3>2 DEF ReadRecharge, Approved, Refused
      <4> QED
        BY <1>2, <4>1
    <3> QED
      BY <3>1, <3>2
  <2>4. CASE b = a /\ ReadWallet(a)
    BY <1>1, <1>2, <2>4 DEF ReadWallet, ApplierInv
  <2>5. CASE b = a /\ (RejectRecharge(a) \/ CreditRecharge(a) \/ CreditConflict(a))
    BY <1>4, <2>5 DEF RejectRecharge, CreditRecharge, CreditConflict, Settle
  <2> QED
    BY <1>7, <2>1, <2>2, <2>3, <2>4, <2>5 DEF Apply
<1>8. ASSUME NEW b \in Appliers, ApplierFails(b) PROVE Goal
  BY <1>3, <1>4, <1>8 DEF ApplierFails
<1>9. CASE Crash
  BY <1>4, <1>9 DEF Crash
<1>10. CASE applier' = applier
  BY <1>3, <1>10
<1>11. ASSUME NEW u \in Recharges, Create(u) PROVE Goal
  BY <1>5, <1>10, <1>11 DEF Create, PaymentCreated, PaymentNotAnswered, StoreFails, MarkFailed
<1> QED
  BY <1>6, <1>7, <1>8, <1>9, <1>10, <1>11
  DEF Next, vars, CreateRecharge, PaymentDecided, CheckBalance, Debit, DebitConflict

\* A recharge that becomes PAGO does so on an approved payment.
LEMMA PaidStep == TypeInv /\ KnowledgeInv /\ [Next]_vars => PaidMeansApproved'
<1> SUFFICES ASSUME TypeInv, KnowledgeInv, [Next]_vars, NEW t \in Recharges, recharge'[t].status = "PAGO"
             PROVE  payment'[t] = "approved"
  BY DEF PaidMeansApproved
<1>1. payment[t] = "approved" => payment'[t] = "approved"
  BY PaymentIsFinal DEF Final
<1>2. CASE recharge[t].status = "PAGO"
  BY <1>1, <1>2 DEF KnowledgeInv, PaidMeansApproved
<1>3. ASSUME NEW a \in Appliers, CreditRecharge(a), applier[a].of = t PROVE payment[t] = "approved"
  BY <1>3 DEF CreditRecharge, KnowledgeInv, ApplierInv, Approved, Final
<1> QED
  BY <1>1, <1>2, <1>3, Settlements

\* Whoever credits the wallet for a recharge has seen its payment approved, however
\* webhooks, polls and the card request overlap, are lost or fail.
THEOREM PaidIsApproved == Spec => []PaidMeansApproved
<1>1. TypeInv /\ KnowledgeInv /\ [Next]_vars => KnowledgeInv'
  BY CreatorStep, ApplierStep, PaidStep DEF KnowledgeInv
<1>2. KnowledgeInv => PaidMeansApproved
  BY DEF KnowledgeInv
<1> QED
  BY TypeInvInit, TypeInvStep, KnowledgeInit, <1>1, <1>2, PTL DEF Spec

-----------------------------------------------------------------------------
(* What makes a recharge fail *)

\* Initially nothing failed.
LEMMA FailedInit == Init => FaultsCounted /\ FailedInv
BY WalletAssumption DEF Init, FaultsCounted, FailedInv, Faults, FaultKinds

\* Faults are never given back, and a failed call is counted.
LEMMA FaultsGrow ==
    ASSUME TypeInv, FaultsCounted, [Next]_vars
    PROVE  /\ FaultsCounted'
           /\ Faults' = 0 => Faults = 0 /\ ~ Spend("infra")
<1>1. /\ budget \in [FaultKinds -> Nat] /\ Budget \in [FaultKinds -> Nat]
      /\ "infra" \in FaultKinds /\ "crash" \in FaultKinds
  BY WalletAssumption DEF TypeInv, TypeOK, FaultKinds
<1>2. ASSUME NEW kind \in FaultKinds, Spend(kind)
      PROVE  budget'["infra"] = budget["infra"]
             \/ (budget["infra"] > 0 /\ budget'["infra"] = budget["infra"] - 1)
  BY <1>1, <1>2 DEF Spend
<1>3. budget' = budget \/ \E kind \in FaultKinds : Spend(kind)
  BY <1>1
  DEF Next, vars, Create, Apply, CreateRecharge, PaymentCreated, PaymentNotAnswered, StorePaymentId,
      StoreFails, MarkFailed, Notify, Sync, GetPayment, ReadRecharge, RejectRecharge, ReadWallet,
      CreditRecharge, CreditConflict, ApplierFails, CheckBalance, Debit, DebitConflict,
      PaymentDecided, Crash
<1>4. budget'["infra"] = budget["infra"]
      \/ (budget["infra"] > 0 /\ budget'["infra"] = budget["infra"] - 1)
  BY <1>2, <1>3
<1>5. budget["infra"] \in Nat /\ Budget["infra"] \in Nat
  BY <1>1
<1>6. Spend("infra") => budget'["infra"] = budget["infra"] - 1
  BY <1>1 DEF Spend
<1> QED
  BY <1>4, <1>5, <1>6 DEF FaultsCounted, Faults

\* Without a fault, what a request that gave up knows stays true.
LEMMA FailedStep == TypeInv /\ KnowledgeInv /\ FaultsCounted /\ FailedInv /\ [Next]_vars => FailedInv'
<1> SUFFICES ASSUME TypeInv, KnowledgeInv, FaultsCounted, FailedInv, [Next]_vars, Faults' = 0,
                    NEW t \in Recharges
             PROVE  /\ creator'[t].pc = "failing" => payment'[t] = "none"
                    /\ recharge'[t].status = "FALHOU" =>
                           \/ payment'[t] \in {"rejected", "cancelled"}
                           \/ payment'[t] = "none" /\ creator'[t].pc = "failed"
  BY DEF FailedInv
<1> USE DEF TypeInv, TypeOK, CreatorRow
<1>1. Faults = 0 /\ ~ Spend("infra")
  BY FaultsGrow
<1>2. /\ creator[t].pc = "failing" => payment[t] = "none"
      /\ recharge[t].status = "FALHOU" =>
             \/ payment[t] \in {"rejected", "cancelled"}
             \/ payment[t] = "none" /\ creator[t].pc = "failed"
  BY <1>1 DEF FailedInv
<1>3. CreatorInv /\ ApplierInv
  BY DEF KnowledgeInv
<1>4. payment[t] \in {"rejected", "cancelled"} => payment'[t] = payment[t]
  BY PaymentIsFinal DEF Final
\* A payment comes into being only for a request that is asking.
<1>5. payment[t] = "none" => payment'[t] = "none" \/ creator[t].pc = "asking"
  <2>1. ASSUME NEW u \in Recharges, Create(u), u # t PROVE payment'[t] = payment[t]
    BY <2>1 DEF Create, PaymentCreated, PaymentNotAnswered, StorePaymentId, StoreFails, MarkFailed
  <2>2. ASSUME Create(t) PROVE payment'[t] = payment[t] \/ creator[t].pc = "asking"
    BY <2>2 DEF Create, PaymentCreated, PaymentNotAnswered, StorePaymentId, StoreFails, MarkFailed
  <2>3. ASSUME NEW u \in Recharges, PaymentDecided(u) PROVE payment[t] = "none" => payment'[t] = "none"
    BY <2>3 DEF PaymentDecided
  <2>4. ASSUME NEW a \in Appliers, Apply(a) PROVE payment' = payment
    BY <2>4 DEF Apply, GetPayment, ReadRecharge, RejectRecharge, ReadWallet, CreditRecharge, CreditConflict
  <2> QED
    BY <2>1, <2>2, <2>3, <2>4
    DEF Next, vars, CreateRecharge, Notify, Sync, ApplierFails, CheckBalance, Debit, DebitConflict, Crash
\* How a request comes to give up, and that it stays so.
<1>6. /\ creator'[t].pc = "failing" => creator[t].pc = "failing" \/ PaymentNotAnswered(t)
      /\ creator[t].pc = "failed" /\ recharge[t].status # "none" => creator'[t].pc = "failed"
  <2> DEFINE Goal == /\ creator'[t].pc = "failing" => creator[t].pc = "failing" \/ PaymentNotAnswered(t)
                     /\ creator[t].pc = "failed" /\ recharge[t].status # "none" => creator'[t].pc = "failed"
  <2>1. ASSUME NEW u \in Recharges, NEW method \in {"pix", "card"}, CreateRecharge(u, method) PROVE Goal
    BY <2>1 DEF CreateRecharge
  <2>2. ASSUME NEW u \in Recharges, Create(u) PROVE Goal
    <3>1. CASE u = t
      <4>1. creator'[t].pc = "failing" => creator[t].pc = "failing" \/ PaymentNotAnswered(t)
        BY <1>1, <2>2, <3>1 DEF Create, PaymentCreated, StorePaymentId, StoreFails, MarkFailed
      <4>2. creator[t].pc # "failed"
        BY <2>2, <3>1
        DEF Create, PaymentCreated, PaymentNotAnswered, StorePaymentId, StoreFails, MarkFailed
      <4> QED
        BY <4>1, <4>2
    <3>2. CASE u # t
      BY <2>2, <3>2 DEF Create, PaymentCreated, PaymentNotAnswered, StorePaymentId, StoreFails, MarkFailed
    <3> QED
      BY <3>1, <3>2
  <2>3. CASE Crash
    BY <2>3 DEF Crash
  <2>4. CASE creator' = creator
    BY <2>4
  <2>5. ASSUME NEW a \in Appliers, Apply(a) PROVE creator' = creator
    BY <2>5 DEF Apply, GetPayment, ReadRecharge, RejectRecharge, ReadWallet, CreditRecharge, CreditConflict
  <2> QED
    BY <2>1, <2>2, <2>3, <2>4, <2>5
    DEF Next, vars, PaymentDecided, Notify, Sync, ApplierFails, CheckBalance, Debit, DebitConflict
<1>7. ASSUME PaymentNotAnswered(t) PROVE payment'[t] = "none"
  BY <1>1, <1>3, <1>7 DEF PaymentNotAnswered, CreatorInv
<1>8. creator'[t].pc = "failing" => payment'[t] = "none"
  BY <1>2, <1>5, <1>6, <1>7
<1>9. CASE recharge[t].status = "FALHOU"
  BY <1>2, <1>4, <1>5, <1>6, <1>8, <1>9
<1>10. ASSUME NEW a \in Appliers, RejectRecharge(a), applier[a].of = t
       PROVE  payment'[t] \in {"rejected", "cancelled"}
  <2>1. payment[t] \in {"rejected", "cancelled"}
    BY <1>3, <1>10 DEF RejectRecharge, ApplierInv, Refused, Final
  <2> QED
    BY <1>4, <2>1
<1>11. ASSUME MarkFailed(t) PROVE payment'[t] = "none" /\ creator'[t].pc = "failed"
  BY <1>2, <1>11 DEF MarkFailed
<1> QED
  BY <1>8, <1>9, <1>10, <1>11, Settlements

\* A recharge whose payment was approved ends as FALHOU only if a call to Mercado
\* Pago or to the database failed or lost its answer.
THEOREM FailsOnlyByFault == Spec => []ApprovedFailsOnlyByFault
<1>1. TypeInv /\ KnowledgeInv /\ [Next]_vars => KnowledgeInv'
  BY CreatorStep, ApplierStep, PaidStep DEF KnowledgeInv
<1>2. TypeInv /\ FaultsCounted /\ [Next]_vars => FaultsCounted'
  BY FaultsGrow
<1>3. FaultsCounted /\ FailedInv => ApprovedFailsOnlyByFault
  BY DEF FaultsCounted, FailedInv, ApprovedFailsOnlyByFault
<1> QED
  BY TypeInvInit, TypeInvStep, KnowledgeInit, <1>1, FailedInit, <1>2, FailedStep, <1>3, PTL DEF Spec
-----------------------------------------------------------------------------
(* Sums of credits *)

\* The credits of S, one by one.
CreditsOf(S, worth) == UNION {{<<x, i>> : i \in 1 .. worth[x]} : x \in S}

\* Those of one member.
LEMMA CreditsOfOne ==
    ASSUME NEW x, NEW n \in Nat
    PROVE  IsFiniteSet({<<x, i>> : i \in 1 .. n}) /\ Cardinality({<<x, i>> : i \in 1 .. n}) = n
<1> DEFINE C == {<<x, i>> : i \in 1 .. n}
           f == [i \in 1 .. n |-> <<x, i>>]
<1>1. IsFiniteSet(1 .. n) /\ Cardinality(1 .. n) = n
  BY FS_Interval
<1>2. f \in Bijection(1 .. n, C)
  <2>1. f \in [1 .. n -> C]
    OBVIOUS
  <2>2. \A i, k \in 1 .. n : f[i] = f[k] => i = k
    OBVIOUS
  <2>3. \A p \in C : \E i \in 1 .. n : f[i] = p
    OBVIOUS
  <2> HIDE DEF f, C
  <2> QED
    BY <2>1, <2>2, <2>3 DEF Bijection, Injection, Surjection, IsInjective
<1>3. IsFiniteSet(C) /\ Cardinality(C) = Cardinality(1 .. n)
  BY <1>1, <1>2, FS_Bijection DEF ExistsBijection
<1> QED
  BY <1>1, <1>3

\* They are finitely many.
LEMMA CreditsFinite ==
    ASSUME NEW S, IsFiniteSet(S), NEW worth, \A x \in S : worth[x] \in Nat
    PROVE  IsFiniteSet(CreditsOf(S, worth)) /\ Total(S, worth) \in Nat
<1> DEFINE F(x) == {<<x, i>> : i \in 1 .. worth[x]}
<1>1. ASSUME NEW x \in S PROVE IsFiniteSet(F(x))
  BY CreditsOfOne
<1>2. IsFiniteSet({F(x) : x \in S})
  <2>1. \A x \in S : F(x) \in {F(y) : y \in S}
    OBVIOUS
  <2> DEFINE f == [x \in S |-> F(x)]
  <2>2. f \in Surjection(S, {F(x) : x \in S})
    BY DEF Surjection
  <2> QED
    BY <2>2, FS_Surjection
<1>3. IsFiniteSet(UNION {F(x) : x \in S})
  BY <1>1, <1>2, FS_UNION
<1> QED
  BY <1>3, FS_CardinalityType DEF CreditsOf, Total

\* A sum grows by what a new member is worth.
LEMMA TotalAdd ==
    ASSUME NEW S, IsFiniteSet(S), NEW worth, \A x \in S : worth[x] \in Nat,
           NEW new, new \notin S, worth[new] \in Nat
    PROVE  Total(S \cup {new}, worth) = Total(S, worth) + worth[new]
<1> DEFINE Mine == {<<new, i>> : i \in 1 .. worth[new]}
<1>1. IsFiniteSet(CreditsOf(S, worth)) /\ Cardinality(CreditsOf(S, worth)) \in Nat
  BY CreditsFinite DEF CreditsOf, Total
<1>2. IsFiniteSet(Mine) /\ Cardinality(Mine) = worth[new]
  BY CreditsOfOne
<1>3. CreditsOf(S \cup {new}, worth) = CreditsOf(S, worth) \cup Mine
  BY DEF CreditsOf
<1>4. CreditsOf(S, worth) \cap Mine = {}
  BY DEF CreditsOf
<1> HIDE DEF Mine
<1>5. Cardinality(CreditsOf(S, worth) \cap Mine) = 0
  BY <1>4, FS_EmptySet
<1>6. Cardinality(CreditsOf(S, worth) \cup Mine) = Cardinality(CreditsOf(S, worth)) + worth[new]
  <2>1. Cardinality(CreditsOf(S, worth) \cup Mine)
        = Cardinality(CreditsOf(S, worth)) + Cardinality(Mine) - Cardinality(CreditsOf(S, worth) \cap Mine)
    BY <1>1, <1>2, FS_Union
  <2> QED
    BY <1>1, <1>2, <1>5, <2>1
<1> QED
  BY <1>3, <1>6 DEF Total, CreditsOf

\* A part is worth no more than the whole.
LEMMA TotalPart ==
    ASSUME NEW S, IsFiniteSet(S), NEW worth, \A x \in S : worth[x] \in Nat, NEW T \in SUBSET S
    PROVE  Total(T, worth) <= Total(S, worth)
<1>1. IsFiniteSet(CreditsOf(S, worth))
  BY CreditsFinite
<1>2. CreditsOf(T, worth) \subseteq CreditsOf(S, worth)
  BY DEF CreditsOf
<1>3. Cardinality(CreditsOf(T, worth)) <= Cardinality(CreditsOf(S, worth))
  BY <1>1, <1>2, FS_Subset
<1> QED
  BY <1>3 DEF Total, CreditsOf

\* A sum depends only on what its members are worth.
LEMMA TotalSame ==
    ASSUME NEW S, NEW worth, NEW other, \A x \in S : worth[x] = other[x]
    PROVE  Total(S, worth) = Total(S, other)
<1>1. CreditsOf(S, worth) = CreditsOf(S, other)
  BY DEF CreditsOf
<1> QED
  BY <1>1 DEF Total, CreditsOf

-----------------------------------------------------------------------------
(* The statement and the balance *)

Quantity == [c \in Campaigns |-> debit[c].quantity]

\* What a step does to the balance and to the rows of the statement: it credits a
\* recharge, debits a campaign, takes a recharge out of the PAGO rows, or none of these.
Crediting(t) == balance' = balance + Credits[t] /\ Paid' = Paid \cup {t} /\ Debited' = Debited
Debiting(c) == balance' = balance - debit[c].quantity /\ c \notin Debited /\ Debited' = Debited \cup {c} /\ Paid' = Paid
Unpaying(t) == balance' = balance /\ Paid' = Paid \ {t} /\ Debited' = Debited

LEMMA LedgerSteps ==
    ASSUME TypeInv, [Next]_vars
    PROVE  \/ \E a \in Appliers : CreditRecharge(a) /\ applier[a].of \in Recharges /\ Crediting(applier[a].of)
           \/ \E c \in Campaigns : Debiting(c)
           \/ \E a \in Appliers : RejectRecharge(a) /\ applier[a].of \in Recharges /\ Unpaying(applier[a].of)
           \/ \E t \in Recharges : MarkFailed(t) /\ Unpaying(t)
           \/ UNCHANGED <<balance, Paid, Debited>>
<1>0. /\ recharge \in [Recharges -> RechargeRow] /\ debit \in [Campaigns -> DebitRow]
      /\ \A a \in Appliers : applier[a].pc # "idle" => applier[a].of \in Recharges
  BY DEF TypeInv, TypeOK, ApplierHasRecharge
<1>1. UNCHANGED <<balance, recharge, debit>> => UNCHANGED <<balance, Paid, Debited>>
  BY DEF Paid, Debited
<1>2. ASSUME NEW t \in Recharges, NEW method \in {"pix", "card"}, CreateRecharge(t, method)
      PROVE  UNCHANGED <<balance, Paid, Debited>>
  BY <1>0, <1>2 DEF CreateRecharge, Paid, Debited, RechargeRow
<1>3. ASSUME NEW t \in Recharges, Create(t)
      PROVE  (MarkFailed(t) /\ Unpaying(t)) \/ UNCHANGED <<balance, Paid, Debited>>
  <2>1. CASE MarkFailed(t)
    <3>1. CASE recharge' = recharge
      BY <1>1, <2>1, <3>1 DEF MarkFailed
    <3>2. CASE recharge' = [recharge EXCEPT ![t].status = "FALHOU"]
      <4>1. Paid' = Paid \ {t}
        BY <1>0, <3>2 DEF Paid, RechargeRow
      <4> QED
        BY <2>1, <4>1 DEF MarkFailed, Unpaying, Debited
    <3> QED
      BY <2>1, <3>1, <3>2 DEF MarkFailed
  <2>2. CASE StorePaymentId(t) \/ StoreFails(t)
    <3>1. \A u \in Recharges : recharge'[u].status = recharge[u].status
      BY <1>0, <2>2 DEF StorePaymentId, StoreFails, RechargeRow
    <3> QED
      BY <2>2, <3>1 DEF StorePaymentId, StoreFails, Paid, Debited
  <2>3. CASE PaymentNotAnswered(t) \/ \E answer \in PaymentStatus : PaymentCreated(t, answer)
    BY <1>1, <2>3 DEF PaymentNotAnswered, PaymentCreated
  <2> QED
    BY <1>3, <2>1, <2>2, <2>3 DEF Create
<1>4. ASSUME NEW a \in Appliers, CreditRecharge(a) PROVE applier[a].of \in Recharges /\ Crediting(applier[a].of)
  <2>1. applier[a].of \in Recharges
    BY <1>0, <1>4 DEF CreditRecharge
  <2>2. Paid' = Paid \cup {applier[a].of}
    BY <1>0, <1>4, <2>1 DEF CreditRecharge, Settle, Paid
  <2> QED
    BY <1>4, <2>1, <2>2 DEF CreditRecharge, Crediting, Debited
<1>5. ASSUME NEW a \in Appliers, RejectRecharge(a) PROVE applier[a].of \in Recharges /\ Unpaying(applier[a].of)
  <2>1. applier[a].of \in Recharges
    BY <1>0, <1>5 DEF RejectRecharge
  <2>2. Paid' = Paid \ {applier[a].of}
    BY <1>0, <1>5, <2>1 DEF RejectRecharge, Settle, Paid
  <2> QED
    BY <1>5, <2>1, <2>2 DEF RejectRecharge, Unpaying, Debited
<1>6. ASSUME NEW c \in Campaigns, NEW quantity \in Quantities, CheckBalance(c, quantity)
      PROVE  UNCHANGED <<balance, Paid, Debited>>
  <2>1. Debited' = Debited
    BY <1>0, <1>6 DEF CheckBalance, Debited
  <2> QED
    BY <1>6, <2>1 DEF CheckBalance, Paid
<1>7. ASSUME NEW c \in Campaigns, Debit(c) PROVE Debiting(c)
  <2>1. Debited' = Debited \cup {c} /\ c \notin Debited
    BY <1>0, <1>7 DEF Debit, Debited, DebitRow
  <2> QED
    BY <1>7, <2>1 DEF Debit, Debiting, Paid
<1>8. ASSUME NEW c \in Campaigns, DebitConflict(c) PROVE UNCHANGED <<balance, Paid, Debited>>
  <2>1. Debited' = Debited
    BY <1>0, <1>8 DEF DebitConflict, Debited, NoDebit
  <2> QED
    BY <1>8, <2>1 DEF DebitConflict, Paid
<1>9. ASSUME Crash PROVE UNCHANGED <<balance, Paid, Debited>>
  <2>1. Debited' = Debited
    BY <1>0, <1>9 DEF Crash, Debited, NoDebit
  <2> QED
    BY <1>9, <2>1 DEF Crash, Paid
<1>10. ASSUME NEW a \in Appliers,
              GetPayment(a) \/ ReadRecharge(a) \/ ReadWallet(a) \/ CreditConflict(a) \/ ApplierFails(a)
       PROVE  UNCHANGED <<balance, recharge, debit>>
  BY <1>10 DEF GetPayment, ReadRecharge, ReadWallet, CreditConflict, ApplierFails
<1>11. ASSUME \/ \E t \in Recharges : PaymentDecided(t)
              \/ \E h \in Handlers, t \in Recharges : Notify(h, t) \/ Sync(h, t)
              \/ UNCHANGED vars
       PROVE  UNCHANGED <<balance, recharge, debit>>
  BY <1>11 DEF PaymentDecided, Notify, Sync, vars
<1> QED
  BY <1>1, <1>2, <1>3, <1>4, <1>5, <1>6, <1>7, <1>8, <1>9, <1>10, <1>11 DEF Next, Apply

\* What a debit takes is a number of credits.
LEMMA QuantityType == TypeInv => \A c \in Campaigns : Quantity[c] \in Nat
<1> SUFFICES ASSUME TypeInv, NEW c \in Campaigns PROVE Quantity[c] \in Nat
  OBVIOUS
<1>1. debit[c] \in DebitRow
  BY DEF TypeInv, TypeOK
<1>2. debit[c].quantity \in Quantities \cup {0}
  BY <1>1 DEF DebitRow
<1>3. \A q \in Quantities \cup {0} : q \in Nat
  BY WalletAssumption
<1>4. Quantity[c] = debit[c].quantity
  BY DEF Quantity
<1> QED
  BY <1>2, <1>3, <1>4

\* The rows of the statement are finitely many, each of a known amount.
LEMMA LedgerType ==
    ASSUME TypeInv
    PROVE  /\ IsFiniteSet(Paid) /\ \A t \in Recharges : Credits[t] \in Nat
           /\ IsFiniteSet(Debited) /\ \A c \in Campaigns : Quantity[c] \in Nat
           /\ Paid \subseteq Recharges /\ Debited \subseteq Campaigns
           /\ balance \in Int /\ PaidCredits \in Nat /\ SpentCredits \in Nat
           /\ SpentCredits = Total(Debited, Quantity)
<1>1. Paid \subseteq Recharges /\ Debited \subseteq Campaigns /\ balance \in Int
  BY DEF Paid, Debited, TypeInv, TypeOK
<1>2. IsFiniteSet(Paid) /\ IsFiniteSet(Debited)
  BY <1>1, WalletAssumption, FS_Subset
<1>3. \A t \in Recharges : Credits[t] \in Nat
  BY WalletAssumption
<1>4. \A c \in Campaigns : Quantity[c] \in Nat
  BY QuantityType
<1>5. SpentCredits = Total(Debited, Quantity)
  BY DEF SpentCredits, Quantity
<1>6. PaidCredits \in Nat
  BY <1>1, <1>2, <1>3, CreditsFinite DEF PaidCredits
<1>7. Total(Debited, Quantity) \in Nat
  BY <1>1, <1>2, <1>4, CreditsFinite
<1> QED
  BY <1>1, <1>2, <1>3, <1>4, <1>5, <1>6, <1>7

\* A debit that is written keeps its quantity.
LEMMA QuantityStays ==
    ASSUME TypeInv, [Next]_vars, NEW c \in Campaigns, debit[c].pc = "CONSUMO" \/ debit'[c].pc = "CONSUMO"
    PROVE  debit'[c].quantity = debit[c].quantity
<1>0. debit \in [Campaigns -> DebitRow]
  BY DEF TypeInv, TypeOK
<1>1. ASSUME NEW d \in Campaigns, NEW quantity \in Quantities, CheckBalance(d, quantity)
      PROVE  debit'[c].quantity = debit[c].quantity
  BY <1>0, <1>1 DEF CheckBalance
<1>2. ASSUME NEW d \in Campaigns, Debit(d) \/ DebitConflict(d) PROVE debit'[c].quantity = debit[c].quantity
  <2>1. CASE d # c
    BY <1>0, <1>2, <2>1 DEF Debit, DebitConflict
  <2>2. CASE d = c /\ Debit(d)
    BY <1>0, <2>2 DEF Debit, DebitRow
  <2>3. CASE d = c /\ DebitConflict(d)
    BY <1>0, <2>3 DEF DebitConflict, NoDebit
  <2> QED
    BY <1>2, <2>1, <2>2, <2>3
<1>3. ASSUME Crash PROVE debit'[c].quantity = debit[c].quantity
  BY <1>0, <1>3 DEF Crash, NoDebit
<1>4. ASSUME NEW a \in Appliers, Apply(a) \/ ApplierFails(a) PROVE debit' = debit
  BY <1>4 DEF Apply, GetPayment, ReadRecharge, RejectRecharge, ReadWallet, CreditRecharge, CreditConflict,
              ApplierFails
<1>5. ASSUME NEW t \in Recharges, Create(t) \/ PaymentDecided(t) \/ (\E method \in {"pix", "card"} : CreateRecharge(t, method))
             \/ \E h \in Handlers : Notify(h, t) \/ Sync(h, t)
      PROVE  debit' = debit
  BY <1>5 DEF Create, PaymentCreated, PaymentNotAnswered, StorePaymentId, StoreFails, MarkFailed, PaymentDecided,
              CreateRecharge, Notify, Sync
<1> QED
  BY <1>1, <1>2, <1>3, <1>4, <1>5 DEF Next, vars

\* How the sums of the statement move with its rows.
LEMMA LedgerSums ==
    ASSUME TypeInv, [Next]_vars
    PROVE  /\ \A t \in Recharges : t \notin Paid /\ Paid' = Paid \cup {t} => PaidCredits' = PaidCredits + Credits[t]
           /\ \A t \in Recharges : t \in Paid /\ Paid' = Paid \cup {t} => PaidCredits' = PaidCredits
           /\ Paid' \subseteq Paid => PaidCredits' <= PaidCredits
           /\ Paid' = Paid => PaidCredits' = PaidCredits
           /\ \A c \in Campaigns : c \notin Debited /\ Debited' = Debited \cup {c}
                                   => SpentCredits' = SpentCredits + debit[c].quantity
           /\ Debited' = Debited => SpentCredits' = SpentCredits
<1>0. TypeInv'
  BY TypeInvStep
<1>1. /\ IsFiniteSet(Paid) /\ \A t \in Recharges : Credits[t] \in Nat
      /\ IsFiniteSet(Debited) /\ \A c \in Campaigns : Quantity[c] \in Nat
      /\ Paid \subseteq Recharges /\ Debited \subseteq Campaigns
      /\ SpentCredits = Total(Debited, Quantity)
  BY LedgerType
<1>2. PaidCredits = Total(Paid, Credits) /\ PaidCredits' = Total(Paid', Credits)
  BY DEF PaidCredits
<1>3. ASSUME NEW t \in Recharges, t \notin Paid, Paid' = Paid \cup {t} PROVE PaidCredits' = PaidCredits + Credits[t]
  BY <1>1, <1>2, <1>3, TotalAdd
<1>4. ASSUME NEW t \in Recharges, t \in Paid, Paid' = Paid \cup {t} PROVE PaidCredits' = PaidCredits
  <2>1. Paid' = Paid
    BY <1>4
  <2> QED
    BY <1>2, <2>1
<1>5. Paid' \subseteq Paid => PaidCredits' <= PaidCredits
  BY <1>1, <1>2, TotalPart
<1>6. Debited' \subseteq Campaigns /\ SpentCredits' = Total(Debited', Quantity')
  BY DEF Debited, SpentCredits, Quantity
<1>7. \A c \in Debited \cup Debited' : Quantity'[c] = Quantity[c]
  <2> SUFFICES ASSUME NEW c \in Debited \cup Debited' PROVE Quantity'[c] = Quantity[c]
    OBVIOUS
  <2>1. c \in Campaigns /\ (debit[c].pc = "CONSUMO" \/ debit'[c].pc = "CONSUMO")
    BY <1>1, <1>6 DEF Debited
  <2> QED
    BY <2>1, QuantityStays DEF Quantity
<1>8. SpentCredits' = Total(Debited', Quantity)
  BY <1>6, <1>7, TotalSame
<1>9. ASSUME NEW c \in Campaigns, c \notin Debited, Debited' = Debited \cup {c}
      PROVE  SpentCredits' = SpentCredits + debit[c].quantity
  <2>1. Total(Debited \cup {c}, Quantity) = Total(Debited, Quantity) + Quantity[c]
    BY <1>1, <1>9, TotalAdd
  <2>2. Quantity[c] = debit[c].quantity
    BY DEF Quantity
  <2> QED
    BY <1>1, <1>8, <1>9, <2>1, <2>2
<1>10. Debited' = Debited => SpentCredits' = SpentCredits
  BY <1>1, <1>8
<1> QED
  BY <1>2, <1>3, <1>4, <1>5, <1>9, <1>10

\* The sums stay numbers.
LEMMA LedgerNext ==
    ASSUME TypeInv, [Next]_vars
    PROVE  balance' \in Int /\ PaidCredits' \in Nat /\ SpentCredits' \in Nat
<1>1. TypeInv'
  BY TypeInvStep
<1>2. balance' \in Int /\ debit' \in [Campaigns -> DebitRow]
  BY <1>1 DEF TypeInv, TypeOK
<1>3. Paid' \subseteq Recharges /\ Debited' \subseteq Campaigns
  BY DEF Paid, Debited
<1>4. IsFiniteSet(Paid') /\ IsFiniteSet(Debited')
  BY <1>3, WalletAssumption, FS_Subset
<1>5. \A t \in Recharges : Credits[t] \in Nat
  BY WalletAssumption
<1>6. \A c \in Campaigns : debit'[c].quantity \in Nat
  <2>1. \A c \in Campaigns : debit'[c].quantity \in Quantities \cup {0}
    BY <1>2 DEF DebitRow
  <2>2. \A q \in Quantities \cup {0} : q \in Nat
    BY WalletAssumption
  <2> QED
    BY <2>1, <2>2
<1>7. PaidCredits' = Total(Paid', Credits) /\ SpentCredits' = Total(Debited', Quantity')
  BY DEF PaidCredits, SpentCredits, Quantity
<1>8. \A c \in Campaigns : Quantity'[c] \in Nat
  BY <1>6 DEF Quantity
<1>9. Total(Paid', Credits) \in Nat
  BY <1>3, <1>4, <1>5, CreditsFinite
<1>10. Total(Debited', Quantity') \in Nat
  BY <1>3, <1>4, <1>8, CreditsFinite
<1> QED
  BY <1>2, <1>7, <1>9, <1>10

\* What covers a sum covers a smaller one.
LEMMA LessPaid ==
    ASSUME NEW held \in Int, NEW paid \in Nat, NEW spent \in Nat, NEW less \in Nat,
           held >= paid - spent, less <= paid
    PROVE  held >= less - spent
OBVIOUS

\* The statement never promises more than the balance holds, whatever overlaps, fails
\* or is repeated: a credit is written with its PAGO row, a debit with its CONSUMO row,
\* each over the balance it read (applyPaymentUpdate and debitWalletOrThrow of
\* wallet.service.ts).
THEOREM NeverOverstated == Spec => []PaidIsCovered
<1>1. Init => PaidIsCovered
  <2> SUFFICES ASSUME Init PROVE PaidIsCovered
    OBVIOUS
  <2>1. Paid = {} /\ Debited = {} /\ balance = 0
    BY DEF Init, Paid, Debited, NoDebit
  <2>2. CreditsOf({}, Credits) = {} /\ CreditsOf({}, Quantity) = {}
    BY DEF CreditsOf
  <2>3. PaidCredits = 0 /\ SpentCredits = 0
    BY <2>1, <2>2, FS_EmptySet DEF PaidCredits, SpentCredits, Total, CreditsOf, Quantity
  <2> QED
    BY <2>1, <2>3 DEF PaidIsCovered
<1>2. TypeInv /\ PaidIsCovered /\ [Next]_vars => PaidIsCovered'
  <2> SUFFICES ASSUME TypeInv, PaidIsCovered, [Next]_vars PROVE balance' >= PaidCredits' - SpentCredits'
    BY DEF PaidIsCovered
  <2>0. balance >= PaidCredits - SpentCredits
    BY DEF PaidIsCovered
  <2>2. balance \in Int /\ PaidCredits \in Nat /\ SpentCredits \in Nat
    BY LedgerType
  <2>3. balance' \in Int /\ PaidCredits' \in Nat /\ SpentCredits' \in Nat
    BY LedgerNext
  <2>4. \A t \in Recharges : Credits[t] \in Nat
    BY LedgerType
  <2>5. ASSUME NEW t \in Recharges, Crediting(t) PROVE balance' >= PaidCredits' - SpentCredits'
    <3>1. PaidCredits' = PaidCredits + Credits[t] \/ PaidCredits' = PaidCredits
      BY <2>5, LedgerSums DEF Crediting
    <3>2. SpentCredits' = SpentCredits /\ balance' = balance + Credits[t]
      BY <2>5, LedgerSums DEF Crediting
    <3> QED
      BY <2>0, <2>2, <2>4, <3>1, <3>2
  <2>6. ASSUME NEW c \in Campaigns, Debiting(c) PROVE balance' >= PaidCredits' - SpentCredits'
    <3>1. /\ PaidCredits' = PaidCredits /\ SpentCredits' = SpentCredits + debit[c].quantity
          /\ balance' = balance - debit[c].quantity
      BY <2>6, LedgerSums DEF Debiting
    <3>2. debit[c].quantity \in Nat
      BY LedgerType DEF Quantity
    <3> QED
      BY <2>0, <2>2, <3>1, <3>2
  <2>7. ASSUME NEW t \in Recharges, Unpaying(t) PROVE balance' >= PaidCredits' - SpentCredits'
    <3>1. Paid' \subseteq Paid /\ Debited' = Debited /\ balance' = balance
      BY <2>7 DEF Unpaying
    <3>2. PaidCredits' <= PaidCredits /\ SpentCredits' = SpentCredits
      BY <3>1, LedgerSums
    <3>3. balance >= PaidCredits' - SpentCredits
      BY <2>0, <2>2, <2>3, <3>2, LessPaid
    <3> QED
      BY <3>1, <3>2, <3>3
  <2>8. ASSUME UNCHANGED <<balance, Paid, Debited>> PROVE balance' >= PaidCredits' - SpentCredits'
    BY <2>0, <2>8, LedgerSums
  <2> QED
    BY <2>5, <2>6, <2>7, <2>8, LedgerSteps
<1> QED
  BY TypeInvInit, TypeInvStep, <1>1, <1>2, PTL DEF Spec

-----------------------------------------------------------------------------
(* The statement without races and faults *)

\* Past the idempotence check, before the write.
Past == {"rejecting", "reading", "crediting"}

\* Without a fault, the recharge of an applier past its check is still open, unless
\* another one settled it in between.
RaceInv ==
    Faults = 0 => \A a \in Appliers :
        applier[a].pc \in Past => applier[a].of \in raced \/ Open(applier[a].of)

\* An applier comes past the check only by reading an open recharge, and keeps to it.
LEMMA PastSteps ==
    ASSUME TypeInv, [Next]_vars, NEW a \in Appliers, applier'[a].pc \in Past
    PROVE  /\ applier[a].pc # "idle" /\ applier'[a].of = applier[a].of
           /\ applier[a].pc \in Past \/ (recharge' = recharge /\ Open(applier[a].of))
           /\ ~ RejectRecharge(a) /\ ~ CreditRecharge(a)
<1> DEFINE Goal == /\ applier[a].pc # "idle" /\ applier'[a].of = applier[a].of
                   /\ applier[a].pc \in Past \/ (recharge' = recharge /\ Open(applier[a].of))
                   /\ ~ RejectRecharge(a) /\ ~ CreditRecharge(a)
<1>0. applier \in [Appliers -> ApplierRow] /\ applier[a] \in ApplierRow
  BY DEF TypeInv, TypeOK
<1>1. applier'[a] # IdleApplier
  BY DEF IdleApplier, Past
<1>2. ~ RejectRecharge(a) /\ ~ CreditRecharge(a)
  BY <1>0, <1>1 DEF RejectRecharge, CreditRecharge, Settle
<1>3. applier'[a] = applier[a] => Goal
  BY <1>2 DEF Past
<1>4. ASSUME NEW u \in Recharges, StorePaymentId(u) PROVE Goal
  <2>1. applier'[a] # applier[a] => applier'[a].pc = "answered"
    BY <1>0, <1>4 DEF StorePaymentId, IdleApplier
  <2> QED
    BY <1>3, <2>1 DEF Past
<1>5. ASSUME NEW h \in Handlers, NEW u \in Recharges, Notify(h, u) \/ Sync(h, u) PROVE Goal
  <2>1. applier'[a] # applier[a] => applier'[a].pc = "asking"
    BY <1>0, <1>5 DEF Notify, Sync, ApplierRow
  <2> QED
    BY <1>3, <2>1 DEF Past
<1>6. ASSUME NEW b \in Appliers, Apply(b), b # a PROVE Goal
  <2>1. applier'[a] = applier[a]
    BY <1>0, <1>6
    DEF Apply, GetPayment, ReadRecharge, RejectRecharge, ReadWallet, CreditRecharge, CreditConflict, Settle
  <2> QED
    BY <1>3, <2>1
<1>7. ASSUME GetPayment(a) PROVE Goal
  <2>1. applier'[a].pc = "answered"
    BY <1>0, <1>7 DEF GetPayment, ApplierRow
  <2> QED
    BY <2>1 DEF Past
<1>8. ASSUME ReadRecharge(a) PROVE Goal
  <2>1. Open(applier[a].of)
    <3>1. ~ Open(applier[a].of) => applier' = [applier EXCEPT ![a] = IdleApplier]
      BY <1>8 DEF ReadRecharge
    <3> QED
      BY <1>0, <1>1, <3>1
  <2>2. applier'[a].of = applier[a].of /\ applier[a].pc # "idle" /\ recharge' = recharge
    BY <1>0, <1>1, <1>8 DEF ReadRecharge, ApplierRow
  <2> QED
    BY <1>2, <2>1, <2>2
<1>9. ASSUME ReadWallet(a) PROVE Goal
  <2>1. applier'[a].of = applier[a].of /\ applier[a].pc = "reading"
    BY <1>0, <1>9 DEF ReadWallet, ApplierRow
  <2> QED
    BY <1>2, <2>1 DEF Past
<1>10. ASSUME CreditConflict(a) PROVE Goal
  BY <1>0, <1>1, <1>10 DEF CreditConflict
<1>11. ASSUME NEW b \in Appliers, ApplierFails(b) PROVE Goal
  BY <1>0, <1>1, <1>3, <1>11 DEF ApplierFails
<1>12. ASSUME Crash PROVE Goal
  BY <1>1, <1>12 DEF Crash
<1>13. ASSUME applier' = applier PROVE Goal
  BY <1>3, <1>13
<1>14. ASSUME NEW u \in Recharges, Create(u) PROVE Goal
  BY <1>4, <1>13, <1>14 DEF Create, PaymentCreated, PaymentNotAnswered, StoreFails, MarkFailed
<1> HIDE DEF Goal
<1>15. ASSUME NEW b \in Appliers, Apply(b) \/ ApplierFails(b) PROVE Goal
  BY <1>2, <1>6, <1>7, <1>8, <1>9, <1>10, <1>11, <1>15 DEF Apply
<1>16. Goal
  BY <1>5, <1>12, <1>13, <1>14, <1>15
  DEF Next, vars, CreateRecharge, PaymentDecided, CheckBalance, Debit, DebitConflict
<1> QED
  BY <1>16 DEF Goal

\* Which steps close an open recharge, and that one seen to race stays so.
LEMMA Closing ==
    ASSUME TypeInv, [Next]_vars, NEW t \in Recharges, Open(t)
    PROVE  \/ Open(t)'
           \/ \E b \in Appliers : (RejectRecharge(b) \/ CreditRecharge(b)) /\ applier[b].of = t
           \/ MarkFailed(t)
<1>1. recharge' \in [Recharges -> RechargeRow]
  BY TypeInvStep DEF TypeInv, TypeOK
<1>2. recharge'[t].status \in {"none", "PENDENTE", "PAGO", "FALHOU"}
  BY <1>1 DEF RechargeRow
<1> QED
  BY <1>2, Settlements DEF Open

LEMMA RacedGrows == ASSUME [Next]_vars PROVE raced \subseteq raced'
BY DEF Next, vars, Create, Apply, CreateRecharge, PaymentCreated, PaymentNotAnswered, StorePaymentId,
      StoreFails, MarkFailed, Notify, Sync, GetPayment, ReadRecharge, RejectRecharge, ReadWallet,
      CreditRecharge, CreditConflict, ApplierFails, CheckBalance, Debit, DebitConflict,
      PaymentDecided, Crash, Settle

\* Without a fault a request never gives up a recharge that somebody else may settle.
LEMMA MarksOnlyUnpaid ==
    ASSUME TypeInv, KnowledgeInv, FaultsCounted, FailedInv, Faults = 0, NEW t \in Recharges, MarkFailed(t)
    PROVE  /\ t \notin Paid
           /\ \A a \in Appliers : applier[a].pc \in Past => applier[a].of # t
<1>1. payment[t] = "none"
  BY DEF MarkFailed, FailedInv
<1>2. t \notin Paid
  BY <1>1 DEF Paid, KnowledgeInv, PaidMeansApproved
<1>3. ASSUME NEW a \in Appliers, applier[a].pc \in Past PROVE applier[a].of # t
  <2>1. applier[a].status \in Final
    BY <1>3 DEF KnowledgeInv, ApplierInv, Past, Final, Refused, Approved
  <2>2. payment[applier[a].of] \in Final
    BY <2>1 DEF KnowledgeInv, ApplierInv
  <2> QED
    BY <1>1, <2>2 DEF Final
<1> QED
  BY <1>2, <1>3

\* The second of two appliers past the check marks the race.
LEMMA RaceStep ==
    TypeInv /\ KnowledgeInv /\ FaultsCounted /\ FailedInv /\ RaceInv /\ [Next]_vars => RaceInv'
<1> SUFFICES ASSUME TypeInv, KnowledgeInv, FaultsCounted, FailedInv, RaceInv, [Next]_vars,
                    Faults' = 0, NEW a \in Appliers, applier'[a].pc \in Past
             PROVE  applier'[a].of \in raced' \/ recharge'[applier'[a].of].status = "PENDENTE"
  BY DEF RaceInv, Open
<1>1. Faults = 0
  BY FaultsGrow
<1>2. PICK t \in Recharges : applier[a].of = t /\ applier'[a].of = t
  BY PastSteps DEF TypeInv, ApplierHasRecharge
<1>3. ~ RejectRecharge(a) /\ ~ CreditRecharge(a)
  BY PastSteps
<1>4. CASE applier[a].pc \notin Past
  <2>1. recharge' = recharge /\ Open(t)
    BY <1>2, <1>4, PastSteps
  <2> QED
    BY <1>2, <2>1 DEF Open
<1>5. CASE applier[a].pc \in Past
  <2>1. t \in raced \/ Open(t)
    BY <1>1, <1>2, <1>5 DEF RaceInv
  <2>2. CASE t \in raced
    BY <1>2, <2>2, RacedGrows
  <2>3. ASSUME NEW b \in Appliers, RejectRecharge(b) \/ CreditRecharge(b), applier[b].of = t PROVE t \in raced'
    <3>1. b # a
      BY <1>3, <2>3
    <3>2. Late(b)
      BY <1>2, <1>5, <2>3, <3>1 DEF Late, Past
    <3>3. raced' = raced \cup {t}
      BY <2>3, <3>2 DEF RejectRecharge, CreditRecharge, Settle
    <3> QED
      BY <3>3
  <2>4. ~ MarkFailed(t)
    BY <1>1, <1>2, <1>5, MarksOnlyUnpaid
  <2>5. CASE Open(t)
    <3>1. Open(t)' \/ t \in raced'
      BY <2>3, <2>4, <2>5, Closing
    <3> QED
      BY <1>2, <3>1 DEF Open
  <2> QED
    BY <2>1, <2>2, <2>5
<1> QED
  BY <1>4, <1>5

\* Without a race and a fault, balance and statement move together.
LEMMA ExactStep ==
    ASSUME TypeInv, KnowledgeInv, FaultsCounted, FailedInv, RaceInv, [Next]_vars,
           StatementExactUnlessRaced, raced' = {}, Faults' = 0
    PROVE  balance' = PaidCredits' - SpentCredits'
<1>1. Faults = 0
  BY FaultsGrow
<1>2. raced = {}
  BY RacedGrows
<1>3. balance = PaidCredits - SpentCredits
  BY <1>1, <1>2 DEF StatementExactUnlessRaced
<1>4. balance \in Int /\ PaidCredits \in Nat /\ SpentCredits \in Nat /\ \A t \in Recharges : Credits[t] \in Nat
  BY LedgerType
<1>5. ASSUME NEW a \in Appliers, CreditRecharge(a), applier[a].of \in Recharges, Crediting(applier[a].of)
      PROVE  balance' = PaidCredits' - SpentCredits'
  <2> DEFINE t == applier[a].of
  <2>1. Open(t)
    BY <1>1, <1>2, <1>5 DEF RaceInv, CreditRecharge, Past
  <2>2. t \notin Paid
    BY <2>1 DEF Open, Paid
  <2>3. balance' = balance + Credits[t] /\ Paid' = Paid \cup {t} /\ Debited' = Debited
    BY <1>5 DEF Crediting
  <2>4. PaidCredits' = PaidCredits + Credits[t] /\ SpentCredits' = SpentCredits
    BY <1>5, <2>2, <2>3, LedgerSums
  <2> QED
    BY <1>3, <1>4, <1>5, <2>3, <2>4
<1>6. ASSUME NEW c \in Campaigns, Debiting(c) PROVE balance' = PaidCredits' - SpentCredits'
  <2>1. /\ PaidCredits' = PaidCredits /\ SpentCredits' = SpentCredits + debit[c].quantity
        /\ balance' = balance - debit[c].quantity
    BY <1>6, LedgerSums DEF Debiting
  <2>2. debit[c].quantity \in Nat
    BY QuantityType DEF Quantity
  <2> QED
    BY <1>3, <1>4, <2>1, <2>2
<1>7. ASSUME UNCHANGED <<balance, Paid, Debited>> PROVE balance' = PaidCredits' - SpentCredits'
  <2>1. PaidCredits' = PaidCredits /\ SpentCredits' = SpentCredits /\ balance' = balance
    BY <1>7, LedgerSums
  <2> QED
    BY <1>3, <2>1
<1>8. ASSUME NEW t \in Recharges, Unpaying(t), t \notin Paid PROVE UNCHANGED <<balance, Paid, Debited>>
  BY <1>8 DEF Unpaying
<1>9. ASSUME NEW a \in Appliers, RejectRecharge(a), applier[a].of \in Recharges PROVE applier[a].of \notin Paid
  BY <1>1, <1>2, <1>9 DEF RaceInv, RejectRecharge, Past, Open, Paid
<1>10. ASSUME NEW t \in Recharges, MarkFailed(t) PROVE t \notin Paid
  BY <1>1, <1>10, MarksOnlyUnpaid
<1> QED
  BY <1>5, <1>6, <1>7, <1>8, <1>9, <1>10, LedgerSteps

\* Webhooks, polls and the card request that learn of the same payment one after the
\* other credit it once, and the statement adds up to the balance: it stops doing so
\* only when two of them were past the idempotence check together, or a call failed
\* (applyPaymentUpdate of wallet.service.ts).
THEOREM StatementIsExact == Spec => []StatementExactUnlessRaced
<1>1. Init => RaceInv /\ StatementExactUnlessRaced
  <2> SUFFICES ASSUME Init PROVE RaceInv /\ balance = PaidCredits - SpentCredits
    BY DEF StatementExactUnlessRaced
  <2>1. Paid = {} /\ Debited = {} /\ balance = 0
    BY DEF Init, Paid, Debited, NoDebit
  <2>2. CreditsOf({}, Credits) = {} /\ CreditsOf({}, Quantity) = {}
    BY DEF CreditsOf
  <2>3. PaidCredits = 0 /\ SpentCredits = 0
    BY <2>1, <2>2, FS_EmptySet DEF PaidCredits, SpentCredits, Total, CreditsOf, Quantity
  <2>4. RaceInv
    BY DEF Init, RaceInv, IdleApplier, Past
  <2> QED
    BY <2>1, <2>3, <2>4
<1>2. TypeInv /\ KnowledgeInv /\ [Next]_vars => KnowledgeInv'
  BY CreatorStep, ApplierStep, PaidStep DEF KnowledgeInv
<1>3. TypeInv /\ FaultsCounted /\ [Next]_vars => FaultsCounted'
  BY FaultsGrow
<1>4. TypeInv /\ KnowledgeInv /\ FaultsCounted /\ FailedInv /\ RaceInv /\ StatementExactUnlessRaced /\ [Next]_vars
      => StatementExactUnlessRaced'
  BY ExactStep DEF StatementExactUnlessRaced
<1> QED
  BY TypeInvInit, TypeInvStep, KnowledgeInit, FailedInit, FailedStep, RaceStep, <1>1, <1>2, <1>3, <1>4, PTL DEF Spec

=============================================================================
