------------------------------- MODULE Wallet -------------------------------
(***************************************************************************)
(* The prepaid wallet of one user of ZaBot: recharges paid by Pix or card  *)
(* through Mercado Pago, credited by whoever learns first that the payment *)
(* was approved (the request that created a card charge, a webhook, or the *)
(* app's polling), and the debits of campaigns.                            *)
(*                                                                         *)
(* A PostgreSQL transaction at READ COMMITTED that reads before it writes  *)
(* is several steps: others may commit between two of its statements.  Its *)
(* writes, and the commit that follows them, are one step: the first write *)
(* locks the wallet's row, and whoever waits for it sees the new balance.  *)
(*                                                                         *)
(* Left out: package catalogue and prices, QR codes, the signature of a    *)
(* webhook, error messages.  A user without a wallet row is one with       *)
(* balance 0: both refuse every debit.                                     *)
(***************************************************************************)
EXTENDS Integers, FiniteSets

CONSTANTS
    Recharges,   \* recharges the user may ask for
    Credits,     \* credits of each recharge
    Campaigns,   \* campaigns that debit the wallet
    Quantities,  \* envios a campaign may have
    Handlers,    \* bound: webhooks and status requests handled at the same time
    Budget       \* bound: how often each kind of fault occurs

FaultKinds == {"crash", "infra"}

ASSUME WalletAssumption ==
    /\ IsFiniteSet(Recharges) /\ IsFiniteSet(Campaigns)
    /\ Handlers \cap Recharges = {}
    /\ Credits \in [Recharges -> Nat \ {0}]
    /\ Quantities \subseteq Nat \ {0}
    /\ Budget \in [FaultKinds -> Nat]

VARIABLES
    balance,   \* wallets.balance
    recharge,  \* RECARGA rows: status, and whether pixPaymentId is stored
    payment,   \* status of the payments at Mercado Pago
    creator,   \* POST /wallet/recharge, one request for each recharge
    applier,   \* webhooks, status requests and card requests applying a payment
    debit,     \* debits of campaigns: in progress, or the CONSUMO row
    raced,     \* history: recharges settled while another applier was past its check
    budget     \* faults that may still occur

vars == <<balance, recharge, payment, creator, applier, debit, raced, budget>>

-----------------------------------------------------------------------------
Appliers == Handlers \cup Recharges  \* a card request applies its own payment
PaymentStatus == {"none", "pending", "approved", "rejected", "cancelled"}

RechargeRow == [status : {"none", "PENDENTE", "PAGO", "FALHOU"}, known : BOOLEAN]
CreatorRow ==
    [pc : {"none", "asking", "storing", "failing", "done", "failed"},
     method : {"none", "pix", "card"}, answer : PaymentStatus]
ApplierRow ==
    [pc : {"idle", "asking", "answered", "rejecting", "reading", "crediting"},
     of : Recharges \cup {"none"}, status : PaymentStatus, seen : Nat]
DebitRow == [pc : {"none", "debiting", "CONSUMO"}, quantity : Quantities \cup {0}, seen : Nat]

TypeOK ==
    /\ balance \in Int
    /\ recharge \in [Recharges -> RechargeRow]
    /\ payment \in [Recharges -> PaymentStatus]
    /\ creator \in [Recharges -> CreatorRow]
    /\ applier \in [Appliers -> ApplierRow]
    /\ debit \in [Campaigns -> DebitRow]
    /\ raced \subseteq Recharges
    /\ budget \in [FaultKinds -> Nat]

IdleApplier == [pc |-> "idle", of |-> "none", status |-> "none", seen |-> 0]
NoDebit == [pc |-> "none", quantity |-> 0, seen |-> 0]

Init ==
    /\ balance = 0
    /\ recharge = [t \in Recharges |-> [status |-> "none", known |-> FALSE]]
    /\ payment = [t \in Recharges |-> "none"]
    /\ creator = [t \in Recharges |-> [pc |-> "none", method |-> "none", answer |-> "none"]]
    /\ applier = [a \in Appliers |-> IdleApplier]
    /\ debit = [c \in Campaigns |-> NoDebit]
    /\ raced = {}
    /\ budget = Budget

Spend(kind) ==
    /\ budget[kind] > 0
    /\ budget' = [budget EXCEPT ![kind] = @ - 1]

-----------------------------------------------------------------------------
(* POST /wallet/recharge *)

Answers(method) == IF method = "pix" THEN {"pending"} ELSE {"pending", "approved", "rejected"}

\* createRecharge: the PENDENTE row is committed before Mercado Pago is called.
CreateRecharge(t, method) ==
    /\ recharge[t].status = "none"
    /\ recharge' = [recharge EXCEPT ![t].status = "PENDENTE"]
    /\ creator' = [creator EXCEPT ![t] = [pc |-> "asking", method |-> method, answer |-> "none"]]
    /\ UNCHANGED <<balance, payment, applier, debit, raced, budget>>

\* Mercado Pago creates the payment and answers with its status.
PaymentCreated(t, answer) ==
    /\ creator[t].pc = "asking"
    /\ answer \in Answers(creator[t].method)
    /\ payment' = [payment EXCEPT ![t] = answer]
    /\ creator' = [creator EXCEPT ![t].pc = "storing", ![t].answer = answer]
    /\ UNCHANGED <<balance, recharge, applier, debit, raced, budget>>

\* Mercado Pago refuses to create it, or creates it and the answer is lost.
PaymentNotAnswered(t) ==
    /\ creator[t].pc = "asking"
    /\ \/ UNCHANGED <<payment, budget>>
       \/ Spend("infra") /\ \E s \in Answers(creator[t].method) : payment' = [payment EXCEPT ![t] = s]
    /\ creator' = [creator EXCEPT ![t].pc = "failing"]
    /\ UNCHANGED <<balance, recharge, applier, debit, raced>>

\* The payment's id is stored.  A Pix request ends here; a card request goes on
\* to apply the status it was answered.
StorePaymentId(t) ==
    /\ creator[t].pc = "storing"
    /\ recharge' = [recharge EXCEPT ![t].known = TRUE]
    /\ creator' = [creator EXCEPT ![t].pc = "done"]
    /\ applier' = IF creator[t].method = "pix" THEN applier
                  ELSE [applier EXCEPT ![t] = [IdleApplier EXCEPT !.pc = "answered", !.of = t,
                                                                  !.status = creator[t].answer]]
    /\ UNCHANGED <<balance, payment, debit, raced, budget>>

\* That transaction fails, or commits without the request hearing of it: only the
\* Pix request catches it and marks the recharge as failed.
StoreFails(t) ==
    /\ creator[t].pc = "storing"
    /\ Spend("infra")
    /\ \E known \in {FALSE, TRUE} : recharge' = [recharge EXCEPT ![t].known = @ \/ known]
    /\ creator' = [creator EXCEPT ![t].pc = IF creator[t].method = "pix" THEN "failing" ELSE "failed"]
    /\ UNCHANGED <<balance, payment, applier, debit, raced>>

\* markFailed writes FALHOU whatever the row says by now; its own failure is only logged.
MarkFailed(t) ==
    /\ creator[t].pc = "failing"
    /\ \/ recharge' = [recharge EXCEPT ![t].status = "FALHOU"] /\ UNCHANGED budget
       \/ Spend("infra") /\ UNCHANGED recharge
    /\ creator' = [creator EXCEPT ![t].pc = "failed"]
    /\ UNCHANGED <<balance, payment, applier, debit, raced>>

-----------------------------------------------------------------------------
(* Learning of a payment *)

\* Mercado Pago notifies a payment's status: never, once, or any number of times.
Notify(h, t) ==
    /\ applier[h].pc = "idle"
    /\ payment[t] # "none"
    /\ applier' = [applier EXCEPT ![h].pc = "asking", ![h].of = t]
    /\ UNCHANGED <<balance, recharge, payment, creator, debit, raced, budget>>

\* Mutation of Syncable: the app's polling never asks Mercado Pago.
NeverSyncable(t) == FALSE

\* syncRechargeStatus asks only for a pending recharge whose payment is known.
Syncable(t) == recharge[t].status = "PENDENTE" /\ recharge[t].known

\* The app polls GET /wallet (which synchronises every pending recharge) or the
\* status of one recharge.
Sync(h, t) ==
    /\ applier[h].pc = "idle"
    /\ Syncable(t)
    /\ applier' = [applier EXCEPT ![h].pc = "asking", ![h].of = t]
    /\ UNCHANGED <<balance, recharge, payment, creator, debit, raced, budget>>

\* getPayment answers with the payment's status.
GetPayment(h) ==
    /\ applier[h].pc = "asking"
    /\ applier' = [applier EXCEPT ![h].pc = "answered", ![h].status = payment[applier[h].of]]
    /\ UNCHANGED <<balance, recharge, payment, creator, debit, raced, budget>>

-----------------------------------------------------------------------------
(* applyPaymentUpdate, inside one transaction *)

\* Mutation of Open: without the idempotence check.
Created(t) == recharge[t].status # "none"

\* The idempotence check: PAGO and FALHOU are not applied again.
Open(t) == recharge[t].status = "PENDENTE"

\* Mutation of Refused: any answer but approval is taken for a refusal.
NotApproved(status) == status # "approved"

Refused(status) == status \in {"rejected", "cancelled"}

\* Mutation of Approved: a payment that may still be made counts.
NotRefused(status) == status \in {"pending", "approved"}

Approved(status) == status = "approved"

\* Reads the recharge, and decides with the status the payment had.
ReadRecharge(a) ==
    LET status == applier[a].status
        next == CASE Open(applier[a].of) /\ Approved(status) -> "reading"
                  [] Open(applier[a].of) /\ Refused(status) -> "rejecting"
                  [] OTHER -> "idle"
    IN  /\ applier[a].pc = "answered"
        /\ applier' = [applier EXCEPT ![a] = IF next = "idle" THEN IdleApplier
                                             ELSE [@ EXCEPT !.pc = next]]
        /\ UNCHANGED <<balance, recharge, payment, creator, debit, raced, budget>>

\* The recharge may have been settled by another applier since it was read.
Late(a) == \E b \in Appliers \ {a} : applier[b].of = applier[a].of
                                     /\ applier[b].pc \in {"rejecting", "reading", "crediting"}
Settle(a, status, known) ==
    /\ recharge' = [recharge EXCEPT ![applier[a].of] = [status |-> status, known |-> known]]
    /\ raced' = IF Late(a) THEN raced \cup {applier[a].of} ELSE raced
    /\ applier' = [applier EXCEPT ![a] = IdleApplier]

RejectRecharge(a) ==
    /\ applier[a].pc = "rejecting"
    /\ Settle(a, "FALHOU", recharge[applier[a].of].known)
    /\ UNCHANGED <<balance, payment, creator, debit, budget>>

ReadWallet(a) ==
    /\ applier[a].pc = "reading"
    /\ applier' = [applier EXCEPT ![a].pc = "crediting", ![a].seen = balance]
    /\ UNCHANGED <<balance, recharge, payment, creator, debit, raced, budget>>

\* Mutation of Unmoved: the update without "balance" in its WHERE clause.
Whatever(seen) == TRUE

\* The compare of the compare-and-swap on the balance.
Unmoved(seen) == seen = balance

\* Mutation of CreditRecharge: the number of updated rows is not looked at.
CreditIgnoringConflict(a) ==
    /\ applier[a].pc = "crediting"
    /\ balance' = balance + (IF Unmoved(applier[a].seen) THEN Credits[applier[a].of] ELSE 0)
    /\ Settle(a, "PAGO", TRUE)
    /\ UNCHANGED <<payment, creator, debit, budget>>

\* Compare-and-swap of the balance, then PAGO, and commit.
CreditRecharge(a) ==
    /\ applier[a].pc = "crediting"
    /\ Unmoved(applier[a].seen)
    /\ balance' = balance + Credits[applier[a].of]
    /\ Settle(a, "PAGO", TRUE)
    /\ UNCHANGED <<payment, creator, debit, budget>>

\* Somebody changed the balance: the transaction rolls back with an error.
CreditConflict(a) ==
    /\ applier[a].pc = "crediting"
    /\ ~ Unmoved(applier[a].seen)
    /\ applier' = [applier EXCEPT ![a] = IdleApplier]
    /\ UNCHANGED <<balance, recharge, payment, creator, debit, raced, budget>>

\* A call to Mercado Pago or to the database fails: the transaction rolls back.
ApplierFails(a) ==
    /\ applier[a].pc # "idle"
    /\ Spend("infra")
    /\ applier' = [applier EXCEPT ![a] = IdleApplier]
    /\ UNCHANGED <<balance, recharge, payment, creator, debit, raced>>

-----------------------------------------------------------------------------
(* debitWalletOrThrow, inside the transaction that creates a campaign *)

CheckBalance(c, quantity) ==
    /\ debit[c].pc = "none"
    /\ quantity <= balance
    /\ debit' = [debit EXCEPT ![c] = [pc |-> "debiting", quantity |-> quantity, seen |-> balance]]
    /\ UNCHANGED <<balance, recharge, payment, creator, applier, raced, budget>>

Debit(c) ==
    /\ debit[c].pc = "debiting"
    /\ Unmoved(debit[c].seen)
    /\ balance' = balance - debit[c].quantity
    /\ debit' = [debit EXCEPT ![c].pc = "CONSUMO"]
    /\ UNCHANGED <<recharge, payment, creator, applier, raced, budget>>

\* The campaign is rolled back; the user may try again.
DebitConflict(c) ==
    /\ debit[c].pc = "debiting"
    /\ ~ Unmoved(debit[c].seen)
    /\ debit' = [debit EXCEPT ![c] = NoDebit]
    /\ UNCHANGED <<balance, recharge, payment, creator, applier, raced, budget>>

-----------------------------------------------------------------------------
(* Mercado Pago, and the backend process *)

\* A Pix is paid only by a user who was shown its code; it expires otherwise.  A
\* card payment under review is decided.
PaymentDecided(t) ==
    /\ payment[t] = "pending"
    /\ \/ /\ creator[t].method = "card" \/ creator[t].pc = "done"
          /\ payment' = [payment EXCEPT ![t] = "approved"]
       \/ payment' = [payment EXCEPT ![t] = IF creator[t].method = "card" THEN "rejected" ELSE "cancelled"]
    /\ UNCHANGED <<balance, recharge, creator, applier, debit, raced, budget>>

\* The process dies: every request in progress, and its open transaction, is gone.
Crash ==
    /\ Spend("crash")
    /\ creator' = [t \in Recharges |-> IF creator[t].pc \in {"asking", "storing", "failing"}
                                       THEN [creator[t] EXCEPT !.pc = "failed"] ELSE creator[t]]
    /\ applier' = [a \in Appliers |-> IdleApplier]
    /\ debit' = [c \in Campaigns |-> IF debit[c].pc = "debiting" THEN NoDebit ELSE debit[c]]
    /\ UNCHANGED <<balance, recharge, payment, raced>>

-----------------------------------------------------------------------------
Create(t) ==
    \/ \E answer \in PaymentStatus : PaymentCreated(t, answer)
    \/ PaymentNotAnswered(t) \/ StorePaymentId(t) \/ StoreFails(t) \/ MarkFailed(t)

Apply(a) ==
    \/ GetPayment(a) \/ ReadRecharge(a) \/ RejectRecharge(a)
    \/ ReadWallet(a) \/ CreditRecharge(a) \/ CreditConflict(a)

Next ==
    \/ \E t \in Recharges, method \in {"pix", "card"} : CreateRecharge(t, method)
    \/ \E t \in Recharges : Create(t) \/ PaymentDecided(t)
    \/ \E h \in Handlers, t \in Recharges : Notify(h, t) \/ Sync(h, t)
    \/ \E a \in Appliers : Apply(a) \/ ApplierFails(a)
    \/ \E c \in Campaigns, quantity \in Quantities : CheckBalance(c, quantity)
    \/ \E c \in Campaigns : Debit(c) \/ DebitConflict(c)
    \/ Crash

Spec == Init /\ [][Next]_vars

\* The event loop ends what it began, and the app goes on polling while a
\* recharge is pending.  Handlers are a bound of the model, so a poll that finds
\* them all busy again and again is strongly fair.  Nothing is assumed of webhooks.
Fairness ==
    /\ \A a \in Appliers : WF_vars(Apply(a))
    /\ \A t \in Recharges : SF_vars(\E h \in Handlers : Sync(h, t))

FairSpec == Spec /\ Fairness

-----------------------------------------------------------------------------
(* Properties *)

Faults == Budget["infra"] - budget["infra"]

\* The sum of what the members of S are worth, counted credit by credit.
Total(S, worth) == Cardinality(UNION {{<<x, i>> : i \in 1 .. worth[x]} : x \in S})

Paid == {t \in Recharges : recharge[t].status = "PAGO"}
Debited == {c \in Campaigns : debit[c].pc = "CONSUMO"}
PaidCredits == Total(Paid, Credits)
SpentCredits == Total(Debited, [c \in Campaigns |-> debit[c].quantity])

\* Concurrent campaigns and credits never drive the balance below zero
\* (schema.prisma 564-567).
BalanceNeverNegative == balance >= 0

\* No paid recharge goes uncredited and no debit is lost upwards: the statement of
\* PAGO and CONSUMO rows never promises more than the balance holds.
PaidIsCovered == balance >= PaidCredits - SpentCredits

\* Whoever settles a recharge as PAGO acts on a payment that was approved.
PaidMeansApproved == \A t \in Recharges : recharge[t].status = "PAGO" => payment[t] = "approved"

\* A recharge ends as FALHOU although its payment was approved only if a call
\* failed or lost its answer on the way.
ApprovedFailsOnlyByFault ==
    \A t \in Recharges : recharge[t].status = "FALHOU" /\ payment[t] = "approved" => Faults > 0

\* Duplicated webhooks, polls and the card request, one after the other, credit a
\* recharge once: the statement differs from the balance only when two of them
\* overlapped between check and write, or a call failed.
StatementExactUnlessRaced == raced = {} /\ Faults = 0 => balance = PaidCredits - SpentCredits

\* schema.prisma 583-586: the statement always adds up to the balance.
StatementMatchesBalance == balance = PaidCredits - SpentCredits

\* A payment approved while its recharge is pending with a stored id is credited,
\* even if every webhook is lost and the process crashes.
PollingRecovers ==
    \A t \in Recharges :
        (payment[t] = "approved" /\ recharge[t] = [status |-> "PENDENTE", known |-> TRUE]
         /\ creator[t].pc \in {"done", "failed"})
        ~> recharge[t].status = "PAGO"

=============================================================================
