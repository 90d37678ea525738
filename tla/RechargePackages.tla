-------------------------- MODULE RechargePackages --------------------------
(***************************************************************************)
(* The catalogue of recharges of ZaBot: five fixed packages, and a package *)
(* for any other amount, named by its id, with the bonus of its bracket.   *)
(* Amounts are in cents.  The code computes a custom package's credits in  *)
(* floating point; for every amount it accepts the result is that of the   *)
(* integer division below.                                                 *)
(***************************************************************************)
EXTENDS Integers

CONSTANT Amounts   \* amounts of the ids personalizada-<amount> that requests name

ASSUME AmountsAssumption == Amounts \subseteq Nat

VARIABLES
    offer,    \* the package the last request found
    before    \* the one of the request before

packageVars == <<offer, before>>

NoPackage == [amount |-> 0, credits |-> 0, bonus |-> 0]

\* RECHARGE_PACKAGES.
FixedPackages ==
    {[amount |-> 2000,  credits |-> 220,  bonus |-> 10],
     [amount |-> 5000,  credits |-> 600,  bonus |-> 20],
     [amount |-> 10000, credits |-> 1350, bonus |-> 35],
     [amount |-> 30000, credits |-> 4500, bonus |-> 50],
     [amount |-> 50000, credits |-> 8250, bonus |-> 65]}

\* Mutation of BonusForAmount: a bracket begins after its amount.
BonusAbove(amount) ==
    IF amount > 50000 THEN 65
    ELSE IF amount > 30000 THEN 50
    ELSE IF amount > 10000 THEN 35
    ELSE IF amount > 5000 THEN 20 ELSE 10

\* bonusForAmount.
BonusForAmount(amount) ==
    IF amount >= 50000 THEN 65
    ELSE IF amount >= 30000 THEN 50
    ELSE IF amount >= 10000 THEN 35
    ELSE IF amount >= 5000 THEN 20 ELSE 10

\* findRechargePackage, for an id of four to seven digits.
CustomPackage(amount) ==
    [amount  |-> amount,
     credits |-> (amount * (100 + BonusForAmount(amount))) \div 1000,
     bonus   |-> BonusForAmount(amount)]
MayBeCustom(amount) == amount >= 1000 /\ amount <= 9999999

PackagesInit == offer = NoPackage /\ before = NoPackage

\* A request names a fixed package.
FindFixed(p) ==
    /\ offer' = p
    /\ before' = offer

\* A request names an amount of its own.
FindCustom(amount) ==
    /\ MayBeCustom(amount)
    /\ offer' = CustomPackage(amount)
    /\ before' = offer

PackagesNext ==
    \/ \E p \in FixedPackages : FindFixed(p)
    \/ \E amount \in Amounts : FindCustom(amount)

PackagesSpec == PackagesInit /\ [][PackagesNext]_packageVars

-----------------------------------------------------------------------------
\* Of two packages, fixed or custom, the dearer one never gives fewer credits, nor a smaller bonus; and two
\* packages of one amount are the same ("mesmas faixas progressivas", recharge-packages.ts).
CreditsFollowCatalogue ==
    before.amount <= offer.amount =>
        /\ before.credits <= offer.credits
        /\ before.bonus <= offer.bonus
        /\ before.amount = offer.amount => before = offer
=============================================================================
