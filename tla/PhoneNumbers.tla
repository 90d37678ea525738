---------------------------- MODULE PhoneNumbers ----------------------------
(***************************************************************************)
(* How ZaBot turns the digits a user types into the numbers it asks        *)
(* WhatsApp about (PhoneNumberService): it drops the country code and the  *)
(* trunk zero, and tries the subscriber's number with and without the      *)
(* ninth digit.  A number is a sequence of digits.                         *)
(*                                                                         *)
(* Left out: characters that are not digits, which clean removes, and      *)
(* isStructurallyValid, which nothing calls.                               *)
(***************************************************************************)
EXTENDS Naturals, Sequences

CONSTANTS
    AreaCodes,      \* area codes (DDD) of the phones users type, each a pair of digits
    Subscribers,    \* eight digits that follow them
    MaxCandidates   \* CONTACT_MAX_VERIFICATION_ATTEMPTS

\* No area code starts with a zero.
ASSUME PhoneAssumption ==
    /\ MaxCandidates \in Nat \ {0}
    /\ AreaCodes \subseteq (1 .. 9) \X (0 .. 9)
    /\ Subscribers \subseteq [1 .. 8 -> 0 .. 9]

VARIABLES
    phone,       \* whose number it is: area code and eight digits
    typed,       \* what the user types
    candidates   \* generateCandidates: the numbers to ask WhatsApp about, in order

phoneVars == <<phone, typed, candidates>>

CountryCode == <<5, 5>>
\* DDDS_COM_NONO_DIGITO_OBRIGATORIO.
NinthDigitAreas == {<<1, d>> : d \in 1 .. 9} \cup {<<2, 1>>, <<2, 2>>, <<2, 4>>, <<2, 7>>, <<2, 8>>}

StartsWith(s, prefix) == Len(s) >= Len(prefix) /\ SubSeq(s, 1, Len(prefix)) = prefix
Drop(s, n) == SubSeq(s, n + 1, Len(s))

\* Mutation of WithoutCountryCode: ten digits are enough to drop the country code.
WithoutCountryCodeEarly(s) == IF StartsWith(s, CountryCode) /\ Len(s) > 10 THEN Drop(s, 2) ELSE s

\* An area code 55 looks like the country code: only the length tells.
WithoutCountryCode(s) == IF StartsWith(s, CountryCode) /\ Len(s) > 11 THEN Drop(s, 2) ELSE s
WithoutTrunkZero(s) == IF StartsWith(s, <<0>>) /\ Len(s) > 10 THEN Drop(s, 1) ELSE s

\* The subscriber's number with and without the ninth digit, the likelier first.
Variants(area, subscriber) ==
    IF Len(subscriber) = 8
    THEN IF area \in NinthDigitAreas THEN <<<<9>> \o subscriber, subscriber>>
                                     ELSE <<subscriber, <<9>> \o subscriber>>
    ELSE IF StartsWith(subscriber, <<9>>) THEN <<subscriber, Drop(subscriber, 1)>> ELSE <<subscriber>>

\* generateCandidates.
GenerateCandidates(digits) ==
    LET national == WithoutTrunkZero(WithoutCountryCode(digits))
        area == SubSeq(national, 1, 2)
        variants == Variants(area, Drop(national, 2))
        full == [i \in DOMAIN variants |-> CountryCode \o area \o variants[i]]
    IN  IF Len(national) \in 10 .. 11
        THEN SubSeq(full, 1, IF Len(full) < MaxCandidates THEN Len(full) ELSE MaxCandidates)
        ELSE << >>

-----------------------------------------------------------------------------
PhonesInit == phone = << >> /\ typed = << >> /\ candidates = << >>

\* A user types somebody's number one way or another.
Type(area, subscriber, country, zero, ninth) ==
    /\ phone' = area \o subscriber
    /\ typed' = (IF country THEN CountryCode ELSE << >>) \o (IF zero THEN <<0>> ELSE << >>)
                \o area \o (IF ninth THEN <<9>> ELSE << >>) \o subscriber
    /\ candidates' = GenerateCandidates(typed')

PhonesNext ==
    \E area \in AreaCodes, subscriber \in Subscribers, country, zero, ninth \in BOOLEAN :
        Type(area, subscriber, country, zero, ninth)

PhonesSpec == PhonesInit /\ [][PhonesNext]_phoneVars

-----------------------------------------------------------------------------
\* However a number is typed, with or without country code, trunk zero and ninth digit, the same two numbers are
\* tried, both of its own area code: the verdict on a contact does not depend on the spelling (README.md §5).
SpellingsAgree ==
    phone # << >> =>
        LET area == SubSeq(phone, 1, 2)
            subscriber == Drop(phone, 2)
        IN  {candidates[i] : i \in DOMAIN candidates}
               = {CountryCode \o area \o subscriber, CountryCode \o area \o <<9>> \o subscriber}
=============================================================================
