--------------------------- MODULE Authentication ---------------------------
(***************************************************************************)
(* The account of one e-mail in ZaBot: its registration, the codes that    *)
(* confirm it, and the refresh tokens of its sessions.                     *)
(*                                                                         *)
(* Every request reads the database, decides, and writes in a later        *)
(* statement, without a transaction around both; requests of the same      *)
(* account interleave.  An action is the code up to one statement.         *)
(*                                                                         *)
(* A family is named by its first token.  Tokens and codes are numbered in *)
(* the order they are created; one that expires is only refused from then  *)
(* on, so that nothing here tells it from one that is not used.  An        *)
(* account registered after this one was deleted is another account.  Left *)
(* out: the access tokens, which nothing stores, what a token or a code is *)
(* made of, and the e-mail, whose failure leaves the code in the database. *)
(***************************************************************************)
EXTENDS Naturals

CONSTANTS
    Password,     \* passwords a registration may offer
    MaxAttempts,  \* wrong guesses after which a code is refused
    MaxCodes,     \* bound: codes issued
    MaxTokens,    \* bound: refresh tokens issued
    MaxRequests   \* bound: requests in progress together

ASSUME AuthenticationAssumption ==
    /\ Password # {}
    /\ MaxAttempts \in Nat \ {0}
    /\ MaxCodes \in Nat /\ MaxTokens \in Nat /\ MaxRequests \in Nat \ {0}

Code == 1 .. MaxCodes
Token == 1 .. MaxTokens
Slot == 1 .. MaxRequests

VARIABLES
    user,      \* the account: "none", "pending", "confirmed" or "deleted"
    password,  \* its password, by the last registration
    codes,     \* verification codes: their state and wrong guesses
    tokens,    \* refresh tokens: their status, family and the token exchanged for them
    requests,  \* requests in progress: the statement each is about to run
    offered,   \* history: passwords registered while the account was not confirmed
    ended,     \* history: families that were revoked
    crossed    \* history: families that two requests used together

data == <<user, password, codes, tokens>>
history == <<offered, ended, crossed>>
vars == <<data, requests, history>>

CodeRow == [state : {"free", "sent", "consumed", "deleted"}, attempts : Nat]
TokenRow ==
    [status : {"free", "ATIVO", "ROTACIONADO", "REVOGADO", "deleted"},
     family : Token, parent : Token \cup {0}]
Statement ==
    {"none", "update", "create", "code", "wrong", "right", "rotate", "issue", "revoke"}

\* What each statement needs to know: a password, a code, or a token and its family.
Request == [pc : Statement, password : Password, code : Code \cup {0},
            token : Token \cup {0}, family : Token \cup {0}]

TypeOK ==
    /\ user \in {"none", "pending", "confirmed", "deleted"}
    /\ password \in Password
    /\ codes \in [Code -> CodeRow]
    /\ tokens \in [Token -> TokenRow]
    /\ requests \in [Slot -> Request]
    /\ offered \subseteq Password
    /\ ended \subseteq Token
    /\ crossed \subseteq Token

SomePassword == CHOOSE w \in Password : TRUE
NoRequest == [pc |-> "none", password |-> SomePassword, code |-> 0, token |-> 0, family |-> 0]

Init ==
    /\ user = "none"
    /\ password = SomePassword
    /\ codes = [c \in Code |-> [state |-> "free", attempts |-> 0]]
    /\ tokens = [t \in Token |->
            [status |-> "free", family |-> t, parent |-> 0]]
    /\ requests = [i \in Slot |-> NoRequest]
    /\ offered = {}
    /\ ended = {}
    /\ crossed = {}

-----------------------------------------------------------------------------
Idle(i) == requests[i].pc = "none"
At(i, pc) == requests[i].pc = pc
Finish(i) == requests' = [requests EXCEPT ![i] = NoRequest]
Begin(i, r) == Idle(i) /\ requests' = [requests EXCEPT ![i] = r]
Goto(i, pc) == requests' = [requests EXCEPT ![i].pc = pc]

Exists == user \in {"pending", "confirmed"}
Stored(t) == tokens[t].status \notin {"free", "deleted"}
Active(t) == tokens[t].status = "ATIVO"

\* The latest code that was not consumed, as findFirst orders them.
IsPending(c) ==
    /\ codes[c].state = "sent"
    /\ \A d \in Code : codes[d].state = "sent" => d <= c

\* Another request in progress uses the family.
Cross(i, f) ==
    crossed' = IF \E j \in Slot \ {i} : ~Idle(j) /\ requests[j].family = f
               THEN crossed \cup {f} ELSE crossed

-----------------------------------------------------------------------------
(* Registration *)

\* Mutant: a confirmed account can be registered again.
RegisterAnyway(i, w) ==
    /\ Begin(i, [NoRequest EXCEPT !.pc = IF user = "none" THEN "create" ELSE "update",
                                  !.password = w])
    /\ offered' = IF user = "confirmed" THEN offered ELSE offered \cup {w}
    /\ UNCHANGED <<data, ended, crossed>>

\* The account is looked up; the password is hashed before it is written.
Register(i, w) ==
    /\ user \in {"none", "pending"}
    /\ Begin(i, [NoRequest EXCEPT !.pc = IF user = "none" THEN "create" ELSE "update",
                                  !.password = w])
    /\ offered' = offered \cup {w}
    /\ UNCHANGED <<data, ended, crossed>>

\* The account's unique e-mail refuses a second creation.
CreateUser(i) ==
    /\ At(i, "create")
    /\ IF user = "none"
       THEN user' = "pending" /\ password' = requests[i].password /\ Goto(i, "code")
       ELSE UNCHANGED <<user, password>> /\ Finish(i)
    /\ UNCHANGED <<codes, tokens, history>>

\* The pending account is updated by its id, whatever it is by now; it may be deleted.
UpdateUser(i) ==
    /\ At(i, "update")
    /\ IF Exists
       THEN password' = requests[i].password /\ Goto(i, "code")
       ELSE UNCHANGED password /\ Finish(i)
    /\ UNCHANGED <<user, codes, tokens, history>>

\* resendCode answers alike when there is nothing to confirm.
Resend(i) ==
    /\ user = "pending"
    /\ Begin(i, [NoRequest EXCEPT !.pc = "code"])
    /\ UNCHANGED <<data, history>>

\* The code is stored before it is sent; without the account it cannot be.
IssueCode(i, c) ==
    /\ At(i, "code")
    /\ codes[c].state = "free" /\ \A d \in Code : codes[d].state = "free" => c <= d
    /\ codes' = IF Exists THEN [codes EXCEPT ![c].state = "sent"] ELSE codes
    /\ Finish(i)
    /\ UNCHANGED <<user, password, tokens, history>>

-----------------------------------------------------------------------------
(* Confirmation *)

\* Mutant: a code is never refused for its wrong guesses.
ConfirmForever(i, c, guess) ==
    /\ IsPending(c)
    /\ Begin(i, [NoRequest EXCEPT !.pc = guess, !.code = c])
    /\ UNCHANGED <<data, history>>

\* The pending code is read and checked, and the guess compared to it.
Confirm(i, c, guess) ==
    /\ IsPending(c)
    /\ codes[c].attempts < MaxAttempts
    /\ Begin(i, [NoRequest EXCEPT !.pc = guess, !.code = c])
    /\ UNCHANGED <<data, history>>

CountAttempt(i) ==
    /\ At(i, "wrong")
    /\ codes' = [codes EXCEPT ![requests[i].code].attempts = @ + 1]
    /\ Finish(i)
    /\ UNCHANGED <<user, password, tokens, history>>

\* The code is consumed and the account confirmed in one transaction, whether the code
\* was consumed meanwhile or not; a new family begins.
Consume(i) ==
    /\ At(i, "right")
    /\ IF Exists
       THEN /\ codes' = [codes EXCEPT ![requests[i].code].state = "consumed"]
            /\ user' = "confirmed"
            /\ Goto(i, "issue")
       ELSE UNCHANGED <<codes, user>> /\ Finish(i)
    /\ UNCHANGED <<password, tokens, history>>

-----------------------------------------------------------------------------
(* Tokens *)

\* The password matched the account's; it may be changed or deleted before the token is
\* issued.
Login(i) ==
    /\ user = "confirmed"
    /\ Begin(i, [NoRequest EXCEPT !.pc = "issue"])
    /\ UNCHANGED <<data, history>>

\* issueTokenPair: a token of the request's family, or the first of a new one.
Issue(i, t) ==
    /\ At(i, "issue")
    /\ tokens[t].status = "free" /\ \A u \in Token : tokens[u].status = "free" => t <= u
    /\ tokens' =
          IF ~Exists THEN tokens
          ELSE [tokens EXCEPT ![t] =
                  [status |-> "ATIVO", parent |-> requests[i].token,
                   family |-> IF requests[i].family = 0 THEN t ELSE requests[i].family]]
    /\ Finish(i)
    /\ UNCHANGED <<user, password, codes, history>>

\* refresh: the active token is found ...
Refresh(i, t) ==
    /\ Active(t)
    /\ Begin(i, [NoRequest EXCEPT !.pc = "rotate", !.token = t, !.family = tokens[t].family])
    /\ Cross(i, tokens[t].family)
    /\ UNCHANGED <<data, offered, ended>>

\* Mutant: the token is exchanged and stays active.
RotateKeepsActive(i) ==
    /\ At(i, "rotate")
    /\ IF Stored(requests[i].token) THEN Goto(i, "issue") ELSE Finish(i)
    /\ UNCHANGED <<data, history>>

\* ... marked as rotated, whatever its status is by now, and another issued ...
Rotate(i) ==
    /\ At(i, "rotate")
    /\ IF Stored(requests[i].token)
       THEN /\ tokens' = [tokens EXCEPT ![requests[i].token].status = "ROTACIONADO"]
            /\ Goto(i, "issue")
       ELSE UNCHANGED tokens /\ Finish(i)
    /\ UNCHANGED <<user, password, codes, history>>

\* ... or, when it is no longer active, its family is revoked.  logout revokes the family
\* of any token it finds.
RevokeByReuse(i, t) ==
    /\ Stored(t) /\ ~Active(t)
    /\ Begin(i, [NoRequest EXCEPT !.pc = "revoke", !.family = tokens[t].family])
    /\ Cross(i, tokens[t].family)
    /\ UNCHANGED <<data, offered, ended>>

Logout(i, t) ==
    /\ Stored(t)
    /\ Begin(i, [NoRequest EXCEPT !.pc = "revoke", !.family = tokens[t].family])
    /\ Cross(i, tokens[t].family)
    /\ UNCHANGED <<data, offered, ended>>

\* Mutant: only the first token of the family is revoked.
RevokeFirst(i) ==
    /\ At(i, "revoke")
    /\ tokens' = [t \in Token |->
            IF t = requests[i].family /\ Active(t)
            THEN [tokens[t] EXCEPT !.status = "REVOGADO"] ELSE tokens[t]]
    /\ ended' = ended \cup {requests[i].family}
    /\ Finish(i)
    /\ UNCHANGED <<user, password, codes, offered, crossed>>

\* revokeFamily: one statement on the tokens that are active.
Revoke(i) ==
    /\ At(i, "revoke")
    /\ tokens' = [t \in Token |->
            IF tokens[t].family = requests[i].family /\ Active(t)
            THEN [tokens[t] EXCEPT !.status = "REVOGADO"] ELSE tokens[t]]
    /\ ended' = ended \cup {requests[i].family}
    /\ Finish(i)
    /\ UNCHANGED <<user, password, codes, offered, crossed>>

-----------------------------------------------------------------------------
\* The account's codes and tokens are deleted with it.
DeleteAccount ==
    /\ user = "confirmed"
    /\ user' = "deleted"
    /\ codes' = [c \in Code |->
            IF codes[c].state = "free" THEN codes[c] ELSE [codes[c] EXCEPT !.state = "deleted"]]
    /\ tokens' = [t \in Token |->
            IF Stored(t) THEN [tokens[t] EXCEPT !.status = "deleted"] ELSE tokens[t]]
    /\ UNCHANGED <<password, requests, history>>

Next ==
    \/ \E i \in Slot :
        \/ \E w \in Password : Register(i, w)
        \/ CreateUser(i) \/ UpdateUser(i) \/ Resend(i)
        \/ \E c \in Code : IssueCode(i, c) \/ \E guess \in {"right", "wrong"} : Confirm(i, c, guess)
        \/ CountAttempt(i) \/ Consume(i) \/ Login(i)
        \/ \E t \in Token : Issue(i, t) \/ Refresh(i, t) \/ RevokeByReuse(i, t) \/ Logout(i, t)
        \/ Rotate(i) \/ Revoke(i)
    \/ DeleteAccount

Spec == Init /\ [][Next]_vars

-----------------------------------------------------------------------------
(* Properties *)

\* A token that was exchanged for another is not active, however refreshes race.
ExchangedIsSpent ==
    \A t \in Token : Stored(t) /\ tokens[t].parent # 0 => ~Active(tokens[t].parent)

\* Unless two requests used it together, a family that was revoked has no active token.
RevokedStaysRevoked ==
    \A t \in Token : Active(t) => tokens[t].family \notin ended \ crossed

\* A code takes at most MaxAttempts wrong guesses, and one more of each request that read
\* it together with the last of them.
AttemptsBounded ==
    \A c \in Code : codes[c].attempts < MaxAttempts + MaxRequests

\* The password of a confirmed account was registered before it was confirmed, though
\* the registration may write it afterwards.
PasswordFromBefore == user = "confirmed" => password \in offered
=============================================================================
