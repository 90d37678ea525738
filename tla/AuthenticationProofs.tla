------------------------ MODULE AuthenticationProofs ------------------------
(***************************************************************************)
(* Authentication for any passwords, and any number of codes, tokens and   *)
(* requests that interleave: its type invariant, and that tokens that were *)
(* exchanged or revoked, and the password, stay what the code promises.    *)
(***************************************************************************)
EXTENDS Authentication, FiniteSets, FiniteSetTheorems, TLAPS

-----------------------------------------------------------------------------
(* The inductive invariant *)

Begun(t) == tokens[t].status # "free"
Spent(t) == tokens[t].status \notin {"free", "ATIVO"}

\* What a request carries at each of its statements.
RequestInv ==
    \A i \in Slot :
        /\ requests[i].pc \in {"right", "wrong"} => requests[i].code \in Code
        /\ requests[i].pc \notin {"rotate", "issue"} => requests[i].token = 0
        /\ requests[i].pc = "rotate" => requests[i].token \in Token /\ Begun(requests[i].token)
        /\ requests[i].pc = "issue" /\ requests[i].token # 0 => Spent(requests[i].token)
        /\ requests[i].pc \notin {"rotate", "issue", "revoke"} => requests[i].family = 0
        /\ requests[i].pc = "revoke" => requests[i].family # 0
        /\ requests[i].family # 0 => Begun(requests[i].family)
        /\ requests[i].pc \in {"create", "update"} => requests[i].password \in offered

\* The token another was issued for is spent, and a token's family has begun.
TokenInv ==
    \A t \in Token :
        /\ tokens[t].parent # 0 => Spent(tokens[t].parent)
        /\ Begun(t) => Begun(tokens[t].family)

\* Two requests of one family have crossed; without that, no request is about to issue a token of a
\* revoked family.
FamilyInv ==
    /\ \A i, j \in Slot :
          i # j /\ requests[i].family = requests[j].family /\ requests[i].family # 0 =>
              requests[i].family \in crossed
    /\ \A i \in Slot :
          requests[i].pc \in {"rotate", "issue"} => requests[i].family \notin ended \ crossed
    /\ \A f \in ended : Begun(f)
    /\ RevokedStaysRevoked

\* The password of every account was offered by a registration.
PasswordInv == user # "none" => password \in offered

AuthInv == TypeOK /\ RequestInv /\ TokenInv /\ FamilyInv /\ PasswordInv

-----------------------------------------------------------------------------
\* The request that waits for nothing.
LEMMA NoRequestType ==
    /\ NoRequest \in Request /\ NoRequest.pc = "none" /\ NoRequest.code = 0
    /\ NoRequest.token = 0 /\ NoRequest.family = 0
BY AuthenticationAssumption DEF NoRequest, Request, Statement, SomePassword

\* The initial state.
LEMMA AuthInit == Init => AuthInv
<1> SUFFICES ASSUME Init PROVE AuthInv
  OBVIOUS
<1>1. SomePassword \in Password
  BY AuthenticationAssumption DEF SomePassword
<1>2. TypeOK
  BY <1>1, NoRequestType DEF Init, TypeOK, CodeRow, TokenRow
<1>3. RequestInv /\ PasswordInv
  BY NoRequestType DEF Init, RequestInv, PasswordInv
<1>4. TokenInv
  BY DEF Init, TokenInv, Begun
<1>5. FamilyInv
  BY NoRequestType DEF Init, FamilyInv, RevokedStaysRevoked, Active
<1> QED
  BY <1>2, <1>3, <1>4, <1>5 DEF AuthInv

\* Every step keeps the invariant.
LEMMA AuthNext == AuthInv /\ [Next]_vars => AuthInv'
<1> SUFFICES ASSUME AuthInv, [Next]_vars
             PROVE  AuthInv'
  OBVIOUS
<1>a. TypeOK /\ RequestInv /\ TokenInv /\ FamilyInv /\ PasswordInv
  BY DEF AuthInv
<1>b. 0 \notin Token
  BY DEF Token
<1> USE NoRequestType DEF data, history
<1>1. ASSUME NEW i \in Slot, NEW w \in Password, Register(i, w)
      PROVE  AuthInv'
  <2>1. TypeOK'
    BY <1>1, <1>a, <1>b DEF Register, Begin, Idle, TypeOK, Request, Statement, CodeRow, TokenRow, RequestInv
  <2>2. RequestInv'
    BY <1>1, <1>a, <1>b DEF Register, Begin, Idle, TypeOK, Request, TokenRow, RequestInv, TokenInv, Begun, Spent
  <2>3. TokenInv'
    BY <1>1, <1>a, <1>b DEF Register, Begin, Idle, TypeOK, Request, TokenRow, RequestInv, TokenInv, Begun, Spent
  <2>4. FamilyInv'
    BY <1>1, <1>a, <1>b DEF Register, Begin, Idle, TypeOK, Request, TokenRow, RequestInv, TokenInv, FamilyInv, RevokedStaysRevoked, Active, Begun
  <2>5. PasswordInv'
    BY <1>1, <1>a DEF Register, Begin, Idle, RequestInv, PasswordInv
  <2> QED
    BY <2>1, <2>2, <2>3, <2>4, <2>5 DEF AuthInv
<1>2. ASSUME NEW i \in Slot, CreateUser(i)
      PROVE  AuthInv'
  <2>1. TypeOK'
    BY <1>2, <1>a, <1>b DEF CreateUser, At, Finish, Goto, TypeOK, Request, Statement, CodeRow, TokenRow, RequestInv
  <2>2. RequestInv'
    BY <1>2, <1>a, <1>b DEF CreateUser, At, Finish, Goto, TypeOK, Request, TokenRow, RequestInv, TokenInv, Begun, Spent
  <2>3. TokenInv'
    BY <1>2, <1>a, <1>b DEF CreateUser, At, Finish, Goto, TypeOK, Request, TokenRow, RequestInv, TokenInv, Begun, Spent
  <2>4. FamilyInv'
    <3>1. \A j \in Slot : requests'[j].family = requests[j].family
      BY <1>2, <1>a DEF CreateUser, At, Finish, Goto, TypeOK, Request, RequestInv
    <3>2. \A j \in Slot : requests'[j].pc \in {"rotate", "issue"} =>
              requests[j].pc \in {"rotate", "issue"} \/ requests'[j].family = 0
      BY <1>2, <1>a DEF CreateUser, At, Finish, Goto, TypeOK, Request, RequestInv
    <3>3. tokens' = tokens /\ ended' = ended /\ crossed' = crossed /\ 0 \notin ended
      BY <1>2, <1>a, <1>b DEF CreateUser, TypeOK
    <3> QED
      BY <3>1, <3>2, <3>3, <1>a DEF FamilyInv, RevokedStaysRevoked, Active, Begun
  <2>5. PasswordInv'
    BY <1>2, <1>a DEF CreateUser, At, Finish, Goto, RequestInv, PasswordInv
  <2> QED
    BY <2>1, <2>2, <2>3, <2>4, <2>5 DEF AuthInv
<1>3. ASSUME NEW i \in Slot, UpdateUser(i)
      PROVE  AuthInv'
  <2>1. TypeOK'
    BY <1>3, <1>a, <1>b DEF UpdateUser, At, Finish, Goto, Exists, TypeOK, Request, Statement, CodeRow, TokenRow, RequestInv
  <2>2. RequestInv'
    BY <1>3, <1>a, <1>b DEF UpdateUser, At, Finish, Goto, Exists, TypeOK, Request, TokenRow, RequestInv, TokenInv, Begun, Spent
  <2>3. TokenInv'
    BY <1>3, <1>a, <1>b DEF UpdateUser, At, Finish, Goto, Exists, TypeOK, Request, TokenRow, RequestInv, TokenInv, Begun, Spent
  <2>4. FamilyInv'
    <3>1. \A j \in Slot : requests'[j].family = requests[j].family
      BY <1>3, <1>a DEF UpdateUser, At, Finish, Goto, TypeOK, Request, RequestInv
    <3>2. \A j \in Slot : requests'[j].pc \in {"rotate", "issue"} =>
              requests[j].pc \in {"rotate", "issue"} \/ requests'[j].family = 0
      BY <1>3, <1>a DEF UpdateUser, At, Finish, Goto, TypeOK, Request, RequestInv
    <3>3. tokens' = tokens /\ ended' = ended /\ crossed' = crossed /\ 0 \notin ended
      BY <1>3, <1>a, <1>b DEF UpdateUser, TypeOK
    <3> QED
      BY <3>1, <3>2, <3>3, <1>a DEF FamilyInv, RevokedStaysRevoked, Active, Begun
  <2>5. PasswordInv'
    BY <1>3, <1>a DEF UpdateUser, At, Finish, Goto, Exists, RequestInv, PasswordInv
  <2> QED
    BY <2>1, <2>2, <2>3, <2>4, <2>5 DEF AuthInv
<1>4. ASSUME NEW i \in Slot, Resend(i)
      PROVE  AuthInv'
  <2>1. TypeOK'
    BY <1>4, <1>a, <1>b DEF Resend, Begin, Idle, TypeOK, Request, Statement, CodeRow, TokenRow, RequestInv
  <2>2. RequestInv'
    BY <1>4, <1>a, <1>b DEF Resend, Begin, Idle, TypeOK, Request, TokenRow, RequestInv, TokenInv, Begun, Spent
  <2>3. TokenInv'
    BY <1>4, <1>a, <1>b DEF Resend, Begin, Idle, TypeOK, Request, TokenRow, RequestInv, TokenInv, Begun, Spent
  <2>4. FamilyInv'
    BY <1>4, <1>a, <1>b DEF Resend, Begin, Idle, TypeOK, Request, TokenRow, RequestInv, TokenInv, FamilyInv, RevokedStaysRevoked, Active, Begun
  <2>5. PasswordInv'
    BY <1>4, <1>a DEF Resend, Begin, Idle, RequestInv, PasswordInv
  <2> QED
    BY <2>1, <2>2, <2>3, <2>4, <2>5 DEF AuthInv
<1>5. ASSUME NEW i \in Slot, NEW c \in Code, IssueCode(i, c)
      PROVE  AuthInv'
  <2>1. TypeOK'
    BY <1>5, <1>a, <1>b DEF IssueCode, At, Finish, Exists, TypeOK, Request, Statement, CodeRow, TokenRow, RequestInv
  <2>2. RequestInv'
    BY <1>5, <1>a, <1>b DEF IssueCode, At, Finish, Exists, TypeOK, Request, TokenRow, RequestInv, TokenInv, Begun, Spent
  <2>3. TokenInv'
    BY <1>5, <1>a, <1>b DEF IssueCode, At, Finish, Exists, TypeOK, Request, TokenRow, RequestInv, TokenInv, Begun, Spent
  <2>4. FamilyInv'
    BY <1>5, <1>a, <1>b DEF IssueCode, At, Finish, Exists, TypeOK, Request, TokenRow, RequestInv, TokenInv, FamilyInv, RevokedStaysRevoked, Active, Begun
  <2>5. PasswordInv'
    BY <1>5, <1>a DEF IssueCode, At, Finish, Exists, RequestInv, PasswordInv
  <2> QED
    BY <2>1, <2>2, <2>3, <2>4, <2>5 DEF AuthInv
<1>6. ASSUME NEW i \in Slot, NEW c \in Code, NEW guess \in {"right", "wrong"}, Confirm(i, c, guess)
      PROVE  AuthInv'
  <2>1. TypeOK'
    BY <1>6, <1>a, <1>b DEF Confirm, Begin, Idle, TypeOK, Request, Statement, CodeRow, TokenRow, RequestInv
  <2>2. RequestInv'
    BY <1>6, <1>a, <1>b DEF Confirm, Begin, Idle, TypeOK, Request, TokenRow, RequestInv, TokenInv, Begun, Spent
  <2>3. TokenInv'
    BY <1>6, <1>a, <1>b DEF Confirm, Begin, Idle, TypeOK, Request, TokenRow, RequestInv, TokenInv, Begun, Spent
  <2>4. FamilyInv'
    BY <1>6, <1>a, <1>b DEF Confirm, Begin, Idle, TypeOK, Request, TokenRow, RequestInv, TokenInv, FamilyInv, RevokedStaysRevoked, Active, Begun
  <2>5. PasswordInv'
    BY <1>6, <1>a DEF Confirm, Begin, Idle, RequestInv, PasswordInv
  <2> QED
    BY <2>1, <2>2, <2>3, <2>4, <2>5 DEF AuthInv
<1>7. ASSUME NEW i \in Slot, CountAttempt(i)
      PROVE  AuthInv'
  <2>1. TypeOK'
    BY <1>7, <1>a, <1>b DEF CountAttempt, At, Finish, TypeOK, Request, Statement, CodeRow, TokenRow, RequestInv
  <2>2. RequestInv'
    BY <1>7, <1>a, <1>b DEF CountAttempt, At, Finish, TypeOK, Request, TokenRow, RequestInv, TokenInv, Begun, Spent
  <2>3. TokenInv'
    BY <1>7, <1>a, <1>b DEF CountAttempt, At, Finish, TypeOK, Request, TokenRow, RequestInv, TokenInv, Begun, Spent
  <2>4. FamilyInv'
    BY <1>7, <1>a, <1>b DEF CountAttempt, At, Finish, TypeOK, Request, TokenRow, RequestInv, TokenInv, FamilyInv, RevokedStaysRevoked, Active, Begun
  <2>5. PasswordInv'
    BY <1>7, <1>a DEF CountAttempt, At, Finish, RequestInv, PasswordInv
  <2> QED
    BY <2>1, <2>2, <2>3, <2>4, <2>5 DEF AuthInv
<1>8. ASSUME NEW i \in Slot, Consume(i)
      PROVE  AuthInv'
  <2>1. TypeOK'
    <3>1. requests[i].code \in Code
      BY <1>8, <1>a DEF Consume, At, RequestInv
    <3>2. codes' \in [Code -> CodeRow] /\ user' \in {"none", "pending", "confirmed", "deleted"}
      BY <1>8, <3>1, <1>a DEF Consume, TypeOK, CodeRow
    <3>3. requests' \in [Slot -> Request]
      BY <1>8, <1>a DEF Consume, Finish, Goto, TypeOK, Request, Statement
    <3> QED
      BY <1>8, <3>2, <3>3, <1>a DEF Consume, TypeOK
  <2>2. RequestInv'
    BY <1>8, <1>a, <1>b DEF Consume, At, Finish, Goto, Exists, TypeOK, Request, TokenRow, RequestInv, TokenInv, Begun, Spent
  <2>3. TokenInv'
    BY <1>8, <1>a, <1>b DEF Consume, At, Finish, Goto, Exists, TypeOK, Request, TokenRow, RequestInv, TokenInv, Begun, Spent
  <2>4. FamilyInv'
    <3>1. \A j \in Slot : requests'[j].family = requests[j].family
      BY <1>8, <1>a DEF Consume, At, Finish, Goto, TypeOK, Request, RequestInv
    <3>2. \A j \in Slot : requests'[j].pc \in {"rotate", "issue"} =>
              requests[j].pc \in {"rotate", "issue"} \/ requests'[j].family = 0
      BY <1>8, <1>a DEF Consume, At, Finish, Goto, TypeOK, Request, RequestInv
    <3>3. tokens' = tokens /\ ended' = ended /\ crossed' = crossed /\ 0 \notin ended
      BY <1>8, <1>a, <1>b DEF Consume, TypeOK
    <3> QED
      BY <3>1, <3>2, <3>3, <1>a DEF FamilyInv, RevokedStaysRevoked, Active, Begun
  <2>5. PasswordInv'
    BY <1>8, <1>a DEF Consume, At, Finish, Goto, Exists, RequestInv, PasswordInv
  <2> QED
    BY <2>1, <2>2, <2>3, <2>4, <2>5 DEF AuthInv
<1>9. ASSUME NEW i \in Slot, Login(i)
      PROVE  AuthInv'
  <2>1. TypeOK'
    BY <1>9, <1>a, <1>b DEF Login, Begin, Idle, TypeOK, Request, Statement, CodeRow, TokenRow, RequestInv
  <2>2. RequestInv'
    BY <1>9, <1>a, <1>b DEF Login, Begin, Idle, TypeOK, Request, TokenRow, RequestInv, TokenInv, Begun, Spent
  <2>3. TokenInv'
    BY <1>9, <1>a, <1>b DEF Login, Begin, Idle, TypeOK, Request, TokenRow, RequestInv, TokenInv, Begun, Spent
  <2>4. FamilyInv'
    BY <1>9, <1>a, <1>b DEF Login, Begin, Idle, TypeOK, Request, TokenRow, RequestInv, TokenInv, FamilyInv, RevokedStaysRevoked, Active, Begun
  <2>5. PasswordInv'
    BY <1>9, <1>a DEF Login, Begin, Idle, RequestInv, PasswordInv
  <2> QED
    BY <2>1, <2>2, <2>3, <2>4, <2>5 DEF AuthInv
<1>10. ASSUME NEW i \in Slot, NEW t \in Token, Issue(i, t)
       PROVE  AuthInv'
  <2>1. TypeOK'
    BY <1>10, <1>a, <1>b DEF Issue, At, Finish, Exists, TypeOK, Request, Statement, CodeRow, TokenRow, RequestInv
  <2>2. RequestInv'
    BY <1>10, <1>a, <1>b DEF Issue, At, Finish, Exists, TypeOK, Request, TokenRow, RequestInv, TokenInv, Begun, Spent
  <2>3. TokenInv'
    BY <1>10, <1>a, <1>b DEF Issue, At, Finish, Exists, TypeOK, Request, TokenRow, RequestInv, TokenInv, Begun, Spent
  <2>4. FamilyInv'
    BY <1>10, <1>a, <1>b DEF Issue, At, Finish, Exists, TypeOK, Request, TokenRow, RequestInv, TokenInv, FamilyInv, RevokedStaysRevoked, Active, Begun
  <2>5. PasswordInv'
    BY <1>10, <1>a DEF Issue, At, Finish, Exists, RequestInv, PasswordInv
  <2> QED
    BY <2>1, <2>2, <2>3, <2>4, <2>5 DEF AuthInv
<1>11. ASSUME NEW i \in Slot, NEW t \in Token, Refresh(i, t)
       PROVE  AuthInv'
  <2>1. TypeOK'
    BY <1>11, <1>a, <1>b DEF Refresh, Begin, Idle, Cross, Active, TypeOK, Request, Statement, CodeRow, TokenRow, RequestInv
  <2>2. RequestInv'
    BY <1>11, <1>a, <1>b DEF Refresh, Begin, Idle, Cross, Active, TypeOK, Request, TokenRow, RequestInv, TokenInv, Begun, Spent
  <2>3. TokenInv'
    BY <1>11, <1>a, <1>b DEF Refresh, Begin, Idle, Cross, Active, TypeOK, Request, TokenRow, RequestInv, TokenInv, Begun, Spent
  <2>4. FamilyInv'
    BY <1>11, <1>a, <1>b DEF Refresh, Begin, Idle, Cross, Active, TypeOK, Request, TokenRow, RequestInv, TokenInv, FamilyInv, RevokedStaysRevoked, Active, Begun
  <2>5. PasswordInv'
    BY <1>11, <1>a DEF Refresh, Begin, Idle, Cross, Active, RequestInv, PasswordInv
  <2> QED
    BY <2>1, <2>2, <2>3, <2>4, <2>5 DEF AuthInv
<1>12. ASSUME NEW i \in Slot, NEW t \in Token, RevokeByReuse(i, t)
       PROVE  AuthInv'
  <2>1. TypeOK'
    BY <1>12, <1>a, <1>b DEF RevokeByReuse, Begin, Idle, Cross, Active, Stored, TypeOK, Request, Statement, CodeRow, TokenRow, RequestInv
  <2>2. RequestInv'
    BY <1>12, <1>a, <1>b DEF RevokeByReuse, Begin, Idle, Cross, Active, Stored, TypeOK, Request, TokenRow, RequestInv, TokenInv, Begun, Spent
  <2>3. TokenInv'
    BY <1>12, <1>a, <1>b DEF RevokeByReuse, Begin, Idle, Cross, Active, Stored, TypeOK, Request, TokenRow, RequestInv, TokenInv, Begun, Spent
  <2>4. FamilyInv'
    BY <1>12, <1>a, <1>b DEF RevokeByReuse, Begin, Idle, Cross, Active, Stored, TypeOK, Request, TokenRow, RequestInv, TokenInv, FamilyInv, RevokedStaysRevoked, Active, Begun
  <2>5. PasswordInv'
    BY <1>12, <1>a DEF RevokeByReuse, Begin, Idle, Cross, Active, Stored, RequestInv, PasswordInv
  <2> QED
    BY <2>1, <2>2, <2>3, <2>4, <2>5 DEF AuthInv
<1>13. ASSUME NEW i \in Slot, NEW t \in Token, Logout(i, t)
       PROVE  AuthInv'
  <2>1. TypeOK'
    BY <1>13, <1>a, <1>b DEF Logout, Begin, Idle, Cross, Stored, TypeOK, Request, Statement, CodeRow, TokenRow, RequestInv
  <2>2. RequestInv'
    BY <1>13, <1>a, <1>b DEF Logout, Begin, Idle, Cross, Stored, TypeOK, Request, TokenRow, RequestInv, TokenInv, Begun, Spent
  <2>3. TokenInv'
    BY <1>13, <1>a, <1>b DEF Logout, Begin, Idle, Cross, Stored, TypeOK, Request, TokenRow, RequestInv, TokenInv, Begun, Spent
  <2>4. FamilyInv'
    BY <1>13, <1>a, <1>b DEF Logout, Begin, Idle, Cross, Stored, TypeOK, Request, TokenRow, RequestInv, TokenInv, FamilyInv, RevokedStaysRevoked, Active, Begun
  <2>5. PasswordInv'
    BY <1>13, <1>a DEF Logout, Begin, Idle, Cross, Stored, RequestInv, PasswordInv
  <2> QED
    BY <2>1, <2>2, <2>3, <2>4, <2>5 DEF AuthInv
<1>14. ASSUME NEW i \in Slot, Rotate(i)
       PROVE  AuthInv'
  <2>1. TypeOK'
    BY SMTT(30), <1>14, <1>a, <1>b DEF Rotate, At, Finish, Goto, Stored, TypeOK, Request, Statement, CodeRow, TokenRow, RequestInv
  <2>2. RequestInv'
    <3>1. CASE Stored(requests[i].token)
      <4>1. /\ requests' = [requests EXCEPT ![i].pc = "issue"]
            /\ tokens' = [tokens EXCEPT ![requests[i].token].status = "ROTACIONADO"]
            /\ requests[i].pc = "rotate" /\ requests[i].token \in Token /\ offered' = offered
        BY <1>14, <3>1, <1>a DEF Rotate, At, Goto, RequestInv
      <4>2. /\ \A t \in Token : tokens'[t].status = tokens[t].status \/ tokens'[t].status = "ROTACIONADO"
            /\ tokens'[requests[i].token].status = "ROTACIONADO"
        BY <4>1, <1>a DEF TypeOK, TokenRow
      <4>3. ASSUME NEW j \in Slot
            PROVE  /\ j # i => requests'[j] = requests[j]
                   /\ j = i => /\ requests'[i].pc = "issue" /\ requests'[i].token = requests[i].token
                               /\ requests'[i].family = requests[i].family
                   /\ requests[j].token \in Token \cup {0} /\ requests[j].family \in Token \cup {0}
        BY <4>1, <1>a DEF TypeOK, Request
      <4> QED
        BY <4>1, <4>2, <4>3, <1>a DEF RequestInv, Begun, Spent
    <3>2. CASE ~Stored(requests[i].token)
      BY <1>14, <3>2, <1>a DEF Rotate, Finish, TypeOK, Request, RequestInv, Begun, Spent
    <3> QED
      BY <3>1, <3>2
  <2>3. TokenInv'
    <3>1. requests[i].token \in Token
      BY <1>14, <1>a DEF Rotate, At, RequestInv
    <3>2. \A t \in Token : /\ tokens'[t].family = tokens[t].family /\ tokens'[t].parent = tokens[t].parent
                           /\ tokens'[t].status = tokens[t].status \/ tokens'[t].status = "ROTACIONADO"
                           /\ tokens[t].status = "free" => tokens'[t].status = "free"
      BY <1>14, <3>1, <1>a DEF Rotate, Stored, TypeOK, TokenRow
    <3> QED
      BY <3>2, <1>a DEF TokenInv, Begun, Spent, TypeOK, TokenRow
  <2>4. FamilyInv'
    <3>1. \A j \in Slot : requests'[j].family \in {requests[j].family, 0}
      BY <1>14, <1>a DEF Rotate, Finish, Goto, TypeOK, Request
    <3>2. \A j \in Slot : requests'[j].pc \in {"rotate", "issue"} => requests[j].pc \in {"rotate", "issue"}
      BY <1>14, <1>a DEF Rotate, At, Finish, Goto, TypeOK, Request
    <3>3. requests[i].token \in Token /\ ended' = ended /\ crossed' = crossed /\ 0 \notin ended
      BY <1>14, <1>a, <1>b DEF Rotate, At, RequestInv, TypeOK
    <3>4. \A t \in Token : /\ tokens'[t].family = tokens[t].family
                           /\ tokens'[t].status = "ATIVO" => tokens[t].status = "ATIVO"
                           /\ tokens'[t].status = "free" => tokens[t].status = "free"
      BY <1>14, <3>3, <1>a DEF Rotate, Stored, TypeOK, TokenRow
    <3>5. \A j \in Slot : requests'[j].family \notin ended \/ requests'[j].family = requests[j].family
      BY <3>1, <3>3
    <3> QED
      BY <3>1, <3>2, <3>3, <3>4, <3>5, <1>a DEF FamilyInv, RevokedStaysRevoked, Active, Begun, TypeOK
  <2>5. PasswordInv'
    BY <1>14, <1>a DEF Rotate, At, Finish, Goto, Stored, RequestInv, PasswordInv
  <2> QED
    BY <2>1, <2>2, <2>3, <2>4, <2>5 DEF AuthInv
<1>15. ASSUME NEW i \in Slot, Revoke(i)
       PROVE  AuthInv'
  <2>1. TypeOK'
    <3>1. requests[i].family \in Token
      BY <1>15, <1>a DEF Revoke, At, RequestInv, TypeOK, Request
    <3>2. tokens' \in [Token -> TokenRow]
      BY <1>15, <1>a DEF Revoke, Active, TypeOK, TokenRow
    <3> QED
      BY <1>15, <3>1, <3>2, <1>a DEF Revoke, Finish, TypeOK
  <2>2. RequestInv'
    BY <1>15, <1>a, <1>b DEF Revoke, At, Finish, Active, TypeOK, Request, TokenRow, RequestInv, TokenInv, Begun, Spent
  <2>3. TokenInv'
    BY <1>15, <1>a, <1>b DEF Revoke, At, Finish, Active, TypeOK, Request, TokenRow, RequestInv, TokenInv, Begun, Spent
  <2>4. FamilyInv'
    <3>1. \A j \in Slot : requests'[j] = IF j = i THEN NoRequest ELSE requests[j]
      BY <1>15, <1>a DEF Revoke, Finish, TypeOK
    <3>2. \A t \in Token : /\ tokens'[t].family = tokens[t].family
                           /\ tokens'[t].status = "ATIVO" =>
                                  tokens[t].status = "ATIVO" /\ tokens[t].family # requests[i].family
                           /\ tokens'[t].status = "free" => tokens[t].status = "free"
      BY <1>15, <1>a DEF Revoke, Active, TypeOK, TokenRow
    <3>3. requests[i].family \in Token /\ ended' = ended \cup {requests[i].family} /\ crossed' = crossed
      BY <1>15, <1>a DEF Revoke, At, RequestInv, TypeOK, Request
    <3>4. Begun(requests[i].family) /\ ended \subseteq Token
      BY <3>3, <1>a, <1>b DEF RequestInv, TypeOK
    <3>5. \A j \in Slot \ {i} : requests[j].family = requests[i].family => requests[j].family \in crossed
      BY <3>3, <1>a, <1>b DEF FamilyInv
    <3>6. \A j \in Slot : requests'[j].pc \in {"rotate", "issue"} => requests'[j].family \notin ended' \ crossed'
      BY <3>1, <3>3, <3>5, <1>a DEF FamilyInv
    <3>7. \A f \in ended' : Begun(f)'
      BY <3>2, <3>3, <3>4, <1>a DEF FamilyInv, Begun
    <3>8. RevokedStaysRevoked'
      BY <3>2, <3>3, <1>a DEF FamilyInv, RevokedStaysRevoked, Active
    <3>9. \A j, k \in Slot :
              j # k /\ requests'[j].family = requests'[k].family /\ requests'[j].family # 0 =>
                  requests'[j].family \in crossed'
      BY <3>1, <3>3, <1>a DEF FamilyInv
    <3> QED
      BY <3>6, <3>7, <3>8, <3>9 DEF FamilyInv
  <2>5. PasswordInv'
    BY <1>15, <1>a DEF Revoke, At, Finish, Active, RequestInv, PasswordInv
  <2> QED
    BY <2>1, <2>2, <2>3, <2>4, <2>5 DEF AuthInv
<1>16. CASE DeleteAccount
  <2>1. TypeOK'
    BY SMTT(30), <1>16, <1>a, <1>b DEF DeleteAccount, Stored, TypeOK, Request, Statement, CodeRow, TokenRow, RequestInv
  <2>2. RequestInv'
    BY <1>16, <1>a, <1>b DEF DeleteAccount, Stored, TypeOK, Request, TokenRow, RequestInv, TokenInv, Begun, Spent
  <2>3. TokenInv'
    BY <1>16, <1>a, <1>b DEF DeleteAccount, Stored, TypeOK, Request, TokenRow, RequestInv, TokenInv, Begun, Spent
  <2>4. FamilyInv'
    BY <1>16, <1>a, <1>b DEF DeleteAccount, Stored, TypeOK, Request, TokenRow, RequestInv, TokenInv, FamilyInv, RevokedStaysRevoked, Active, Begun
  <2>5. PasswordInv'
    BY <1>16, <1>a DEF DeleteAccount, Stored, RequestInv, PasswordInv
  <2> QED
    BY <2>1, <2>2, <2>3, <2>4, <2>5 DEF AuthInv
<1>17. CASE UNCHANGED vars
  BY <1>17, <1>a DEF vars, AuthInv, TypeOK, RequestInv, TokenInv, FamilyInv, RevokedStaysRevoked, PasswordInv, Active, Begun, Spent
<1> QED
  BY <1>1, <1>2, <1>3, <1>4, <1>5, <1>6, <1>7, <1>8, <1>9, <1>10, <1>11, <1>12, <1>13, <1>14, <1>15, <1>16, <1>17 DEF Next

\* The account, its codes, tokens and requests keep their types (auth.service.ts).
THEOREM AuthTypeCorrect == Spec => []TypeOK
<1>1. AuthInv => TypeOK
  BY DEF AuthInv
<1> QED
  BY <1>1, AuthInit, AuthNext, PTL DEF Spec

\* However refreshes, logouts and reuses race, the token exchanged for another is not active.
THEOREM ExchangedTokensAreSpent == Spec => []ExchangedIsSpent
<1>1. AuthInv => ExchangedIsSpent
  BY DEF AuthInv, TokenInv, ExchangedIsSpent, Active, Spent
<1> QED
  BY <1>1, AuthInit, AuthNext, PTL DEF Spec

\* A revoked family has no active token, unless two of its requests crossed.
THEOREM RevocationHolds == Spec => []RevokedStaysRevoked
<1>1. AuthInv => RevokedStaysRevoked
  BY DEF AuthInv, FamilyInv
<1> QED
  BY <1>1, AuthInit, AuthNext, PTL DEF Spec

\* The password of a confirmed account was offered while it was not confirmed.
THEOREM PasswordWasOffered == Spec => []PasswordFromBefore
<1>1. AuthInv => PasswordFromBefore
  BY DEF AuthInv, PasswordInv, PasswordFromBefore
<1> QED
  BY <1>1, AuthInit, AuthNext, PTL DEF Spec

-----------------------------------------------------------------------------
(* Counting guesses *)

\* The requests about to count a wrong guess of a code.
Wrong(c) == {i \in Slot : requests[i].pc = "wrong" /\ requests[i].code = c}
AttemptsInv == \A c \in Code : codes[c].attempts + Cardinality(Wrong(c)) < MaxAttempts + MaxRequests

\* There are at most MaxRequests of them.
LEMMA WrongIsFinite ==
    ASSUME NEW c \in Code
    PROVE  /\ IsFiniteSet(Wrong(c)) /\ Cardinality(Wrong(c)) \in Nat
           /\ Cardinality(Wrong(c)) <= MaxRequests
<1>1. IsFiniteSet(Slot) /\ Cardinality(Slot) = MaxRequests
  BY FS_Interval, AuthenticationAssumption DEF Slot
<1>2. Wrong(c) \subseteq Slot
  BY DEF Wrong
<1> QED
  BY <1>1, <1>2, FS_Subset, FS_CardinalityType

\* A step that neither counts a guess nor begins a wrong one keeps the bound.
LEMMA QuietStep ==
    ASSUME TypeOK, AttemptsInv,
           \A c \in Code : Wrong(c)' \subseteq Wrong(c) /\ codes'[c].attempts = codes[c].attempts
    PROVE  AttemptsInv'
<1> SUFFICES ASSUME NEW c \in Code
             PROVE  (codes[c].attempts + Cardinality(Wrong(c)) < MaxAttempts + MaxRequests)'
  BY DEF AttemptsInv
<1>1. /\ Cardinality(Wrong(c)') <= Cardinality(Wrong(c)) /\ Cardinality(Wrong(c)') \in Nat
      /\ Cardinality(Wrong(c)) \in Nat
  BY WrongIsFinite, FS_Subset, FS_CardinalityType
<1>2. codes[c].attempts \in Nat /\ codes[c].attempts + Cardinality(Wrong(c)) < MaxAttempts + MaxRequests
  BY DEF TypeOK, CodeRow, AttemptsInv
<1>3. codes'[c].attempts = codes[c].attempts
  OBVIOUS
<1> QED
  BY <1>1, <1>2, <1>3, AuthenticationAssumption

\* Every step keeps the bound.
LEMMA AttemptsNext == AuthInv /\ AttemptsInv /\ [Next]_vars => AttemptsInv'
<1> SUFFICES ASSUME AuthInv, AttemptsInv, [Next]_vars
             PROVE  AttemptsInv'
  OBVIOUS
<1>a. TypeOK /\ RequestInv
  BY DEF AuthInv
<1> USE NoRequestType DEF data, history
<1>1. ASSUME NEW i \in Slot, NEW c \in Code, Confirm(i, c, "wrong")
      PROVE  AttemptsInv'
  <2> SUFFICES ASSUME NEW d \in Code
               PROVE  (codes[d].attempts + Cardinality(Wrong(d)) < MaxAttempts + MaxRequests)'
    BY DEF AttemptsInv
  <2>1. codes' = codes /\ codes[d].attempts \in Nat
    BY <1>1, <1>a DEF Confirm, TypeOK, CodeRow
  <2>2. CASE d = c
    <3>1. codes[c].attempts < MaxAttempts
      BY <1>1 DEF Confirm
    <3>2. Cardinality(Wrong(c)') \in Nat /\ Cardinality(Wrong(c)') <= MaxRequests
      <4>1. IsFiniteSet(Slot) /\ Cardinality(Slot) = MaxRequests
        BY FS_Interval, AuthenticationAssumption DEF Slot
      <4>2. Wrong(c)' \subseteq Slot
        BY DEF Wrong
      <4> QED
        BY <4>1, <4>2, FS_Subset, FS_CardinalityType
    <3> QED
      BY <2>1, <2>2, <3>1, <3>2, AuthenticationAssumption
  <2>3. CASE d # c
    <3>1. Wrong(d)' \subseteq Wrong(d)
      BY <1>1, <2>3, <1>a DEF Confirm, Begin, Wrong, TypeOK
    <3>2. /\ Cardinality(Wrong(d)') <= Cardinality(Wrong(d)) /\ Cardinality(Wrong(d)') \in Nat
          /\ Cardinality(Wrong(d)) \in Nat
      BY <3>1, WrongIsFinite, FS_Subset, FS_CardinalityType
    <3> QED
      BY <2>1, <3>2, AuthenticationAssumption DEF AttemptsInv
  <2> QED
    BY <2>2, <2>3
<1>2. ASSUME NEW i \in Slot, CountAttempt(i)
      PROVE  AttemptsInv'
  <2> PICK c \in Code : c = requests[i].code
    BY <1>2, <1>a DEF CountAttempt, At, RequestInv
  <2>1. c \in Code /\ i \in Wrong(c)
    BY <1>2, <1>a DEF CountAttempt, At, RequestInv, Wrong
  <2>2. /\ codes'[c].attempts = codes[c].attempts + 1
        /\ \A d \in Code \ {c} : codes'[d].attempts = codes[d].attempts
        /\ \A d \in Code : codes[d].attempts \in Nat
    BY <1>2, <2>1, <1>a DEF CountAttempt, TypeOK, CodeRow
  <2>3. Wrong(c)' = Wrong(c) \ {i} /\ \A d \in Code \ {c} : Wrong(d)' = Wrong(d)
    <3>1. \A j \in Slot : requests'[j] = IF j = i THEN NoRequest ELSE requests[j]
      BY <1>2, <1>a DEF CountAttempt, Finish, TypeOK
    <3>2. requests[i].pc = "wrong" /\ requests[i].code = c
      BY <1>2 DEF CountAttempt, At
    <3> QED
      BY <3>1, <3>2 DEF Wrong
  <2>4. Cardinality(Wrong(c)') = Cardinality(Wrong(c)) - 1 /\ Cardinality(Wrong(c)) \in Nat
    BY ZenonT(60), <2>1, <2>3, WrongIsFinite, FS_RemoveElement
  <2> SUFFICES ASSUME NEW d \in Code
               PROVE  (codes[d].attempts + Cardinality(Wrong(d)) < MaxAttempts + MaxRequests)'
    BY DEF AttemptsInv
  <2>5. CASE d = c
    <3>1. codes[c].attempts + Cardinality(Wrong(c)) < MaxAttempts + MaxRequests
      BY <2>1 DEF AttemptsInv
    <3> QED
      BY <2>1, <2>2, <2>4, <2>5, <3>1, AuthenticationAssumption
  <2>6. CASE d # c
    <3>1. codes[d].attempts + Cardinality(Wrong(d)) < MaxAttempts + MaxRequests
      BY DEF AttemptsInv
    <3> QED
      BY <2>2, <2>3, <2>6, <3>1
  <2> QED
    BY <2>5, <2>6
<1>3. ASSUME NEW i \in Slot, NEW w \in Password, Register(i, w)
      PROVE  AttemptsInv'
  BY <1>3, <1>a, QuietStep DEF Register, Begin, Idle, TypeOK, RequestInv, Wrong
<1>4. ASSUME NEW i \in Slot, CreateUser(i)
      PROVE  AttemptsInv'
  <2>1. \A j \in Slot : requests'[j].pc = "wrong" =>
            requests[j].pc = "wrong" /\ requests'[j].code = requests[j].code
    BY <1>4, <1>a DEF CreateUser, At, Finish, Goto, TypeOK, Request
  <2>2. \A c \in Code : codes'[c].attempts = codes[c].attempts
    BY <1>4, <1>a DEF CreateUser, At, RequestInv, TypeOK, CodeRow
  <2> QED
    BY <2>1, <2>2, <1>a, QuietStep DEF Wrong
<1>5. ASSUME NEW i \in Slot, UpdateUser(i)
      PROVE  AttemptsInv'
  <2>1. \A j \in Slot : requests'[j].pc = "wrong" =>
            requests[j].pc = "wrong" /\ requests'[j].code = requests[j].code
    BY <1>5, <1>a DEF UpdateUser, At, Finish, Goto, Exists, TypeOK, Request
  <2>2. \A c \in Code : codes'[c].attempts = codes[c].attempts
    BY <1>5, <1>a DEF UpdateUser, At, RequestInv, TypeOK, CodeRow
  <2> QED
    BY <2>1, <2>2, <1>a, QuietStep DEF Wrong
<1>6. ASSUME NEW i \in Slot, Resend(i)
      PROVE  AttemptsInv'
  BY <1>6, <1>a, QuietStep DEF Resend, Begin, Idle, TypeOK, RequestInv, Wrong
<1>7. ASSUME NEW i \in Slot, NEW c \in Code, IssueCode(i, c)
      PROVE  AttemptsInv'
  BY <1>7, <1>a, QuietStep DEF IssueCode, At, Finish, Exists, TypeOK, CodeRow, RequestInv, Wrong
<1>8. ASSUME NEW i \in Slot, NEW c \in Code, Confirm(i, c, "right")
      PROVE  AttemptsInv'
  BY <1>8, <1>a, QuietStep DEF Confirm, Begin, Idle, TypeOK, RequestInv, Wrong
<1>9. ASSUME NEW i \in Slot, Consume(i)
      PROVE  AttemptsInv'
  <2>1. \A j \in Slot : requests'[j].pc = "wrong" =>
            requests[j].pc = "wrong" /\ requests'[j].code = requests[j].code
    BY <1>9, <1>a DEF Consume, At, Finish, Goto, Exists, TypeOK, Request
  <2>2. \A c \in Code : codes'[c].attempts = codes[c].attempts
    BY <1>9, <1>a DEF Consume, At, RequestInv, TypeOK, CodeRow
  <2> QED
    BY <2>1, <2>2, <1>a, QuietStep DEF Wrong
<1>10. ASSUME NEW i \in Slot, Login(i)
       PROVE  AttemptsInv'
  BY <1>10, <1>a, QuietStep DEF Login, Begin, Idle, TypeOK, RequestInv, Wrong
<1>11. ASSUME NEW i \in Slot, NEW t \in Token, Issue(i, t)
       PROVE  AttemptsInv'
  BY <1>11, <1>a, QuietStep DEF Issue, At, Finish, Exists, TypeOK, RequestInv, Wrong
<1>12. ASSUME NEW i \in Slot, NEW t \in Token, Refresh(i, t)
       PROVE  AttemptsInv'
  BY <1>12, <1>a, QuietStep DEF Refresh, Begin, Idle, Cross, Active, TypeOK, RequestInv, Wrong
<1>13. ASSUME NEW i \in Slot, NEW t \in Token, RevokeByReuse(i, t)
       PROVE  AttemptsInv'
  BY <1>13, <1>a, QuietStep DEF RevokeByReuse, Begin, Idle, Cross, Active, Stored, TypeOK, RequestInv, Wrong
<1>14. ASSUME NEW i \in Slot, NEW t \in Token, Logout(i, t)
       PROVE  AttemptsInv'
  BY <1>14, <1>a, QuietStep DEF Logout, Begin, Idle, Cross, Stored, TypeOK, RequestInv, Wrong
<1>15. ASSUME NEW i \in Slot, Rotate(i)
       PROVE  AttemptsInv'
  <2>1. \A j \in Slot : requests'[j].pc = "wrong" =>
            requests[j].pc = "wrong" /\ requests'[j].code = requests[j].code
    BY <1>15, <1>a DEF Rotate, At, Finish, Goto, Stored, TypeOK, Request
  <2>2. \A c \in Code : codes'[c].attempts = codes[c].attempts
    BY <1>15, <1>a DEF Rotate, At, RequestInv, TypeOK, CodeRow
  <2> QED
    BY <2>1, <2>2, <1>a, QuietStep DEF Wrong
<1>16. ASSUME NEW i \in Slot, Revoke(i)
       PROVE  AttemptsInv'
  BY <1>16, <1>a, QuietStep DEF Revoke, At, Finish, Active, TypeOK, RequestInv, Wrong
<1>17. CASE DeleteAccount
  BY <1>17, <1>a, QuietStep DEF DeleteAccount, TypeOK, CodeRow, Wrong
<1>18. CASE UNCHANGED vars
  BY <1>18, <1>a, QuietStep DEF vars, Wrong
<1> QED
  BY <1>1, <1>2, <1>3, <1>4, <1>5, <1>6, <1>7, <1>8, <1>9, <1>10, <1>11, <1>12, <1>13, <1>14, <1>15, <1>16, <1>17, <1>18 DEF Next

\* A code takes at most the permitted wrong guesses, and one more of each request that read it with the last.
THEOREM GuessesAreBounded == Spec => []AttemptsBounded
<1>1. Init => AttemptsInv
  <2> SUFFICES ASSUME Init, NEW c \in Code
               PROVE  codes[c].attempts + Cardinality(Wrong(c)) < MaxAttempts + MaxRequests
    BY DEF AttemptsInv
  <2>1. codes[c].attempts = 0 /\ Wrong(c) = {}
    BY NoRequestType DEF Init, Wrong
  <2> QED
    BY <2>1, FS_EmptySet, AuthenticationAssumption
<1>2. TypeOK /\ AttemptsInv => AttemptsBounded
  <2> SUFFICES ASSUME TypeOK, AttemptsInv, NEW c \in Code
               PROVE  codes[c].attempts < MaxAttempts + MaxRequests
    BY DEF AttemptsBounded
  <2>1. codes[c].attempts \in Nat /\ Cardinality(Wrong(c)) \in Nat
    BY WrongIsFinite DEF TypeOK, CodeRow
  <2> QED
    BY <2>1, AuthenticationAssumption DEF AttemptsInv
<1>3. AuthInv => TypeOK
  BY DEF AuthInv
<1> QED
  BY <1>1, <1>2, <1>3, AuthInit, AuthNext, AttemptsNext, PTL DEF Spec
=============================================================================
