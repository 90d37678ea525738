------------------------ MODULE SessionShardingProofs ------------------------
(***************************************************************************)
(* SessionSharding for any processes and any number of requests and        *)
(* faults: its type invariant, that a claim is backed, and that, while     *)
(* nothing crosses, only the owner of the row holds a connection and a     *)
(* session that was ended stays so.                                        *)
(***************************************************************************)
EXTENDS SessionSharding, TLAPS

-----------------------------------------------------------------------------
(* The inductive invariants *)

\* A process that has the session in sessionOwners has its connection, or a call that threw, or is on the
\* way to take it out: whoever the row names.
OwnsInv ==
    \A p \in owns : Holds(p) \/ DoesAny(p, {"logout", "end", "DESCONECTADA"}) \/ p \in failed

\* What only the owner awaits, of a session that is wanted.
Claiming == Starts \cup {"asked", "recovered", "rotate", "timer", "renew", "code", "CONECTANDO", "CONECTADA"}
Claims(p) == sock[p] # "none" \/ DoesAny(p, Claiming)

Recovering == {"recovered", "resume"}

\* While nothing crosses, the owner alone has something of the session, and nobody does while it is being
\* left; a process that recovers it does nothing else with it.
HoldInv ==
    ~blurred =>
        /\ \A p \in Process : Claims(p) => workerId = p
        /\ \A p \in Process : sock[p] # "none" \/ DoesAny(p, Claiming \ {"asked", "recovered"}) => p \in owns
        /\ \A p, q \in Process : Parting(p) => ~Claims(q)
        /\ \A p \in Process : DoesAny(p, Recovering) => sock[p] = "none" /\ ~DoesAny(p, Claiming \ Recovering)
        /\ \A p \in Process : Does(p, "recovered") => ~Does(p, "resume")

\* While nothing crosses, a session that nobody wants is claimed by no process, and its row, unless a call of
\* the end threw, is on the way to be cleared, if it is not; one that was erased has no credentials, nor any
\* in flight.
EndInv ==
    ~blurred =>
        /\ ~wish => \A p \in Process : ~Claims(p)
        /\ ~wish /\ ~refused => \/ \E p \in Process : DoesAny(p, Leaving)
                                \/ \A p \in Process : workerId = p => Parting(p)
        /\ ~wish /\ ~refused /\ status # "DESCONECTADA" =>
               \E p \in Process : DoesAny(p, Leaving \cup {"DESCONECTADA"})
        /\ erased => ~wish /\ ~paired /\ ~Saving
        /\ \A p \in Process :
            /\ DoesAny(p, Leaving \cup {"DESCONECTADA"}) => ~wish
            /\ Does(p, "logout") => ~erased
            /\ Does(p, "end") => wish /\ p \in owns /\ workerId = p
            /\ Does(p, "release") => p \notin owns
        /\ \A p, q \in Process : Does(p, "logout") /\ Does(q, "logout") => p = q

-----------------------------------------------------------------------------
(* The initial state, and the steps *)

\* A request or a fault counts down.
LEMMA EventType == ASSUME TypeOK, Event PROVE events' \in 0 .. MaxEvents
BY ShardingAssumption DEF TypeOK, Event

\* The initial state.
LEMMA ShardingInit == Init => TypeOK /\ OwnsInv /\ HoldInv /\ EndInv
<1>0. SUFFICES ASSUME Init PROVE TypeOK /\ OwnsInv /\ HoldInv /\ EndInv
  OBVIOUS
<1>1. TypeOK
  <2>1. events \in 0 .. MaxEvents
    BY <1>0, ShardingAssumption DEF Init
  <2>2. sock \in [Process -> {"none", "up", "open"}]
    BY <1>0 DEF Init
  <2> QED
    BY <1>0, <2>1, <2>2 DEF Init, TypeOK, Status
<1>2. OwnsInv
  BY <1>0 DEF Init, OwnsInv
<1>3. HoldInv
  BY <1>0 DEF Init, HoldInv, Claims, Parting, DoesAny, Does
<1>4. EndInv
  BY <1>0, ShardingAssumption DEF Init, EndInv, Claims, DoesAny, Does, Saving
<1> QED
  BY <1>1, <1>2, <1>3, <1>4

\* Every step keeps the types.
LEMMA TypeNext == TypeOK /\ [Next]_vars => TypeOK'
<1>0. SUFFICES ASSUME TypeOK, [Next]_vars
               PROVE  TypeOK'
  OBVIOUS
<1> USE ShardingAssumption DEF row, history, Status, Task, Starts, TypeOK
<1>1. ASSUME NEW p \in Process, Connect(p)
      PROVE  TypeOK'
  BY <1>0, <1>1, EventType DEF Connect, Claimable, Claim, Go
<1>2. ASSUME NEW p \in Process, ConnectDenied(p)
      PROVE  TypeOK'
  BY <1>0, <1>2, EventType DEF ConnectDenied
<1>3. ASSUME NEW p \in Process, StartAsked(p)
      PROVE  TypeOK'
  BY <1>0, <1>3 DEF StartAsked, StartClaimed, Start, Go
<1>4. ASSUME NEW p \in Process, Disconnect(p)
      PROVE  TypeOK'
  <2>1. Go(p, {"timer"}, {"leave"}) \/ Go(p, {"timer"}, {"logout"})
    BY <1>4 DEF Disconnect
  <2>2. tasks' \subseteq Process \X Task
    BY <1>0, <2>1 DEF Go
  <2>3. wish' \in BOOLEAN /\ refused' \in BOOLEAN /\ blurred' \in BOOLEAN
    BY <1>4 DEF Disconnect
  <2>4. sock' \in [Process -> {"none", "up", "open"}] /\ owns' \subseteq Process
    BY <1>0, <1>4 DEF Disconnect
  <2>5. events' \in 0 .. MaxEvents
    BY <1>0, <1>4, EventType DEF Disconnect
  <2> QED
    BY <1>0, <1>4, <2>2, <2>3, <2>4, <2>5 DEF Disconnect
<1>5. ASSUME NEW p \in Process, LoggedOut(p)
      PROVE  TypeOK'
  BY <1>0, <1>5 DEF LoggedOut, Go, Updates
<1>6. ASSUME NEW p \in Process, DisconnectReleases(p)
      PROVE  TypeOK'
  BY <1>0, <1>6 DEF DisconnectReleases, ReleaseRow, Go
<1>7. ASSUME NEW p \in Process, DisconnectUpdates(p)
      PROVE  TypeOK'
  BY <1>0, <1>7 DEF DisconnectUpdates, Go
<1>8. ASSUME NEW p \in Process, FindConnected(p)
      PROVE  TypeOK'
  BY <1>0, <1>8 DEF FindConnected, Go
<1>9. ASSUME NEW p \in Process, Recover(p)
      PROVE  TypeOK'
  <2>1. Go(p, {"found"}, {"recovered"}) \/ Go(p, {"found"}, {})
    BY <1>9 DEF Recover
  <2>2. tasks' \subseteq Process \X Task
    BY <1>0, <2>1 DEF Go
  <2>3. workerId' \in Process \cup {NoOne, Gone} /\ stale' \in BOOLEAN
    BY <1>0, <1>9 DEF Recover, Claim
  <2>4. blurred' \in BOOLEAN
    BY <1>0, <1>9 DEF Recover
  <2> QED
    BY <1>0, <1>9, <2>2, <2>3, <2>4 DEF Recover
<1>10. ASSUME NEW p \in Process, StartRecovered(p)
       PROVE  TypeOK'
  BY <1>0, <1>10 DEF StartRecovered, StartClaimed, Start, Go
<1>11. ASSUME NEW p \in Process, Release(p)
       PROVE  TypeOK'
  BY <1>0, <1>11 DEF Release, ReleaseRow, Go
<1>12. ASSUME NEW p \in Process, Ended(p)
       PROVE  TypeOK'
  BY <1>0, <1>12 DEF Ended, Go, Updates
<1>13. ASSUME NEW p \in Process, NEW s \in Status, Write(p, s)
       PROVE  TypeOK'
  <2>1. Go(p, {s}, {"release"}) \/ Go(p, {s}, {})
    BY <1>13 DEF Write, GoOn
  <2>2. tasks' \subseteq Process \X Task /\ owns' \subseteq Process
    BY <1>0, <1>13, <2>1 DEF Write, GoOn, Go
  <2> QED
    BY <1>0, <1>13, <2>2 DEF Write
<1>14. ASSUME NEW p \in Process, RenewHeartbeat(p)
       PROVE  TypeOK'
  BY <1>0, <1>14 DEF RenewHeartbeat
<1>15. ASSUME NEW p \in Process, NEW t \in Task, DisconnectThrows(p, t)
       PROVE  TypeOK'
  BY <1>0, <1>15, EventType DEF DisconnectThrows, Go, Leaving
<1>16. ASSUME NEW p \in Process, NEW s \in Status, WriteThrows(p, s)
       PROVE  TypeOK'
  BY <1>0, <1>16, EventType DEF WriteThrows, GoOn, Go, Updates
<1>17. ASSUME NEW p \in Process, NEW how \in Starts, StartThrows(p, how)
       PROVE  TypeOK'
  BY <1>0, <1>17, EventType DEF StartThrows, Go, Updates
<1>18. ASSUME NEW p \in Process, ReleaseThrows(p)
       PROVE  TypeOK'
  BY <1>0, <1>18, EventType DEF ReleaseThrows, Go
<1>19. ASSUME NEW p \in Process, RenewalThrows(p)
       PROVE  TypeOK'
  BY <1>0, <1>19, EventType DEF RenewalThrows, Go
<1>20. ASSUME NEW p \in Process, EndThrows(p)
       PROVE  TypeOK'
  BY <1>0, <1>20, EventType DEF EndThrows, Go
<1>21. ASSUME NEW p \in Process, NEW how \in Starts, OpenSocket(p, how)
       PROVE  TypeOK'
  BY <1>0, <1>21 DEF OpenSocket, Go
<1>22. ASSUME NEW p \in Process, NEW how \in Starts, ProxyFails(p, how)
       PROVE  TypeOK'
  BY <1>0, <1>22, EventType DEF ProxyFails, Go, Updates
<1>23. ASSUME NEW p \in Process, Drop(p)
       PROVE  TypeOK'
  BY <1>0, <1>23, EventType DEF Drop, Go, Updates
<1>24. ASSUME NEW p \in Process, ScheduleReconnect(p)
       PROVE  TypeOK'
  BY <1>0, <1>24 DEF ScheduleReconnect, Go
<1>25. ASSUME NEW p \in Process, Reconnect(p)
       PROVE  TypeOK'
  BY <1>0, <1>25 DEF Reconnect, Start, Go
<1>26. ASSUME NEW p \in Process, BeginRenewal(p)
       PROVE  TypeOK'
  BY <1>0, <1>26, EventType DEF BeginRenewal, Go
<1>27. ASSUME NEW p \in Process, Renew(p)
       PROVE  TypeOK'
  BY <1>0, <1>27 DEF Renew, Go, Updates
<1>28. ASSUME NEW p \in Process, AskCode(p)
       PROVE  TypeOK'
  BY <1>0, <1>28, EventType DEF AskCode, Go
<1>29. ASSUME NEW p \in Process, CodeComes(p)
       PROVE  TypeOK'
  BY <1>0, <1>29 DEF CodeComes, Go, Updates
<1>30. ASSUME NEW p \in Process, CodeGivesUp(p)
       PROVE  TypeOK'
  BY <1>0, <1>30 DEF CodeGivesUp, Go, Updates
<1>31. ASSUME NEW p \in Process, Opens(p)
       PROVE  TypeOK'
  BY <1>0, <1>31 DEF Opens, Go, Updates
<1>32. ASSUME NEW p \in Process, BeginSave(p)
       PROVE  TypeOK'
  BY <1>0, <1>32, EventType DEF BeginSave, Go
<1>33. ASSUME NEW p \in Process, SaveCreds(p)
       PROVE  TypeOK'
  BY <1>0, <1>33 DEF SaveCreds, Go
<1>34. ASSUME NEW p \in Process, CloseForGood(p)
       PROVE  TypeOK'
  BY <1>0, <1>34, EventType DEF CloseForGood, Go
<1>35. ASSUME NEW p \in Process, Crash(p)
       PROVE  TypeOK'
  BY <1>0, <1>35, EventType DEF Crash
<1>36. CASE Expire
  BY <1>0, <1>36 DEF Expire
<1>37. CASE Lapse
  BY <1>0, <1>37, EventType DEF Lapse
<1>38. CASE UNCHANGED vars
  BY <1>0, <1>38 DEF vars
<1> HIDE DEF row, history, Status, Task, Starts, TypeOK
<1> QED
  BY <1>0, <1>1, <1>2, <1>3, <1>4, <1>5, <1>6, <1>7, <1>8, <1>9, <1>10, <1>11, <1>12, <1>13, <1>14,
     <1>15, <1>16, <1>17, <1>18, <1>19, <1>20, <1>21, <1>22, <1>23, <1>24, <1>25, <1>26, <1>27, <1>28,
     <1>29, <1>30, <1>31, <1>32, <1>33, <1>34, <1>35, <1>36, <1>37, <1>38 DEF Next, Continue, Throws,
     Provider

\* A process with the session in sessionOwners keeps its connection, is leaving or had a call that threw,
\* whatever crosses.
LEMMA OwnsNext == TypeOK /\ OwnsInv /\ [Next]_vars => OwnsInv'
<1>0. SUFFICES ASSUME TypeOK, OwnsInv, [Next]_vars
               PROVE  OwnsInv'
  OBVIOUS
<1> USE DEF row, history, OwnsInv, Holds, DoesAny, Does, Starts
<1>1. ASSUME NEW p \in Process, Connect(p)
      PROVE  OwnsInv'
  BY <1>0, <1>1 DEF Connect, Event, Claimable, Claim, Go, TypeOK
<1>2. ASSUME NEW p \in Process, ConnectDenied(p)
      PROVE  OwnsInv'
  BY <1>0, <1>2 DEF ConnectDenied, Event, TypeOK
<1>3. ASSUME NEW p \in Process, StartAsked(p)
      PROVE  OwnsInv'
  BY ZenonT(60), <1>0, <1>3 DEF StartAsked, StartClaimed, Start, Go, TypeOK
<1>4. ASSUME NEW p \in Process, Disconnect(p)
      PROVE  OwnsInv'
  BY <1>0, <1>4 DEF Disconnect, Event, Go, Updates, TypeOK
<1>5. ASSUME NEW p \in Process, LoggedOut(p)
      PROVE  OwnsInv'
  BY <1>0, <1>5 DEF LoggedOut, Go, Updates, TypeOK
<1>6. ASSUME NEW p \in Process, DisconnectReleases(p)
      PROVE  OwnsInv'
  BY <1>0, <1>6 DEF DisconnectReleases, ReleaseRow, Go, TypeOK
<1>7. ASSUME NEW p \in Process, DisconnectUpdates(p)
      PROVE  OwnsInv'
  BY <1>0, <1>7 DEF DisconnectUpdates, Go, TypeOK
<1>8. ASSUME NEW p \in Process, FindConnected(p)
      PROVE  OwnsInv'
  BY <1>0, <1>8 DEF FindConnected, Go, TypeOK
<1>9. ASSUME NEW p \in Process, Recover(p)
      PROVE  OwnsInv'
  BY ZenonT(60), <1>0, <1>9 DEF Recover, Claimable, Claim, Go, TypeOK
<1>10. ASSUME NEW p \in Process, StartRecovered(p)
       PROVE  OwnsInv'
  BY ZenonT(60), <1>0, <1>10 DEF StartRecovered, StartClaimed, Start, Go, TypeOK
<1>11. ASSUME NEW p \in Process, Release(p)
       PROVE  OwnsInv'
  BY <1>0, <1>11 DEF Release, ReleaseRow, Go, TypeOK
<1>12. ASSUME NEW p \in Process, Ended(p)
       PROVE  OwnsInv'
  BY ZenonT(60), <1>0, <1>12 DEF Ended, Go, Updates, TypeOK
<1>13. ASSUME NEW p \in Process, NEW s \in Status, Write(p, s)
       PROVE  OwnsInv'
  <2>1. CASE s = "DESCONECTADA"
    BY <1>0, <1>13, <2>1 DEF Write, GoOn, Go, TypeOK
  <2>2. CASE s # "DESCONECTADA"
    <3>1. Go(p, {s}, {}) /\ owns' = owns /\ s \notin Starts \cup {"rotate", "timer", "logout", "end"}
      BY <1>13, <2>2 DEF Write, GoOn, Status
    <3> QED
      BY <1>0, <1>13, <2>2, <3>1 DEF Write, Go
  <2> QED
    BY <2>1, <2>2
<1>14. ASSUME NEW p \in Process, RenewHeartbeat(p)
       PROVE  OwnsInv'
  BY <1>0, <1>14 DEF RenewHeartbeat, TypeOK
<1>15. ASSUME NEW p \in Process, NEW t \in Task, DisconnectThrows(p, t)
       PROVE  OwnsInv'
  BY <1>0, <1>15 DEF DisconnectThrows, Event, Go, Leaving, TypeOK
<1>16. ASSUME NEW p \in Process, NEW s \in Status, WriteThrows(p, s)
       PROVE  OwnsInv'
  <2>1. CASE s = "DESCONECTADA"
    BY <1>0, <1>16, <2>1 DEF WriteThrows, GoOn, Go, TypeOK
  <2>2. CASE s # "DESCONECTADA"
    <3>1. Go(p, {s}, {}) /\ owns' = owns /\ s \notin Starts \cup {"rotate", "timer", "logout", "end"}
      BY <1>16, <2>2 DEF WriteThrows, GoOn, Status
    <3> QED
      BY <1>0, <1>16, <2>2, <3>1 DEF WriteThrows, Go
  <2> QED
    BY <2>1, <2>2
<1>17. ASSUME NEW p \in Process, NEW how \in Starts, StartThrows(p, how)
       PROVE  OwnsInv'
  BY <1>0, <1>17 DEF StartThrows, Event, Go, Updates, TypeOK
<1>18. ASSUME NEW p \in Process, ReleaseThrows(p)
       PROVE  OwnsInv'
  BY <1>0, <1>18 DEF ReleaseThrows, Event, Go, TypeOK
<1>19. ASSUME NEW p \in Process, RenewalThrows(p)
       PROVE  OwnsInv'
  BY <1>0, <1>19 DEF RenewalThrows, Event, Go, TypeOK
<1>20. ASSUME NEW p \in Process, EndThrows(p)
       PROVE  OwnsInv'
  BY <1>0, <1>20 DEF EndThrows, Event, Go, TypeOK
<1>21. ASSUME NEW p \in Process, NEW how \in Starts, OpenSocket(p, how)
       PROVE  OwnsInv'
  BY <1>0, <1>21 DEF OpenSocket, Go, TypeOK
<1>22. ASSUME NEW p \in Process, NEW how \in Starts, ProxyFails(p, how)
       PROVE  OwnsInv'
  BY <1>0, <1>22 DEF ProxyFails, Event, Go, Updates, TypeOK
<1>23. ASSUME NEW p \in Process, Drop(p)
       PROVE  OwnsInv'
  BY <1>0, <1>23 DEF Drop, Event, Go, Updates, TypeOK
<1>24. ASSUME NEW p \in Process, ScheduleReconnect(p)
       PROVE  OwnsInv'
  BY <1>0, <1>24 DEF ScheduleReconnect, Go, TypeOK
<1>25. ASSUME NEW p \in Process, Reconnect(p)
       PROVE  OwnsInv'
  BY ZenonT(60), <1>0, <1>25 DEF Reconnect, Start, Go, TypeOK
<1>26. ASSUME NEW p \in Process, BeginRenewal(p)
       PROVE  OwnsInv'
  BY <1>0, <1>26 DEF BeginRenewal, Event, Go, TypeOK
<1>27. ASSUME NEW p \in Process, Renew(p)
       PROVE  OwnsInv'
  BY <1>0, <1>27 DEF Renew, Go, Updates, TypeOK
<1>28. ASSUME NEW p \in Process, AskCode(p)
       PROVE  OwnsInv'
  BY <1>0, <1>28 DEF AskCode, Event, Go, TypeOK
<1>29. ASSUME NEW p \in Process, CodeComes(p)
       PROVE  OwnsInv'
  BY <1>0, <1>29 DEF CodeComes, Go, Updates, TypeOK
<1>30. ASSUME NEW p \in Process, CodeGivesUp(p)
       PROVE  OwnsInv'
  BY <1>0, <1>30 DEF CodeGivesUp, Go, Updates, TypeOK
<1>31. ASSUME NEW p \in Process, Opens(p)
       PROVE  OwnsInv'
  BY <1>0, <1>31 DEF Opens, Go, Updates, TypeOK
<1>32. ASSUME NEW p \in Process, BeginSave(p)
       PROVE  OwnsInv'
  BY <1>0, <1>32 DEF BeginSave, Event, Go, TypeOK
<1>33. ASSUME NEW p \in Process, SaveCreds(p)
       PROVE  OwnsInv'
  BY <1>0, <1>33 DEF SaveCreds, Go, TypeOK
<1>34. ASSUME NEW p \in Process, CloseForGood(p)
       PROVE  OwnsInv'
  BY <1>0, <1>34 DEF CloseForGood, Event, Go, TypeOK
<1>35. ASSUME NEW p \in Process, Crash(p)
       PROVE  OwnsInv'
  BY <1>0, <1>35 DEF Crash, Event, TypeOK
<1>36. CASE Expire
  BY <1>0, <1>36 DEF Expire, TypeOK
<1>37. CASE Lapse
  BY <1>0, <1>37 DEF Lapse, Event, TypeOK
<1>38. CASE UNCHANGED vars
  BY <1>0, <1>38 DEF vars, TypeOK
<1> HIDE DEF row, history, OwnsInv, Holds, DoesAny, Does, Starts
<1> QED
  BY <1>0, <1>1, <1>2, <1>3, <1>4, <1>5, <1>6, <1>7, <1>8, <1>9, <1>10, <1>11, <1>12, <1>13, <1>14,
     <1>15, <1>16, <1>17, <1>18, <1>19, <1>20, <1>21, <1>22, <1>23, <1>24, <1>25, <1>26, <1>27, <1>28,
     <1>29, <1>30, <1>31, <1>32, <1>33, <1>34, <1>35, <1>36, <1>37, <1>38 DEF Next, Continue, Throws,
     Provider

\* A step that lets two processes have something of the session, or one have it while another leaves it, is
\* seen to cross.
LEMMA HoldNext == TypeOK /\ HoldInv /\ [Next]_vars => HoldInv'
<1>0. SUFFICES ASSUME TypeOK, HoldInv, [Next]_vars
               PROVE  HoldInv'
  OBVIOUS
<1> USE DEF row, history, HoldInv, Claims, Claiming, Recovering, Parting, Leaving, DoesAny, Does, Starts
<1>1. ASSUME NEW p \in Process, Connect(p)
      PROVE  HoldInv'
  <2> SUFFICES ASSUME ~blurred' PROVE HoldInv'
    OBVIOUS
  <2>1. ~blurred /\ ~Crossed(p) /\ ~DoesAny(p, Recovering)
    BY <1>1 DEF Connect
  <2>2. \A q, t : <<q, t>> \in tasks' <=> <<q, t>> \in tasks \/ (q = p /\ t = "asked")
    BY <1>1 DEF Connect, Go
  <2>3. \A q \in Process \ {p} : ~Claims(q)
    BY <1>0, <1>1, <2>1, ShardingAssumption DEF Connect, Claimable, Crossed, Others, Busy, Holds, Task,
       Status, TypeOK
  <2>4. workerId' = p /\ owns' = owns /\ sock' = sock
    BY <1>0, <1>1 DEF Connect, Claim
  <2>5. \A q \in Process : ~Parting(q) /\ (Parting(q)' => Parting(q))
    BY <1>0, <2>1, <2>2 DEF Crossed
  <2> QED
    BY <1>0, <2>1, <2>2, <2>3, <2>4, <2>5
<1>2. ASSUME NEW p \in Process, ConnectDenied(p)
      PROVE  HoldInv'
  BY <1>0, <1>2 DEF ConnectDenied, Event, TypeOK
<1>3. ASSUME NEW p \in Process, StartAsked(p)
      PROVE  HoldInv'
  <2>1. CASE /\ sock[p] # "none"
             /\ Go(p, {"asked", "timer"}, {})
             /\ sock' = sock
    BY <1>0, <1>3, <2>1 DEF StartAsked, StartClaimed, Go, TypeOK
  <2>2. CASE /\ ~Does(p, "start")
             /\ Go(p, {"asked", "timer"}, {"start"})
             /\ sock' = [sock EXCEPT ![p] = "none"]
    BY <1>0, <1>3, <2>2 DEF StartAsked, StartClaimed, Go, TypeOK
  <2> QED
    BY <1>3, <2>1, <2>2 DEF StartAsked, StartClaimed, Start
<1>4. ASSUME NEW p \in Process, Disconnect(p)
      PROVE  HoldInv'
  <2> SUFFICES ASSUME ~blurred' PROVE HoldInv'
    OBVIOUS
  <2>1. ~blurred /\ ~Others(p) /\ ~Busy(p)
    BY <1>4 DEF Disconnect
  <2>2. Go(p, {"timer"}, {"leave"}) \/ Go(p, {"timer"}, {"logout"})
    BY <1>4 DEF Disconnect
  <2>3. \A q, t :
            <<q, t>> \in tasks' =>
                \/ <<q, t>> \in tasks /\ (q # p \/ t \notin {"timer"})
                \/ q = p /\ t \in {"leave", "logout"}
    BY <2>2 DEF Go
  <2>4. sock' = [sock EXCEPT ![p] = "none"]
    BY <1>4 DEF Disconnect
  <2>5. \A q \in Process : ~Claims(q)'
    BY <1>0, <2>1, <2>3, <2>4 DEF Others, Busy, Holds, Task, Status, TypeOK
  <2> QED
    BY <1>0, <2>5
<1>5. ASSUME NEW p \in Process, LoggedOut(p)
      PROVE  HoldInv'
  BY <1>0, <1>5 DEF LoggedOut, Go, Updates, TypeOK
<1>6. ASSUME NEW p \in Process, DisconnectReleases(p)
      PROVE  HoldInv'
  BY <1>0, <1>6 DEF DisconnectReleases, ReleaseRow, Go, TypeOK
<1>7. ASSUME NEW p \in Process, DisconnectUpdates(p)
      PROVE  HoldInv'
  BY <1>0, <1>7 DEF DisconnectUpdates, Go, TypeOK
<1>8. ASSUME NEW p \in Process, FindConnected(p)
      PROVE  HoldInv'
  BY <1>0, <1>8 DEF FindConnected, Go, TypeOK
<1>9. ASSUME NEW p \in Process, Recover(p)
      PROVE  HoldInv'
  <2> SUFFICES ASSUME ~blurred' PROVE HoldInv'
    OBVIOUS
  <2>1. CASE Claimable(p)
    <3>1. ~blurred /\ ~Crossed(p) /\ p \notin owns /\ ~Does(p, "asked")
      BY <1>9, <2>1 DEF Recover
    <3>a. Go(p, {"found"}, {"recovered"})
      BY <1>9, <2>1 DEF Recover
    <3>2. \A q, t :
              <<q, t>> \in tasks' <=>
                  \/ <<q, t>> \in tasks /\ (q # p \/ t \notin {"found"})
                  \/ q = p /\ t \in {"recovered"}
      BY <3>a DEF Go
    <3>3. \A q \in Process \ {p} : ~Claims(q)
      BY <1>0, <2>1, <3>1, ShardingAssumption DEF Claimable, Crossed, Others, Busy, Holds, Task,
         Status, TypeOK
    <3>4. sock[p] = "none" /\ ~DoesAny(p, Claiming \ {"recovered"})
      BY <1>0, <3>1
    <3>5. workerId' = p /\ sock' = sock
      BY <1>0, <1>9, <2>1 DEF Recover, Claim
    <3>6. \A q \in Process : ~Parting(q)'
      BY <1>0, <3>1, <3>2 DEF Crossed
    <3>7. \A q \in Process \ {p} : ~Claims(q)'
      BY <1>0, <3>2, <3>3, <3>5
    <3>8. sock'[p] = "none" /\ ~DoesAny(p, Claiming \ {"recovered"})'
      BY <1>0, <3>2, <3>4, <3>5
    <3> QED
      BY <1>0, <3>5, <3>6, <3>7, <3>8
  <2>2. CASE ~Claimable(p)
    <3>a. Go(p, {"found"}, {})
      BY <1>9, <2>2 DEF Recover
    <3>1. \A q, t : <<q, t>> \in tasks' <=> <<q, t>> \in tasks /\ (q # p \/ t # "found")
      BY <3>a DEF Go
    <3> QED
      BY ZenonT(60), <1>0, <1>9, <2>2, <3>1 DEF Recover
  <2> QED
    BY <2>1, <2>2
<1>10. ASSUME NEW p \in Process, StartRecovered(p)
       PROVE  HoldInv'
  <2>1. CASE /\ sock[p] # "none"
             /\ Go(p, {"recovered", "timer"}, {})
             /\ sock' = sock
    BY <1>0, <1>10, <2>1 DEF StartRecovered, StartClaimed, Go, TypeOK
  <2>2. CASE /\ ~Does(p, "resume")
             /\ Go(p, {"recovered", "timer"}, {"resume"})
             /\ sock' = [sock EXCEPT ![p] = "none"]
    BY <1>0, <1>10, <2>2, ZenonT(60) DEF StartRecovered, StartClaimed, Go, TypeOK
  <2> QED
    BY <1>10, <2>1, <2>2 DEF StartRecovered, StartClaimed, Start
<1>11. ASSUME NEW p \in Process, Release(p)
       PROVE  HoldInv'
  BY <1>0, <1>11 DEF Release, ReleaseRow, Go, TypeOK
<1>12. ASSUME NEW p \in Process, Ended(p)
       PROVE  HoldInv'
  BY <1>0, <1>12 DEF Ended, Go, Updates, TypeOK
<1>13. ASSUME NEW p \in Process, NEW s \in Status, Write(p, s)
       PROVE  HoldInv'
  <2>1. CASE s = "DESCONECTADA"
    <3>1. Go(p, {s}, {"release"}) 
      BY <1>13, <2>1 DEF Write, GoOn
    <3>2. \A q, t :
              <<q, t>> \in tasks' <=>
                  \/ <<q, t>> \in tasks /\ (q # p \/ t \notin {s})
                  \/ q = p /\ t \in {"release"}
      BY <3>1 DEF Go
    <3>3. ~blurred' => \A q \in Process : ~Claims(q)'
      BY <1>0, <1>13, <2>1, <3>2 DEF Write
    <3> QED
      BY <1>0, <3>3
  <2>2. CASE s # "DESCONECTADA"
    <3>1. Go(p, {s}, {})
      BY <1>13, <2>2 DEF Write, GoOn
    <3>2. \A q, t : <<q, t>> \in tasks' <=> <<q, t>> \in tasks /\ (q # p \/ t # s)
      BY <3>1 DEF Go
    <3> QED
      BY <1>0, <1>13, <2>2, <3>2, ZenonT(60) DEF Write, GoOn, Status
  <2> QED
    BY <2>1, <2>2
<1>14. ASSUME NEW p \in Process, RenewHeartbeat(p)
       PROVE  HoldInv'
  BY <1>0, <1>14 DEF RenewHeartbeat, TypeOK
<1>15. ASSUME NEW p \in Process, NEW t \in Task, DisconnectThrows(p, t)
       PROVE  HoldInv'
  BY <1>0, <1>15 DEF DisconnectThrows, Event, Go, TypeOK
<1>16. ASSUME NEW p \in Process, NEW s \in Status, WriteThrows(p, s)
       PROVE  HoldInv'
  <2>1. CASE s = "DESCONECTADA"
    <3>1. Go(p, {s}, {"release"}) 
      BY <1>16, <2>1 DEF WriteThrows, GoOn
    <3>2. \A q, t :
              <<q, t>> \in tasks' <=>
                  \/ <<q, t>> \in tasks /\ (q # p \/ t \notin {s})
                  \/ q = p /\ t \in {"release"}
      BY <3>1 DEF Go
    <3>3. ~blurred' => \A q \in Process : ~Claims(q)'
      BY <1>0, <1>16, <2>1, <3>2 DEF WriteThrows
    <3> QED
      BY <1>0, <3>3
  <2>2. CASE s # "DESCONECTADA"
    <3>1. Go(p, {s}, {})
      BY <1>16, <2>2 DEF WriteThrows, GoOn
    <3>2. \A q, t : <<q, t>> \in tasks' <=> <<q, t>> \in tasks /\ (q # p \/ t # s)
      BY <3>1 DEF Go
    <3> QED
      BY ZenonT(60), <1>0, <1>16, <2>2, <3>2 DEF WriteThrows, GoOn, Status
  <2> QED
    BY <2>1, <2>2
<1>17. ASSUME NEW p \in Process, NEW how \in Starts, StartThrows(p, how)
       PROVE  HoldInv'
  <2> SUFFICES ASSUME ~blurred' PROVE HoldInv'
    OBVIOUS
  <2>0. ~blurred BY <1>17 DEF StartThrows
  <2>1. CASE how = "resume"
    <3>1. workerId = p /\ p \in owns /\ sock[p] = "none" BY <1>0, <1>17, <2>1, <2>0 DEF StartThrows
    <3>5. Go(p, {how}, {"release"}) BY <1>17, <2>1 DEF StartThrows
    <3>6. \A q, t :
              <<q, t>> \in tasks' <=>
                  \/ <<q, t>> \in tasks /\ (q # p \/ t # how)
                  \/ q = p /\ t = "release"
      BY <3>5 DEF Go
    <3>2. \A q \in Process : ~Claims(q)' BY <1>0, <1>17, <2>1, <2>0, <3>1, <3>6 DEF StartThrows, TypeOK
    <3> QED BY <1>0, <1>17, <2>1, <3>2 DEF StartThrows
  <2>2. CASE how # "resume"
    <3>5. Go(p, {how}, {}) BY <1>17, <2>2 DEF StartThrows
    <3>6. \A q, t : <<q, t>> \in tasks' => <<q, t>> \in tasks
       BY <3>5 DEF Go
    <3> QED BY ZenonT(60), <1>0, <1>17, <2>2, <2>0, <3>6 DEF StartThrows
  <2> QED BY <2>1, <2>2
<1>18. ASSUME NEW p \in Process, ReleaseThrows(p)
       PROVE  HoldInv'
  BY <1>0, <1>18 DEF ReleaseThrows, Event, Go, TypeOK
<1>19. ASSUME NEW p \in Process, RenewalThrows(p)
       PROVE  HoldInv'
  BY <1>0, <1>19 DEF RenewalThrows, Event, Go, TypeOK
<1>20. ASSUME NEW p \in Process, EndThrows(p)
       PROVE  HoldInv'
  BY <1>0, <1>20 DEF EndThrows, Event, Go, TypeOK
<1>21. ASSUME NEW p \in Process, NEW how \in Starts, OpenSocket(p, how)
       PROVE  HoldInv'
  BY <1>0, <1>21 DEF OpenSocket, Go, TypeOK
<1>22. ASSUME NEW p \in Process, NEW how \in Starts, ProxyFails(p, how)
       PROVE  HoldInv'
  BY <1>0, <1>22 DEF ProxyFails, Event, Go, Updates, TypeOK
<1>23. ASSUME NEW p \in Process, Drop(p)
       PROVE  HoldInv'
  BY <1>0, <1>23 DEF Drop, Event, Go, Updates, TypeOK
<1>24. ASSUME NEW p \in Process, ScheduleReconnect(p)
       PROVE  HoldInv'
  BY <1>0, <1>24 DEF ScheduleReconnect, Go, TypeOK
<1>25. ASSUME NEW p \in Process, Reconnect(p)
       PROVE  HoldInv'
  <2>1. CASE /\ sock[p] # "none"
             /\ Go(p, {"timer", "timer"}, {})
             /\ sock' = sock
    BY <1>0, <1>25, <2>1 DEF Reconnect, Go, TypeOK
  <2>2. CASE /\ ~Does(p, "restart")
             /\ Go(p, {"timer", "timer"}, {"restart"})
             /\ sock' = [sock EXCEPT ![p] = "none"]
    BY <1>0, <1>25, <2>2 DEF Reconnect, Go, TypeOK
  <2> QED
    BY <1>25, <2>1, <2>2 DEF Reconnect, Start
<1>26. ASSUME NEW p \in Process, BeginRenewal(p)
       PROVE  HoldInv'
  BY <1>0, <1>26 DEF BeginRenewal, Event, Go, TypeOK
<1>27. ASSUME NEW p \in Process, Renew(p)
       PROVE  HoldInv'
  BY <1>0, <1>27 DEF Renew, Go, Updates, TypeOK
<1>28. ASSUME NEW p \in Process, AskCode(p)
       PROVE  HoldInv'
  BY <1>0, <1>28 DEF AskCode, Event, Go, TypeOK
<1>29. ASSUME NEW p \in Process, CodeComes(p)
       PROVE  HoldInv'
  BY <1>0, <1>29 DEF CodeComes, Go, Updates, TypeOK
<1>30. ASSUME NEW p \in Process, CodeGivesUp(p)
       PROVE  HoldInv'
  BY <1>0, <1>30 DEF CodeGivesUp, Go, Updates, TypeOK
<1>31. ASSUME NEW p \in Process, Opens(p)
       PROVE  HoldInv'
  BY <1>0, <1>31 DEF Opens, Go, Updates, TypeOK
<1>32. ASSUME NEW p \in Process, BeginSave(p)
       PROVE  HoldInv'
  BY <1>0, <1>32 DEF BeginSave, Event, Go, TypeOK
<1>33. ASSUME NEW p \in Process, SaveCreds(p)
       PROVE  HoldInv'
  BY <1>0, <1>33 DEF SaveCreds, Go, TypeOK
<1>34. ASSUME NEW p \in Process, CloseForGood(p)
       PROVE  HoldInv'
  BY ZenonT(60), <1>0, <1>34 DEF CloseForGood, Event, Go, Busy, TypeOK
<1>35. ASSUME NEW p \in Process, Crash(p)
       PROVE  HoldInv'
  BY <1>0, <1>35 DEF Crash, Event, Busy, TypeOK
<1>36. CASE Expire
  BY <1>0, <1>36 DEF Expire, TypeOK
<1>37. CASE Lapse
  BY <1>0, <1>37 DEF Lapse, Event, TypeOK
<1>38. CASE UNCHANGED vars
  BY <1>0, <1>38 DEF vars, TypeOK
<1> HIDE DEF row, history, HoldInv, Claims, Claiming, Recovering, Parting, Leaving, DoesAny, Does, Starts
<1> QED
  BY <1>0, <1>1, <1>2, <1>3, <1>4, <1>5, <1>6, <1>7, <1>8, <1>9, <1>10, <1>11, <1>12, <1>13, <1>14,
     <1>15, <1>16, <1>17, <1>18, <1>19, <1>20, <1>21, <1>22, <1>23, <1>24, <1>25, <1>26, <1>27, <1>28,
     <1>29, <1>30, <1>31, <1>32, <1>33, <1>34, <1>35, <1>36, <1>37, <1>38 DEF Next, Continue, Throws,
     Provider

\* The end of a session is kept by every step: whoever could write its row or its credentials again crosses
\* its end, and is seen to.
LEMMA EndNext == TypeOK /\ HoldInv /\ EndInv /\ [Next]_vars => EndInv'
<1>0. SUFFICES ASSUME TypeOK, HoldInv, EndInv, [Next]_vars
               PROVE  EndInv'
  OBVIOUS
<1> USE ShardingAssumption
    DEF row, history, HoldInv, EndInv, Claims, Claiming, Recovering, Parting, Leaving, DoesAny, Does,
        Starts
<1>1. ASSUME NEW p \in Process, Connect(p)
      PROVE  EndInv'
  BY <1>0, <1>1 DEF Connect, Event, Claimable, Claim, Go, Crossed, Others, Busy, Holds, Saving, TypeOK
<1>2. ASSUME NEW p \in Process, ConnectDenied(p)
      PROVE  EndInv'
  BY <1>0, <1>2 DEF ConnectDenied, Event, Saving, TypeOK
<1>3. ASSUME NEW p \in Process, StartAsked(p)
      PROVE  EndInv'
  <2>1. CASE /\ sock[p] # "none"
             /\ Go(p, {"asked", "timer"}, {})
             /\ sock' = sock
    BY <1>0, <1>3, <2>1 DEF StartAsked, StartClaimed, Go, Saving, TypeOK
  <2>2. CASE /\ ~Does(p, "start")
             /\ Go(p, {"asked", "timer"}, {"start"})
             /\ sock' = [sock EXCEPT ![p] = "none"]
    BY <1>0, <1>3, <2>2 DEF StartAsked, StartClaimed, Go, Saving, TypeOK
  <2> QED
    BY <1>3, <2>1, <2>2 DEF StartAsked, StartClaimed, Start
<1>4. ASSUME NEW p \in Process, Disconnect(p)
      PROVE  EndInv'
  <2> SUFFICES ASSUME ~blurred' PROVE EndInv'
    OBVIOUS
  <2>1. ~blurred /\ ~Others(p) /\ ~Busy(p)
    BY <1>4 DEF Disconnect
  <2>2. sock' = [sock EXCEPT ![p] = "none"] /\ ~wish' /\ erased' = erased /\ paired' = paired
    BY <1>4 DEF Disconnect
  <2>a. sock'[p] = "none" /\ \A q \in Process : q # p => sock'[q] = sock[q]
    BY <1>0, <2>2 DEF TypeOK
  <2>3. \A q \in Process : ~DoesAny(q, {"logout", "end", "release"}) /\ ~(q # p /\ Claims(q))
    BY <1>0, <2>1 DEF Others, Busy, Holds, Task, Status
  <2>4. ~DoesAny(p, Claiming \ {"timer"})
    BY <1>0, <2>1 DEF Busy, Task, Status
  <2>5. erased => sock[p] = "none" /\ ~paired /\ ~Saving
    BY <1>0, <2>1
  <2>6. CASE sock[p] = "none"
    <3>1. Go(p, {"timer"}, {"leave"})
      BY <1>4, <2>6 DEF Disconnect
    <3>2. \A q, t :
              <<q, t>> \in tasks' <=>
                  \/ <<q, t>> \in tasks /\ (q # p \/ t \notin {"timer"})
                  \/ q = p /\ t \in {"leave"}
      BY <3>1 DEF Go
    <3>3. \A q \in Process : ~Claims(q)'
      BY <2>3, <2>4, <2>a, <3>2
    <3> QED
      BY ZenonT(60), <1>0, <2>2, <2>3, <2>5, <3>2, <3>3 DEF Saving
  <2>7. CASE sock[p] # "none"
    <3>1. Go(p, {"timer"}, {"logout"})
      BY <1>4, <2>7 DEF Disconnect
    <3>2. \A q, t :
              <<q, t>> \in tasks' <=>
                  \/ <<q, t>> \in tasks /\ (q # p \/ t \notin {"timer"})
                  \/ q = p /\ t \in {"logout"}
      BY <3>1 DEF Go
    <3>3. \A q \in Process : ~Claims(q)'
      BY <2>3, <2>4, <2>a, <3>2
    <3>4. ~erased'
      BY <2>2, <2>5, <2>7
    <3>5. \A q \in Process : Does(q, "logout")' => q = p
      BY <2>3, <3>2
    <3>6. \A q \in Process : ~DoesAny(q, {"end", "release"})'
      BY <2>3, <3>2
    <3>7. DoesAny(p, Leaving)'
      BY <3>2
    <3> QED
      BY <2>2, <3>3, <3>4, <3>5, <3>6, <3>7
  <2> QED
    BY <2>6, <2>7
<1>5. ASSUME NEW p \in Process, LoggedOut(p)
      PROVE  EndInv'
  BY <1>0, <1>5 DEF LoggedOut, Go, Updates, Saving, TypeOK
<1>6. ASSUME NEW p \in Process, DisconnectReleases(p)
      PROVE  EndInv'
  BY <1>0, <1>6 DEF DisconnectReleases, ReleaseRow, Go, Saving, TypeOK
<1>7. ASSUME NEW p \in Process, DisconnectUpdates(p)
      PROVE  EndInv'
  BY ZenonT(60), <1>0, <1>7 DEF DisconnectUpdates, Go, Saving, TypeOK
<1>8. ASSUME NEW p \in Process, FindConnected(p)
      PROVE  EndInv'
  BY <1>0, <1>8 DEF FindConnected, Go, Saving, TypeOK
<1>9. ASSUME NEW p \in Process, Recover(p)
      PROVE  EndInv'
  <2> SUFFICES ASSUME ~blurred' PROVE EndInv'
    OBVIOUS
  <2>1. CASE Claimable(p)
    <3>1. ~blurred /\ ~Crossed(p) /\ wish
      BY <1>9, <2>1 DEF Recover
    <3>2. Go(p, {"found"}, {"recovered"}) /\ wish' = wish /\ erased' = erased
      BY <1>9, <2>1 DEF Recover
    <3>3. \A q, t :
              <<q, t>> \in tasks' <=>
                  \/ <<q, t>> \in tasks /\ (q # p \/ t \notin {"found"})
                  \/ q = p /\ t \in {"recovered"}
      BY <3>2 DEF Go
    <3>4. \A q \in Process : ~Parting(q)'
      BY <1>0, <3>1, <3>3 DEF Crossed
    <3> QED
      BY <1>0, <3>1, <3>2, <3>4
  <2>2. CASE ~Claimable(p)
    <3>1. Go(p, {"found"}, {})
      BY <1>9, <2>2 DEF Recover
    <3>2. \A q, t : <<q, t>> \in tasks' <=> <<q, t>> \in tasks /\ (q # p \/ t # "found")
      BY <3>1 DEF Go
    <3> QED
      BY <1>0, <1>9, <2>2, <3>2 DEF Recover, Saving
  <2> QED
    BY <2>1, <2>2
<1>10. ASSUME NEW p \in Process, StartRecovered(p)
       PROVE  EndInv'
  <2>1. CASE /\ sock[p] # "none"
             /\ Go(p, {"recovered", "timer"}, {})
             /\ sock' = sock
    BY <1>0, <1>10, <2>1 DEF StartRecovered, StartClaimed, Go, Saving, TypeOK
  <2>2. CASE /\ ~Does(p, "resume")
             /\ Go(p, {"recovered", "timer"}, {"resume"})
             /\ sock' = [sock EXCEPT ![p] = "none"]
    BY <1>0, <1>10, <2>2 DEF StartRecovered, StartClaimed, Go, Saving, TypeOK
  <2> QED
    BY <1>10, <2>1, <2>2 DEF StartRecovered, StartClaimed, Start
<1>11. ASSUME NEW p \in Process, Release(p)
       PROVE  EndInv'
  <2>1. \A q, t : <<q, t>> \in tasks' <=> <<q, t>> \in tasks /\ (q # p \/ t # "release")
    BY <1>0, <1>11 DEF Release, Go
  <2>2. ~blurred => ~Does(p, "end")
    BY <1>0, <1>11 DEF Release
  <2>3. CASE workerId = p
    BY <1>0, <1>11, <2>1, <2>2, <2>3 DEF Release, ReleaseRow, Saving
  <2>4. CASE workerId # p
    BY ZenonT(60), <1>0, <1>11, <2>1, <2>2, <2>4 DEF Release, ReleaseRow, Saving
  <2> QED
    BY <2>3, <2>4
<1>12. ASSUME NEW p \in Process, Ended(p)
       PROVE  EndInv'
  BY <1>0, <1>12 DEF Ended, Go, Updates, Saving, TypeOK
<1>13. ASSUME NEW p \in Process, NEW s \in Status, Write(p, s)
       PROVE  EndInv'
  <2>1. CASE s = "DESCONECTADA"
    <3>1. Go(p, {s}, {"release"}) /\ owns' = owns \ {p} /\ status' = s
      BY <1>13, <2>1 DEF Write, GoOn
    <3>2. \A q, t :
              <<q, t>> \in tasks' <=>
                  \/ <<q, t>> \in tasks /\ (q # p \/ t \notin {s})
                  \/ q = p /\ t \in {"release"}
      BY <3>1 DEF Go
    <3>3. \A q \in Process : Parting(q) => Parting(q)'
      BY <1>0, <3>2, <2>1
    <3>4. /\ wish' = wish /\ erased' = erased /\ paired' = paired
          /\ workerId' = workerId /\ refused' = refused /\ blurred' = blurred
      BY <1>13 DEF Write
    <3>5. ~blurred => ~wish /\ \A q \in Process : ~Claims(q)'
      BY <1>0, <1>13, <2>1, <3>2 DEF Write
    <3>6. Saving' => Saving
      BY <2>1, <3>2 DEF Saving
    <3>7. \A q \in Process : DoesAny(q, Leaving) => DoesAny(q, Leaving)'
      BY <1>0, <2>1, <3>2
    <3>8. \A q \in Process : /\ Does(q, "logout")' => Does(q, "logout")
                             /\ Does(q, "end")' => Does(q, "end")
      BY <2>1, <3>2
    <3>9. ~blurred => \A q \in Process : /\ Does(q, "end")' => FALSE
                                         /\ Does(q, "release")' => q \notin owns'
      BY <1>0, <3>1, <3>2, <3>5
    <3> QED
      BY <1>0, <2>1, <3>1, <3>3, <3>4, <3>5, <3>6, <3>7, <3>8, <3>9
  <2>2. CASE s # "DESCONECTADA"
    <3>1. Go(p, {s}, {}) /\ owns' = owns
      BY <1>13, <2>2 DEF Write, GoOn
    <3>2. \A q, t : <<q, t>> \in tasks' <=> <<q, t>> \in tasks /\ (q # p \/ t # s)
      BY <3>1 DEF Go
    <3>3. ~blurred => wish
      BY <1>0, <1>13, <2>2 DEF Write, Status
    <3> QED
      BY <1>0, <1>13, <2>2, <3>1, <3>2, <3>3 DEF Write, Saving
  <2> QED
    BY <2>1, <2>2
<1>14. ASSUME NEW p \in Process, RenewHeartbeat(p)
       PROVE  EndInv'
  BY <1>0, <1>14 DEF RenewHeartbeat, Saving, TypeOK
<1>15. ASSUME NEW p \in Process, NEW t \in Task, DisconnectThrows(p, t)
       PROVE  EndInv'
  BY <1>0, <1>15 DEF DisconnectThrows, Event, Go, Saving, TypeOK
<1>16. ASSUME NEW p \in Process, NEW s \in Status, WriteThrows(p, s)
       PROVE  EndInv'
  <2>1. CASE s = "DESCONECTADA"
    <3>1. Go(p, {s}, {"release"}) /\ owns' = owns \ {p} /\ refused'
      BY <1>16, <2>1 DEF WriteThrows, GoOn
    <3>2. \A q, t :
              <<q, t>> \in tasks' <=>
                  \/ <<q, t>> \in tasks /\ (q # p \/ t \notin {s})
                  \/ q = p /\ t \in {"release"}
      BY <3>1 DEF Go
    <3>3. \A q \in Process : Parting(q) => Parting(q)'
      BY <1>0, <3>2, <2>1
    <3>4. /\ wish' = wish /\ erased' = erased /\ paired' = paired
          /\ workerId' = workerId /\ status' = status /\ blurred' = blurred
      BY <1>16 DEF WriteThrows
    <3>5. ~blurred => ~wish /\ \A q \in Process : ~Claims(q)'
      BY <1>0, <1>16, <2>1, <3>2 DEF WriteThrows
    <3>6. Saving' => Saving
      BY <2>1, <3>2 DEF Saving
    <3>7. \A q \in Process : DoesAny(q, Leaving) => DoesAny(q, Leaving)'
      BY <1>0, <2>1, <3>2
    <3>8. \A q \in Process : /\ Does(q, "logout")' => Does(q, "logout")
                             /\ Does(q, "end")' => Does(q, "end")
      BY <2>1, <3>2
    <3>9. ~blurred => \A q \in Process : /\ Does(q, "end")' => FALSE
                                         /\ Does(q, "release")' => q \notin owns'
      BY <1>0, <3>1, <3>2, <3>5
    <3> QED
      BY <1>0, <2>1, <3>1, <3>3, <3>4, <3>5, <3>6, <3>7, <3>8, <3>9
  <2>2. CASE s # "DESCONECTADA"
    <3>1. Go(p, {s}, {}) /\ owns' = owns
      BY <1>16, <2>2 DEF WriteThrows, GoOn
    <3>2. \A q, t : <<q, t>> \in tasks' <=> <<q, t>> \in tasks /\ (q # p \/ t # s)
      BY <3>1 DEF Go
    <3>3. ~blurred => wish
      BY <1>0, <1>16, <2>2 DEF WriteThrows, Status
    <3> QED
      BY <1>0, <1>16, <2>2, <3>1, <3>2, <3>3 DEF WriteThrows, Event, Saving
  <2> QED
    BY <2>1, <2>2
<1>17. ASSUME NEW p \in Process, NEW how \in Starts, StartThrows(p, how)
       PROVE  EndInv'
  <2>1. CASE how = "resume"
    <3>1. Go(p, {how}, {"release"}) /\ owns' = owns \ {p}
      BY <1>17, <2>1 DEF StartThrows
    <3>2. \A q, t :
              <<q, t>> \in tasks' <=>
                  \/ <<q, t>> \in tasks /\ (q # p \/ t \notin {how})
                  \/ q = p /\ t \in {"release"}
      BY <3>1 DEF Go
    <3>3. ~blurred => wish /\ \A q \in Process : ~DoesAny(q, Leaving \cup {"end", "DESCONECTADA"})
      BY <1>0, <1>17, <2>1 DEF StartThrows
    <3>4. \A q \in Process : ~blurred => ~DoesAny(q, Leaving \cup {"end", "DESCONECTADA"})'
      BY <1>0, <3>2, <3>3
    <3>5. ~blurred => ~erased
      BY <1>0, <3>3
    <3>6. wish' = wish /\ erased' = erased /\ blurred' = blurred
      BY <1>17 DEF StartThrows
    <3>7. ~blurred => \A q \in Process : Does(q, "release")' => q \notin owns'
      BY <1>0, <3>1, <3>2
    <3> QED
      BY <1>0, <3>3, <3>4, <3>5, <3>6, <3>7
  <2>2. CASE how # "resume"
    <3>1. Go(p, {how}, {}) /\ owns' = owns
      BY <1>17, <2>2 DEF StartThrows
    <3>2. \A q, t : <<q, t>> \in tasks' <=> <<q, t>> \in tasks /\ (q # p \/ t # how)
      BY <3>1 DEF Go
    <3>3. ~blurred => wish
      BY <1>0, <1>17 DEF StartThrows
    <3> QED
      BY <1>0, <1>17, <2>2, <3>1, <3>2, <3>3 DEF StartThrows, Saving
  <2> QED
    BY <2>1, <2>2
<1>18. ASSUME NEW p \in Process, ReleaseThrows(p)
       PROVE  EndInv'
  BY <1>0, <1>18 DEF ReleaseThrows, Event, Go, Saving, TypeOK
<1>19. ASSUME NEW p \in Process, RenewalThrows(p)
       PROVE  EndInv'
  BY <1>0, <1>19 DEF RenewalThrows, Event, Go, Saving, TypeOK
<1>20. ASSUME NEW p \in Process, EndThrows(p)
       PROVE  EndInv'
  BY <1>0, <1>20 DEF EndThrows, Event, Go, Saving, TypeOK
<1>21. ASSUME NEW p \in Process, NEW how \in Starts, OpenSocket(p, how)
       PROVE  EndInv'
  BY <1>0, <1>21 DEF OpenSocket, Go, Saving, TypeOK
<1>22. ASSUME NEW p \in Process, NEW how \in Starts, ProxyFails(p, how)
       PROVE  EndInv'
  BY <1>0, <1>22 DEF ProxyFails, Event, Go, Updates, Saving, TypeOK
<1>23. ASSUME NEW p \in Process, Drop(p)
       PROVE  EndInv'
  BY <1>0, <1>23 DEF Drop, Event, Go, Updates, Saving, TypeOK
<1>24. ASSUME NEW p \in Process, ScheduleReconnect(p)
       PROVE  EndInv'
  BY <1>0, <1>24 DEF ScheduleReconnect, Go, Saving, TypeOK
<1>25. ASSUME NEW p \in Process, Reconnect(p)
       PROVE  EndInv'
  <2>1. CASE /\ sock[p] # "none"
             /\ Go(p, {"timer", "timer"}, {})
             /\ sock' = sock
    BY <1>0, <1>25, <2>1 DEF Reconnect, Go, Saving, TypeOK
  <2>2. CASE /\ ~Does(p, "restart")
             /\ Go(p, {"timer", "timer"}, {"restart"})
             /\ sock' = [sock EXCEPT ![p] = "none"]
    BY <1>0, <1>25, <2>2 DEF Reconnect, Go, Saving, TypeOK
  <2> QED
    BY <1>25, <2>1, <2>2 DEF Reconnect, Start
<1>26. ASSUME NEW p \in Process, BeginRenewal(p)
       PROVE  EndInv'
  BY <1>0, <1>26 DEF BeginRenewal, Event, Go, Saving, TypeOK
<1>27. ASSUME NEW p \in Process, Renew(p)
       PROVE  EndInv'
  BY <1>0, <1>27 DEF Renew, Go, Updates, Saving, TypeOK
<1>28. ASSUME NEW p \in Process, AskCode(p)
       PROVE  EndInv'
  BY <1>0, <1>28 DEF AskCode, Event, Go, Saving, TypeOK
<1>29. ASSUME NEW p \in Process, CodeComes(p)
       PROVE  EndInv'
  BY <1>0, <1>29 DEF CodeComes, Go, Updates, Saving, TypeOK
<1>30. ASSUME NEW p \in Process, CodeGivesUp(p)
       PROVE  EndInv'
  BY <1>0, <1>30 DEF CodeGivesUp, Go, Updates, Saving, TypeOK
<1>31. ASSUME NEW p \in Process, Opens(p)
       PROVE  EndInv'
  BY <1>0, <1>31 DEF Opens, Go, Updates, Saving, TypeOK
<1>32. ASSUME NEW p \in Process, BeginSave(p)
       PROVE  EndInv'
  BY <1>0, <1>32 DEF BeginSave, Event, Go, Saving, TypeOK
<1>33. ASSUME NEW p \in Process, SaveCreds(p)
       PROVE  EndInv'
  BY <1>0, <1>33 DEF SaveCreds, Go, Saving, TypeOK
<1>34. ASSUME NEW p \in Process, CloseForGood(p)
       PROVE  EndInv'
  BY <1>0, <1>34 DEF CloseForGood, Event, Go, Busy, Saving, TypeOK
<1>35. ASSUME NEW p \in Process, Crash(p)
       PROVE  EndInv'
  BY ZenonT(60), <1>0, <1>35 DEF Crash, Event, Busy, Saving, TypeOK
<1>36. CASE Expire
  BY <1>0, <1>36 DEF Expire, Saving, TypeOK
<1>37. CASE Lapse
  BY <1>0, <1>37 DEF Lapse, Event, Saving, TypeOK
<1>38. CASE UNCHANGED vars
  BY <1>0, <1>38 DEF vars, Saving, TypeOK
<1> HIDE DEF row, history, HoldInv, EndInv, Claims, Claiming, Recovering, Parting, Leaving, DoesAny,
            Does, Starts
<1> QED
  BY <1>0, <1>1, <1>2, <1>3, <1>4, <1>5, <1>6, <1>7, <1>8, <1>9, <1>10, <1>11, <1>12, <1>13, <1>14,
     <1>15, <1>16, <1>17, <1>18, <1>19, <1>20, <1>21, <1>22, <1>23, <1>24, <1>25, <1>26, <1>27, <1>28,
     <1>29, <1>30, <1>31, <1>32, <1>33, <1>34, <1>35, <1>36, <1>37, <1>38 DEF Next, Continue, Throws,
     Provider

\* What is proved of every reachable state.
LEMMA ShardingInvariant == Spec => [](TypeOK /\ OwnsInv /\ HoldInv /\ EndInv)
<1>1. TypeOK /\ OwnsInv /\ HoldInv /\ EndInv /\ [Next]_vars => (TypeOK /\ OwnsInv /\ HoldInv /\ EndInv)'
  BY TypeNext, OwnsNext, HoldNext, EndNext
<1> QED
  BY <1>1, ShardingInit, PTL DEF Spec

\* The row, the memory of every process and what is in flight keep their types (session.service.ts,
\* baileys-whatsapp.provider.ts).
THEOREM ShardingTypeCorrect == Spec => []TypeOK
BY ShardingInvariant, PTL

\* A process that owns the row and renews its heartbeat has the connection, is getting to it or leaving it,
\* or had a start or a deletion of the credentials that threw, whatever crosses and whichever calls fail.
THEOREM ClaimsAreBacked == Spec => []ClaimIsBacked
<1>1. OwnsInv => ClaimIsBacked
  BY DEF OwnsInv, ClaimIsBacked, Parting, Leaving, DoesAny
<1> QED
  BY <1>1, ShardingInvariant, PTL

\* While no claim and no end crosses what another await will do, a reconnection that is about to be scheduled
\* among it, only the owner of the row holds a connection, for any number of processes, crashes, failed calls
\* and lapsed heartbeats.
THEOREM OnlyTheOwnerHolds == Spec => []HolderIsOwner
<1>1. HoldInv => HolderIsOwner
  BY DEF HoldInv, HolderIsOwner, Claims, Claiming, Holds, DoesAny, Starts
<1> QED
  BY <1>1, ShardingInvariant, PTL

\* A session that the user or WhatsApp ended is brought back by no process, whichever calls fail, but for the
\* recovery of a row left as connected; its row is cleared, unless a call of its end failed; and the
\* credentials that were deleted stay so, whenever they were saved; for any number of processes and crashes,
\* as long as nothing crosses the end.
THEOREM EndedSessionsStayEnded == Spec => []EndedStaysEnded
<1>1. TypeOK /\ EndInv => EndedStaysEnded
  <2> SUFFICES ASSUME TypeOK, EndInv, ~blurred PROVE EndedStaysEnded
    BY DEF EndedStaysEnded
  <2>1. \A p \in Process : Holds(p) => Claims(p)
    BY DEF Holds, Claims, Claiming, DoesAny, Starts
  <2>2. Quiet => \A p \in Process : ~Parting(p) /\ ~DoesAny(p, Leaving \cup {"DESCONECTADA"})
    BY DEF Quiet, Busy, Parting, Leaving, DoesAny, Task, Status
  <2>3. Quiet => \A p \in Process : ~DoesAny(p, Leaving)
    BY <2>2 DEF DoesAny
  <2> QED
    BY <2>1, <2>2, <2>3 DEF EndInv, EndedStaysEnded, TypeOK
<1> QED
  BY <1>1, ShardingInvariant, PTL
=============================================================================
