------------------------- MODULE MockClient_proofs --------------------------
(***************************************************************************)
(* Proofs, for any number of calls, that MockQQClient's mutexes have the   *)
(* holders the code gives them, that a caller making one lifecycle call at *)
(* a time finds the session it made, whatever the traffic beside it, and   *)
(* that it cannot deadlock.                                                *)
(***************************************************************************)
EXTENDS MCMockClient, TLAPS

\* Where a call of each kind can stand before it returns.
ConnectSteps == {"open", "store_endpoint", "store_timeout"}
LoginSteps == {"check", "take_token", "mark_login"}
ClosingSteps == {"clear_sent", "clear_inbound", "clear_endpoint", "clear_token",
                 "clear_heartbeat"}

OpOK ==
  /\ \A p \in Calls :
       /\ pc[p] = "idle" => op[p] = "none"
       /\ pc[p] \in ConnectSteps <=> op[p] = "connect" /\ p \in Running
       /\ pc[p] \in LoginSteps <=> op[p] = "login" /\ p \in Running
       /\ pc[p] \in ClosingSteps \cup {"close"} <=>
            op[p] = "disconnect" /\ p \in Running

\* What SessionHonest says when the lifecycle call is not between two of the
\* assignments that belong together.
Honest ==
  /\ state # "Disconnected" <=> endpoint
  /\ state = "LoggedIn" <=> token # None
  /\ state = "LoggedIn" => op[token] = "login" /\ pc[token] = "ok"

Between == {"store_endpoint", "mark_login", "clear_sent", "clear_inbound",
            "clear_endpoint", "clear_token"}

\* What the lifecycle call under way has made of the session so far.
SessionAt(p) ==
  /\ pc[p] = "store_endpoint" => state = "Connected" /\ token = None
  /\ pc[p] = "take_token" => state = "Connected"
  /\ pc[p] = "mark_login" => state = "Connected" /\ endpoint /\ token = p
  /\ pc[p] \in ClosingSteps => state = "Disconnected"
  /\ pc[p] \in {"clear_token", "clear_heartbeat"} => ~endpoint

SessionSteps ==
  /\ (\A p \in Calls : pc[p] \notin Between) => Honest
  /\ \A p \in Calls : SessionAt(p)

SessionInv ==
  callers = "backend" =>
    /\ \A p, q \in Running : {op[p], op[q]} \subseteq Lifecycle => p = q
    /\ SessionSteps

IInv == TypeOK /\ OpOK /\ SessionInv

-----------------------------------------------------------------------------
\* None is no call.
LEMMA NoneIsNoCall == None \notin Calls
BY MockAssumption DEF Calls

\* Every variable keeps its type and each mutex its holder: the state's is
\* held by a disconnect from its first step to its last, the token's by a login
\* that waits for the state's, for all constants.
THEOREM TypeCorrect == Spec => []TypeOK
<1>1. Init => TypeOK
  BY NoneIsNoCall DEF Init, TypeOK, Disciplines, Mutexes
<1>2. TypeOK /\ [Next]_vars => TypeOK'
  <2> SUFFICES ASSUME TypeOK, [Next]_vars PROVE TypeOK'
    OBVIOUS
  <2> USE NoneIsNoCall DEF TypeOK, Disciplines, Mutexes, Lifecycle, Traffic, Goto,
                           Free, Hold, Release, fields
  <2>1. ASSUME NEW p \in Calls, Begin(p) PROVE TypeOK'
    <3>1. \E label \in {"open", "check", "close", "check_timeout", "receive",
                        "inject", "err"} : pc' = [pc EXCEPT ![p] = label]
      BY <2>1 DEF Begin
    <3>2. op' \in [Calls -> Lifecycle \cup Traffic \cup {"none"}]
      BY <2>1 DEF Begin
    <3>3. QED
      BY <2>1, <3>1, <3>2 DEF Begin
  <2>2. ASSUME NEW p \in Calls, Open(p) PROVE TypeOK'
    BY <2>2 DEF Open
  <2>3. ASSUME NEW p \in Calls, StoreEndpoint(p) PROVE TypeOK'
    BY <2>3 DEF StoreEndpoint
  <2>4. ASSUME NEW p \in Calls, StoreTimeout(p) PROVE TypeOK'
    BY <2>4 DEF StoreTimeout
  <2>5. ASSUME NEW p \in Calls, LoginCheck(p) PROVE TypeOK'
    BY <2>5 DEF LoginCheck
  <2>6. ASSUME NEW p \in Calls, StoreToken(p) PROVE TypeOK'
    BY <2>6 DEF StoreToken
  <2>7. ASSUME NEW p \in Calls, MarkLogin(p) PROVE TypeOK'
    BY <2>7 DEF MarkLogin
  <2>8. ASSUME NEW p \in Calls, Close(p) PROVE TypeOK'
    BY <2>8 DEF Close
  <2>9. ASSUME NEW p \in Calls, ClearSent(p) PROVE TypeOK'
    BY <2>9 DEF ClearSent
  <2>10. ASSUME NEW p \in Calls, ClearInbound(p) PROVE TypeOK'
    BY <2>10 DEF ClearInbound
  <2>11. ASSUME NEW p \in Calls, ClearEndpoint(p) PROVE TypeOK'
    <3>1. holder' = holder /\ holder["state"] = p
      BY <2>11 DEF ClearEndpoint
    <3>2. pc' = [pc EXCEPT ![p] = "clear_token"]
      BY <2>11 DEF ClearEndpoint
    <3>3. \A q \in Calls :
            \/ q = p
            \/ pc'[q] = pc[q] /\ holder["state"] # q
      BY <3>1, <3>2
    <3>4. pc'[p] = "clear_token" /\ holder["token"] # p
      BY <2>11, <3>2 DEF ClearEndpoint
    <3>5. \A q \in Calls : /\ holder'["token"] = q <=> pc'[q] = "mark_login"
                           /\ holder'["state"] = q <=>
                                pc'[q] \in {"clear_sent", "clear_inbound",
                                  "clear_endpoint", "clear_token",
                                  "clear_heartbeat"}
      BY <3>1, <3>3, <3>4
    <3>6. /\ UNCHANGED <<callers, holder, state, token, timeout, beaten, sent,
                          inbound, op>>
          /\ endpoint' = FALSE
      BY <2>11 DEF ClearEndpoint
    <3>7. QED
      BY <3>2, <3>5, <3>6
  <2>12. ASSUME NEW p \in Calls, ClearToken(p) PROVE TypeOK'
    BY <2>12 DEF ClearToken
  <2>13. ASSUME NEW p \in Calls, ClearHeartbeat(p) PROVE TypeOK'
    <3>1. \A m \in Mutexes :
            holder'[m] = IF holder[m] = p THEN None ELSE holder[m]
      BY <2>13 DEF ClearHeartbeat
    <3>2. holder' \in [Mutexes -> Calls \cup {None}]
      BY <2>13 DEF ClearHeartbeat
    <3>3. \A q \in Calls : pc'[q] = IF q = p THEN "ok" ELSE pc[q]
      BY <2>13 DEF ClearHeartbeat
    <3>4. holder["state"] = p /\ holder["token"] # p
      BY <2>13 DEF ClearHeartbeat
    <3>5. \A q \in Calls : /\ holder'["token"] = q <=> pc'[q] = "mark_login"
                           /\ holder'["state"] = q <=>
                                pc'[q] \in {"clear_sent", "clear_inbound",
                                  "clear_endpoint", "clear_token",
                                  "clear_heartbeat"}
      BY <3>1, <3>3, <3>4
    <3>6. QED
      BY <2>13, <3>2, <3>5 DEF ClearHeartbeat
  <2>14. ASSUME NEW p \in Calls, CheckTimeout(p) PROVE TypeOK'
    BY <2>14 DEF CheckTimeout
  <2>15. ASSUME NEW p \in Calls, CheckLogin(p) PROVE TypeOK'
    BY <2>15 DEF CheckLogin
  <2>16. ASSUME NEW p \in Calls, Push(p) PROVE TypeOK'
    BY <2>16 DEF Push
  <2>17. ASSUME NEW p \in Calls, Beat(p) PROVE TypeOK'
    <3>1. CASE pc' = [pc EXCEPT ![p] = "err"] /\ UNCHANGED beaten
      BY <2>17, <3>1 DEF Beat
    <3>2. CASE pc' = [pc EXCEPT ![p] = "beat_timeout"] /\ beaten' = TRUE
      BY <2>17, <3>2 DEF Beat
    <3>3. QED
      BY <2>17, <3>1, <3>2 DEF Beat
  <2>18. ASSUME NEW p \in Calls, BeatTimeout(p) PROVE TypeOK'
    BY <2>18 DEF BeatTimeout
  <2>19. ASSUME NEW p \in Calls, Receive(p) PROVE TypeOK'
    BY <2>19 DEF Receive
  <2>20. ASSUME NEW p \in Calls, Inject(p) PROVE TypeOK'
    BY <2>20 DEF Inject
  <2>21. CASE UNCHANGED vars
    BY <2>21 DEF vars, fields
  <2>22. QED
    BY <2>1, <2>2, <2>3, <2>4, <2>5, <2>6, <2>7, <2>8, <2>9, <2>10,
       <2>11, <2>12, <2>13, <2>14, <2>15, <2>16, <2>17, <2>18, <2>19, <2>20, <2>21
       DEF Next, CallStep
<1>3. QED
  BY <1>1, <1>2, PTL DEF Spec

\* What the start of a call does: it draws the operation, goes to its first
\* step, or is refused at once, and touches no field.
LEMMA BeginStep ==
  ASSUME TypeOK, NEW p \in Calls, Begin(p)
  PROVE  /\ pc[p] = "idle"
         /\ UNCHANGED <<callers, holder, fields>>
         /\ \E o \in Lifecycle \cup Traffic :
              \E label \in {"open", "check", "close", "check_timeout", "receive",
                            "inject", "err"} :
                /\ op' = [op EXCEPT ![p] = o]
                /\ pc' = [pc EXCEPT ![p] = label]
                /\ callers = "backend" /\ o \in Lifecycle =>
                     \A q \in Running : op[q] \notin Lifecycle
                /\ label = "open" => o = "connect"
                /\ label = "check" <=> o = "login"
                /\ label = "close" <=> o = "disconnect"
                /\ o = "connect" => label \in {"open", "err"}
<1>1. PICK o \in Lifecycle \cup Traffic :
        /\ callers = "backend" /\ o \in Lifecycle =>
             \A q \in Running : op[q] \notin Lifecycle
        /\ op' = [op EXCEPT ![p] = o]
        /\ CASE o = "connect" -> Goto(p, "open") \/ Goto(p, "err")
             [] o = "login" -> Goto(p, "check")
             [] o = "disconnect" -> Goto(p, "close")
             [] o \in {"send", "heartbeat"} -> Goto(p, "check_timeout")
             [] o \in {"receive", "inject"} -> Goto(p, o)
  BY DEF Begin
<1>2. CASE o = "connect"
  BY <1>1, <1>2 DEF Begin, Goto
<1>3. CASE o = "login"
  BY <1>1, <1>3 DEF Begin, Goto
<1>4. CASE o = "disconnect"
  BY <1>1, <1>4 DEF Begin, Goto
<1>5. CASE o \in Traffic
  BY <1>1, <1>5 DEF Begin, Goto, Traffic, Lifecycle
<1>6. QED
  BY <1>2, <1>3, <1>4, <1>5 DEF Lifecycle

\* A call stands where its operation leads.
LEMMA OpKept ==
  ASSUME TypeOK, OpOK, [Next]_vars
  PROVE  OpOK'
<1> USE DEF TypeOK, OpOK, Running, ConnectSteps, LoginSteps, ClosingSteps, Lifecycle,
            Traffic, Goto, fields
<1>1. ASSUME NEW p \in Calls, Begin(p) PROVE OpOK'
  BY <1>1, BeginStep
<1>2. ASSUME NEW p \in Calls, Open(p) PROVE OpOK'
  BY <1>2 DEF Open
<1>3. ASSUME NEW p \in Calls, StoreEndpoint(p) PROVE OpOK'
  BY <1>3 DEF StoreEndpoint
<1>4. ASSUME NEW p \in Calls, StoreTimeout(p) PROVE OpOK'
  BY <1>4 DEF StoreTimeout
<1>5. ASSUME NEW p \in Calls, LoginCheck(p) PROVE OpOK'
  BY <1>5 DEF LoginCheck
<1>6. ASSUME NEW p \in Calls, StoreToken(p) PROVE OpOK'
  BY <1>6 DEF StoreToken
<1>7. ASSUME NEW p \in Calls, MarkLogin(p) PROVE OpOK'
  BY <1>7 DEF MarkLogin
<1>8. ASSUME NEW p \in Calls, Close(p) PROVE OpOK'
  BY <1>8 DEF Close
<1>9. ASSUME NEW p \in Calls, ClearSent(p) PROVE OpOK'
  BY <1>9 DEF ClearSent
<1>10. ASSUME NEW p \in Calls, ClearInbound(p) PROVE OpOK'
  BY <1>10 DEF ClearInbound
<1>11. ASSUME NEW p \in Calls, ClearEndpoint(p) PROVE OpOK'
  BY <1>11 DEF ClearEndpoint
<1>12. ASSUME NEW p \in Calls, ClearToken(p) PROVE OpOK'
  BY <1>12 DEF ClearToken
<1>13. ASSUME NEW p \in Calls, ClearHeartbeat(p) PROVE OpOK'
  BY <1>13 DEF ClearHeartbeat
<1>14. ASSUME NEW p \in Calls, CheckTimeout(p) PROVE OpOK'
  BY <1>14 DEF CheckTimeout
<1>15. ASSUME NEW p \in Calls, CheckLogin(p) PROVE OpOK'
  BY <1>15 DEF CheckLogin
<1>16. ASSUME NEW p \in Calls, Push(p) PROVE OpOK'
  BY <1>16 DEF Push
<1>17. ASSUME NEW p \in Calls, Beat(p) PROVE OpOK'
  BY <1>17 DEF Beat
<1>18. ASSUME NEW p \in Calls, BeatTimeout(p) PROVE OpOK'
  BY <1>18 DEF BeatTimeout
<1>19. ASSUME NEW p \in Calls, Receive(p) PROVE OpOK'
  BY <1>19 DEF Receive
<1>20. ASSUME NEW p \in Calls, Inject(p) PROVE OpOK'
  BY <1>20 DEF Inject
<1>21. CASE UNCHANGED vars
  BY <1>21 DEF vars
<1>22. QED
  BY <1>1, <1>2, <1>3, <1>4, <1>5, <1>6, <1>7, <1>8, <1>9, <1>10,
     <1>11, <1>12, <1>13, <1>14, <1>15, <1>16, <1>17, <1>18, <1>19, <1>20, <1>21
     DEF Next, CallStep

\* The discipline of the callers never changes.
LEMMA CallersKept == ASSUME [Next]_vars PROVE callers' = callers
BY DEF Next, vars, Begin, CallStep, Open, StoreEndpoint, StoreTimeout, LoginCheck, StoreToken, MarkLogin, Close,
       ClearSent, ClearInbound, ClearEndpoint, ClearToken, ClearHeartbeat, CheckTimeout,
       CheckLogin, Push, Beat, BeatTimeout, Receive, Inject

\* One lifecycle call at a time: while it moves, every other call under way
\* is traffic, and stays so.
LEMMA Alone ==
  ASSUME TypeOK, OpOK, SessionInv, callers = "backend", NEW p \in Calls,
         pc[p] \in ConnectSteps \cup LoginSteps \cup ClosingSteps \cup {"close"}
  PROVE  \A q \in Calls \ {p} :
           pc[q] \notin ConnectSteps \cup LoginSteps \cup ClosingSteps \cup {"close"}
BY DEF OpOK, SessionInv, Lifecycle, Running, TypeOK

\* One lifecycle call at a time: every step keeps the session what that call
\* has made of it.
LEMMA SessionKept ==
  ASSUME IInv, [Next]_vars
  PROVE  SessionInv'
<1> SUFFICES ASSUME callers = "backend" PROVE SessionInv'
  BY CallersKept DEF SessionInv
<1>1. \A p, q \in Running' : {op'[p], op'[q]} \subseteq Lifecycle => p = q
  <2> USE DEF IInv, TypeOK, SessionInv, Running, Goto
  <2>1. ASSUME NEW p \in Calls, Begin(p)
        PROVE  \A q, r \in Running' : {op'[q], op'[r]} \subseteq Lifecycle => q = r
    BY <2>1, BeginStep
  <2>2. ASSUME NEW p \in Calls, CallStep(p)
        PROVE  Running' \subseteq Running /\ op' = op
    BY <2>2 DEF CallStep, Open, StoreEndpoint, StoreTimeout, LoginCheck, StoreToken, MarkLogin,
       Close, ClearSent, ClearInbound, ClearEndpoint, ClearToken, ClearHeartbeat,
       CheckTimeout, CheckLogin, Push, Beat, BeatTimeout, Receive, Inject
  <2>3. CASE UNCHANGED vars
    BY <2>3 DEF vars
  <2>4. QED
    BY <2>1, <2>2, <2>3 DEF Next
<1>2. SessionSteps
  BY DEF IInv, SessionInv
<1> USE NoneIsNoCall DEF IInv, TypeOK, Goto, Hold, Free, fields, ConnectSteps, LoginSteps, ClosingSteps, Lifecycle, Traffic
<1>3. ASSUME NEW p \in Calls, Begin(p) PROVE SessionSteps'
  BY <1>2, <1>3, BeginStep DEF OpOK,
     SessionSteps, Honest, SessionAt, Between
<1>4. ASSUME NEW p \in Calls, Open(p) PROVE SessionSteps'
  BY <1>2, <1>4, Alone DEF Open, OpOK,
     SessionSteps, Honest, SessionAt, Between
<1>5. ASSUME NEW p \in Calls, StoreEndpoint(p) PROVE SessionSteps'
  BY <1>2, <1>5, Alone DEF StoreEndpoint, OpOK,
     SessionSteps, Honest, SessionAt, Between
<1>6. ASSUME NEW p \in Calls, StoreTimeout(p) PROVE SessionSteps'
  BY <1>2, <1>6, Alone DEF StoreTimeout, OpOK,
     SessionSteps, Honest, SessionAt, Between
<1>7. ASSUME NEW p \in Calls, LoginCheck(p) PROVE SessionSteps'
  BY <1>2, <1>7, Alone DEF LoginCheck, OpOK,
     SessionSteps, Honest, SessionAt, Between
<1>8. ASSUME NEW p \in Calls, StoreToken(p) PROVE SessionSteps'
  BY <1>2, <1>8, Alone DEF StoreToken, OpOK,
     SessionSteps, Honest, SessionAt, Between
<1>9. ASSUME NEW p \in Calls, MarkLogin(p) PROVE SessionSteps'
  BY <1>2, <1>9, Alone DEF MarkLogin, OpOK,
     SessionSteps, Honest, SessionAt, Between
<1>10. ASSUME NEW p \in Calls, Close(p) PROVE SessionSteps'
  BY <1>2, <1>10, Alone DEF Close, OpOK,
     SessionSteps, Honest, SessionAt, Between
<1>11. ASSUME NEW p \in Calls, ClearSent(p) PROVE SessionSteps'
  BY <1>2, <1>11, Alone DEF ClearSent, OpOK,
     SessionSteps, Honest, SessionAt, Between
<1>12. ASSUME NEW p \in Calls, ClearInbound(p) PROVE SessionSteps'
  BY <1>2, <1>12, Alone DEF ClearInbound, OpOK,
     SessionSteps, Honest, SessionAt, Between
<1>13. ASSUME NEW p \in Calls, ClearEndpoint(p) PROVE SessionSteps'
  BY <1>2, <1>13, Alone DEF ClearEndpoint, OpOK,
     SessionSteps, Honest, SessionAt, Between
<1>14. ASSUME NEW p \in Calls, ClearToken(p) PROVE SessionSteps'
  BY <1>2, <1>14, Alone DEF ClearToken, OpOK,
     SessionSteps, Honest, SessionAt, Between
<1>15. ASSUME NEW p \in Calls, ClearHeartbeat(p) PROVE SessionSteps'
  BY <1>2, <1>15, Alone DEF ClearHeartbeat, OpOK,
     SessionSteps, Honest, SessionAt, Between
<1>16. ASSUME NEW p \in Calls, CheckTimeout(p) PROVE SessionSteps'
  BY <1>2, <1>16 DEF CheckTimeout, OpOK,
     SessionSteps, Honest, SessionAt, Between
<1>17. ASSUME NEW p \in Calls, CheckLogin(p) PROVE SessionSteps'
  BY <1>2, <1>17 DEF CheckLogin, OpOK,
     SessionSteps, Honest, SessionAt, Between
<1>18. ASSUME NEW p \in Calls, Push(p) PROVE SessionSteps'
  BY <1>2, <1>18 DEF Push, OpOK,
     SessionSteps, Honest, SessionAt, Between
<1>19. ASSUME NEW p \in Calls, Beat(p) PROVE SessionSteps'
  BY <1>2, <1>19 DEF Beat, OpOK,
     SessionSteps, Honest, SessionAt, Between
<1>20. ASSUME NEW p \in Calls, BeatTimeout(p) PROVE SessionSteps'
  BY <1>2, <1>20 DEF BeatTimeout, OpOK,
     SessionSteps, Honest, SessionAt, Between
<1>21. ASSUME NEW p \in Calls, Receive(p) PROVE SessionSteps'
  BY <1>2, <1>21 DEF Receive, OpOK,
     SessionSteps, Honest, SessionAt, Between
<1>22. ASSUME NEW p \in Calls, Inject(p) PROVE SessionSteps'
  BY <1>2, <1>22 DEF Inject, OpOK,
     SessionSteps, Honest, SessionAt, Between
<1>23. ASSUME UNCHANGED vars PROVE SessionSteps'
  <2>1. UNCHANGED <<state, token, endpoint, pc, op>>
    BY <1>23 DEF vars
  <2>2. QED
    BY <1>2, <2>1 DEF SessionSteps, Honest, SessionAt, Between
<1>24. SessionSteps'
  BY <1>3, <1>4, <1>5, <1>6, <1>7, <1>8, <1>9, <1>10, <1>11, <1>12,
     <1>13, <1>14, <1>15, <1>16, <1>17, <1>18, <1>19, <1>20, <1>21, <1>22, <1>23 DEF Next, CallStep
<1>25. QED
  BY <1>1, <1>24 DEF SessionInv

\* The inductive invariant holds for all constants.
LEMMA Inductive == Spec => []IInv
<1>1. Init => IInv
  <2> SUFFICES ASSUME Init PROVE IInv
    OBVIOUS
  <2>1. TypeOK
    BY NoneIsNoCall DEF Init, TypeOK, Disciplines, Mutexes
  <2>2. OpOK /\ SessionInv
    BY DEF Init, OpOK, SessionInv, SessionSteps, Honest, SessionAt, Running,
           ConnectSteps, LoginSteps, ClosingSteps
  <2>3. QED
    BY <2>1, <2>2 DEF IInv
<1>2. TypeOK' /\ IInv /\ [Next]_vars => IInv'
  BY OpKept, SessionKept DEF IInv
<1>3. QED
  BY <1>1, <1>2, TypeCorrect, PTL DEF Spec

\* A caller that makes one lifecycle call at a time finds, between them, a
\* session with an endpoint and, once logged in, the token of a login that has
\* returned, for any number of calls and whatever the traffic beside them.
THEOREM SessionIsHonest == Spec => []SessionHonest
<1>1. IInv => SessionHonest
  <2> SUFFICES ASSUME IInv, callers = "backend",
                      \A p \in Running : op[p] \in Traffic
               PROVE  SessionHonest
    BY DEF SessionHonest
  <2>1. \A p \in Calls : pc[p] \notin Between
    BY DEF IInv, OpOK, Between, ConnectSteps, LoginSteps, ClosingSteps, Traffic
  <2>2. QED
    BY <2>1 DEF IInv, SessionInv, SessionSteps, Honest, SessionHonest
<1>2. QED
  BY <1>1, Inductive, PTL

\* That caller never brings about the one deadlock the mutexes allow, a login
\* that holds the token's and a disconnect that holds the state's.
THEOREM NoEmbrace == Spec => [](callers = "backend" => ~Embrace)
<1>1. IInv => (callers = "backend" => ~Embrace)
  BY DEF IInv, OpOK, SessionInv, Embrace, ConnectSteps, LoginSteps, ClosingSteps,
         Lifecycle, Running
<1>2. QED
  BY <1>1, Inductive, PTL

-----------------------------------------------------------------------------
\* The session the client has, as ClientSession sees it.
SessionState ==
  IF callers # "backend" \/ state = "Disconnected" THEN "closed"
  ELSE IF state = "Connected" THEN "open" ELSE "logged_in"

\* A step of the mock client is one of a ClientSession, or none: the open of
\* connect, the last assignment of login and the first of disconnect.
LEMMA SessionStep ==
  ASSUME IInv, IInv', [Next]_vars
  PROVE  [Session!Next]_SessionState
<1>1. callers' = callers
  BY CallersKept
<1>2. ASSUME NEW p \in Calls, Open(p)
      PROVE  state' = state \/ (state = "Disconnected" /\ state' = "Connected")
  BY <1>2 DEF Open, IInv, TypeOK
<1>3. ASSUME NEW p \in Calls, MarkLogin(p), callers = "backend"
      PROVE  state = "Connected" /\ state' = "LoggedIn"
  BY <1>3 DEF MarkLogin, IInv, SessionInv, SessionSteps, SessionAt
<1>4. ASSUME NEW p \in Calls, Close(p) PROVE state' = "Disconnected"
  BY <1>4 DEF Close
<1>5. ASSUME NEW p \in Calls,
             Begin(p) \/ (CallStep(p) /\ ~Open(p) /\ ~MarkLogin(p) /\ ~Close(p))
      PROVE  state' = state
  BY <1>5 DEF fields, Begin, CallStep, StoreEndpoint, StoreTimeout, LoginCheck,
     StoreToken, ClearSent, ClearInbound, ClearEndpoint, ClearToken,
     ClearHeartbeat, CheckTimeout, CheckLogin, Push, Beat, BeatTimeout, Receive,
     Inject
<1>6. ASSUME UNCHANGED vars PROVE state' = state
  BY <1>6 DEF vars, fields
<1>7. \/ state' = state
      \/ state = "Disconnected" /\ state' = "Connected"
      \/ callers = "backend" => state = "Connected" /\ state' = "LoggedIn"
      \/ state' = "Disconnected"
  BY <1>2, <1>3, <1>4, <1>5, <1>6 DEF Next, CallStep
<1>8. QED
  BY <1>1, <1>7 DEF Session!Next, Session!Open, Session!LogIn, Session!Close,
     SessionState

\* MockQQClient implements ClientSession for a caller that makes one lifecycle
\* call at a time: a session is opened, then logged in to, and ends from either.
THEOREM Refinement == Spec => ImplementsSession
<1>1. Init => Session!Init
  BY DEF Init, Session!Init
<1>2. IInv /\ IInv' /\ [Next]_vars => [Session!Next]_SessionState
  BY SessionStep
<1>3. QED
  BY <1>1, <1>2, Inductive, PTL 
     DEF Spec, ImplementsSession, Session!Spec, SessionState

=============================================================================
