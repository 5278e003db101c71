--------------------------- MODULE QQBackend_proofs -------------------------
(***************************************************************************)
(* Proofs about QQClientBackend and about the main task, whose module      *)
(* extends it.                                                             *)
(*                                                                         *)
(* The backend, for any number of calls and any discipline of the callers: *)
(* its invariants, and for settled callers that it implements              *)
(* ListenSession.                                                          *)
(*                                                                         *)
(* The main task, for any settings and number of settings per layer, and   *)
(* the three calls it makes: it serves and returns as its users expect,    *)
(* over either backend.                                                    *)
(***************************************************************************)
EXTENDS MCQQBackend, MCApp, TLAPS

\* A connect or disconnect call that has stored "connected", "listening", and
\* all its flags.
StoredConnected(p) ==
  \/ pc[p] \in {"listening", "logged_in", "drop_client", "configure", "dial",
                "login", "mark_login", "publish"}
  \/ pc[p] = "lock" /\ op[p] # "listen"
StoredListening(p) == StoredConnected(p) /\ pc[p] # "listening"
StoredAll(p) == StoredListening(p) /\ pc[p] # "logged_in"

\* It has taken the handle and aborted the listener.
TookHandle(p) == StoredAll(p) /\ pc[p] # "lock"

\* A listen call about to spawn, and one between its check and the spawn.
Spawning(p) == pc[p] = "lock" /\ op[p] = "listen"
InListen(p) == pc[p] = "swap" \/ Spawning(p)

\* Which call can stand where.
OpOK ==
  \A p \in Calls :
    /\ pc[p] = "idle" <=> op[p] = "none"
    /\ pc[p] = "swap" => op[p] = "listen"
    /\ pc[p] \in Flags \cup {"drop_client"} => op[p] \in {"connect", "disconnect"}
    /\ pc[p] \in {"configure", "dial", "login", "mark_login", "publish"} =>
         op[p] = "connect"

\* Only a task that was spawned has a handle or is aborted.
SpawnedOK ==
  \A l \in Calls : l \in aborted \/ l = handle => listener[l] # "none"

\* listener p is only spawned by call p.
SpawnOnce == \A p \in Calls : pc[p] \notin {"ok", "err"} => listener[p] = "none"

\* One call at a time: where a call under way stands says which flags it has
\* reset and what it has made of the client.
SerialAt(p) ==
  /\ StoredConnected(p) => ~flag["connected"]
  /\ StoredListening(p) => ~flag["listening"]
  /\ StoredAll(p) /\ pc[p] # "publish" => ~flag["logged_in"]
  /\ (StoredConnected(p) \/ pc[p] = "connected") /\ op[p] = "connect" =>
       ~flag["stop_requested"]
  /\ pc[p] = "login" => credentials
  /\ pc[p] = "mark_login" => credentials /\ client = "LoggedIn"
  /\ pc[p] = "publish" =>
       /\ client # "Disconnected"
       /\ flag["logged_in"] => client = "LoggedIn"
       /\ credentials => flag["logged_in"]

\* What the flags say between calls, each part suspended by the call that is
\* about to make it false.
SerialFlags ==
  /\ flag["connected"] => client # "Disconnected"
  /\ (\A p \in Calls : ~StoredConnected(p)) =>
       /\ flag["logged_in"] => flag["connected"] /\ client = "LoggedIn"
       /\ flag["connected"] /\ credentials => flag["logged_in"]
  /\ (\A p \in Calls : pc[p] # "connected") =>
       ~(flag["stop_requested"] /\ flag["connected"])

\* Nobody is refused by a "listening" left behind.
SerialListening ==
  flag["listening"] =>
    Live \ aborted # {} \/ \E p \in Calls : Spawning(p)

SerialInv ==
  callers # "overlapping" =>
    /\ \A p, q \in Running : p = q
    /\ SerialFlags
    /\ SerialListening
    /\ \A p \in Calls : SerialAt(p)

\* Settled callers: there is one listener that was not aborted, the one whose
\* handle is stored, and beside it none that was; "listening" is set while it
\* lives; a listen call finds the place free, over a connection, and a connect
\* has freed it.
SettledInv ==
  callers = "settled" =>
    /\ Live \ aborted \subseteq {handle}
    /\ Live \ aborted = {} \/ Live \cap aborted = {}
    /\ (\A p \in Calls : ~StoredListening(p)) =>
         flag["listening"] \/ Live \ aborted = {}
    /\ \A p \in Calls :
         /\ InListen(p) => Live \cap aborted = {} /\ flag["connected"]
         /\ Spawning(p) => Live = {} /\ flag["listening"]
         /\ TookHandle(p) => Live \ aborted = {}

IInv == TypeOK /\ OpOK /\ SpawnedOK /\ SpawnOnce /\ SerialInv /\ SettledInv

-----------------------------------------------------------------------------
\* None is no call.
LEMMA NoneIsNoCall == None \notin Calls
BY QQAssumption DEF Calls

\* Every variable keeps its type, and only the call that holds the listen_task
\* mutex touches the client, for all constants.
THEOREM TypeCorrect == Spec => []TypeOK
<1>1. Init => TypeOK
  BY NoneIsNoCall DEF Init, TypeOK, Disciplines, Flags
<1>2. TypeOK /\ [Next]_vars => TypeOK'
  <2> SUFFICES ASSUME TypeOK, [Next]_vars PROVE TypeOK'
    OBVIOUS
  <2> USE NoneIsNoCall DEF TypeOK, Disciplines, Flags, inputs, callVars,
                           listenerVars, Goto, Return, Set
  <2>1. ASSUME NEW p \in Calls, Begin(p) PROVE TypeOK'
    BY <2>1 DEF Begin
  <2>2. ASSUME NEW p \in Calls, StoreFlag(p) PROVE TypeOK'
    BY <2>2 DEF StoreFlag, NextStore
  <2>3. ASSUME NEW p \in Calls, TakeHandle(p) PROVE TypeOK'
    BY <2>3 DEF TakeHandle
  <2>4. ASSUME NEW p \in Calls, DropClient(p) PROVE TypeOK'
    BY <2>4 DEF DropClient
  <2>5. ASSUME NEW p \in Calls, Configure(p) PROVE TypeOK'
    BY <2>5 DEF Configure
  <2>6. ASSUME NEW p \in Calls, Dial(p) PROVE TypeOK'
    BY <2>6 DEF Dial
  <2>7. ASSUME NEW p \in Calls, Login(p) PROVE TypeOK'
    BY <2>7 DEF Login
  <2>8. ASSUME NEW p \in Calls, MarkLogin(p) PROVE TypeOK'
    BY <2>8 DEF MarkLogin
  <2>9. ASSUME NEW p \in Calls, Publish(p) PROVE TypeOK'
    BY <2>9 DEF Publish
  <2>10. ASSUME NEW p \in Calls, Swap(p) PROVE TypeOK'
    BY <2>10 DEF Swap
  <2>11. ASSUME NEW p \in Calls, SpawnListener(p) PROVE TypeOK'
    BY <2>11 DEF SpawnListener
  <2>12. ASSUME NEW l \in Calls, LoopTest(l) \/ Receive(l) \/ Die(l)
         PROVE  TypeOK'
    BY <2>12 DEF LoopTest, Receive, Die
  <2>13. ASSUME NEW l \in Calls, Exit(l) PROVE TypeOK'
    BY <2>13 DEF Exit
  <2>14. CASE UNCHANGED vars
    BY <2>14 DEF vars
  <2>15. QED
    BY <2>1, <2>2, <2>3, <2>4, <2>5, <2>6, <2>7, <2>8, <2>9, <2>10, <2>11,
       <2>12, <2>13, <2>14
       DEF Next, CallStep, Connect, TearDown, Listen, ListenerStep
<1>3. QED
  BY <1>1, <1>2, PTL DEF Spec

\* A call stands where its operation leads, and a task is spawned once, by the
\* call it is named after.
LEMMA CallsKept ==
  ASSUME TypeOK, OpOK, SpawnedOK, SpawnOnce, [Next]_vars
  PROVE  OpOK' /\ SpawnedOK' /\ SpawnOnce'
<1> USE NoneIsNoCall DEF TypeOK, OpOK, SpawnedOK, SpawnOnce, Flags, inputs,
                         callVars, listenerVars, Goto, Return, Set
<1>1. ASSUME NEW p \in Calls, Begin(p) PROVE OpOK' /\ SpawnedOK' /\ SpawnOnce'
  BY <1>1 DEF Begin
<1>2. ASSUME NEW p \in Calls, TearDown(p) PROVE OpOK' /\ SpawnedOK' /\ SpawnOnce'
  <2>1. CASE StoreFlag(p)
    BY <2>1 DEF StoreFlag, NextStore
  <2>2. CASE TakeHandle(p)
    BY <2>2 DEF TakeHandle
  <2>3. CASE DropClient(p)
    BY <2>3 DEF DropClient
  <2>4. QED
    BY <1>2, <2>1, <2>2, <2>3 DEF TearDown
<1>3. ASSUME NEW p \in Calls, Connect(p) PROVE OpOK' /\ SpawnedOK' /\ SpawnOnce'
  BY <1>3 DEF Connect, Configure, Dial, Login, MarkLogin, Publish
<1>4. ASSUME NEW p \in Calls, Listen(p) PROVE OpOK' /\ SpawnedOK' /\ SpawnOnce'
  BY <1>4 DEF Listen, Swap, SpawnListener
<1>5. ASSUME NEW l \in Calls, ListenerStep(l) \/ Die(l)
      PROVE  OpOK' /\ SpawnedOK' /\ SpawnOnce'
  BY <1>5 DEF ListenerStep, LoopTest, Receive, Exit, Die
<1>6. CASE UNCHANGED vars
  BY <1>6 DEF vars
<1>7. QED
  BY <1>1, <1>2, <1>3, <1>4, <1>5, <1>6 DEF Next, CallStep

-----------------------------------------------------------------------------
\* The discipline and the configuration never change.
LEMMA InputsKept == ASSUME [Next]_vars PROVE UNCHANGED inputs
BY DEF Next, vars, inputs, Begin, CallStep, Connect, TearDown, Listen, StoreFlag,
       TakeHandle, DropClient, Configure, Dial, Login, MarkLogin, Publish, Swap,
       SpawnListener, ListenerStep, LoopTest, Receive, Exit, Die

\* One call at a time: a step of one call starts from a state where no other
\* call is under way, and ends in one.
LEMMA Alone ==
  ASSUME TypeOK, SerialInv, callers # "overlapping", NEW p \in Calls,
         Begin(p) \/ CallStep(p)
  PROVE  \A q \in Calls \ {p} :
           pc[q] \in {"idle", "ok", "err"} /\ pc'[q] = pc[q] /\ op'[q] = op[q]
<1> USE DEF TypeOK, Flags, Goto, Return, Set, inputs, callVars, listenerVars
<1>1. CASE Begin(p)
  BY <1>1 DEF Begin, MayStart, Running
<1>2. CASE CallStep(p)
  <2>1. p \in Running
    BY <1>2 DEF CallStep, Connect, TearDown, Listen, StoreFlag, TakeHandle,
                DropClient, Configure, Dial, Login, MarkLogin, Publish, Swap,
                SpawnListener, Running
  <2>2. \A q \in Calls \ {p} : pc[q] \in {"idle", "ok", "err"}
    BY <2>1 DEF SerialInv, Running
  <2>3. \A q \in Calls \ {p} : pc'[q] = pc[q] /\ op'[q] = op[q]
    BY <1>2 DEF CallStep, Connect, TearDown, Listen, StoreFlag, TakeHandle,
                DropClient, Configure, Dial, Login, MarkLogin, Publish, Swap,
                SpawnListener
  <2>4. QED
    BY <2>2, <2>3
<1>3. QED
  BY <1>1, <1>2

\* One call at a time: every step of it keeps what the flags say.
LEMMA SerialKept ==
  ASSUME TypeOK, OpOK, SpawnedOK, SpawnOnce, SerialInv, [Next]_vars
  PROVE  SerialInv'
<1> SUFFICES ASSUME callers # "overlapping" PROVE SerialInv'
  BY InputsKept DEF inputs, SerialInv
<1> USE NoneIsNoCall DEF TypeOK, Flags, Goto, Return, Set, inputs, callVars,
                         listenerVars
<1>1. ASSUME NEW p \in Calls, Begin(p) \/ CallStep(p) PROVE SerialInv'
  <2>1. \A q \in Calls \ {p} :
          pc[q] \in {"idle", "ok", "err"} /\ pc'[q] = pc[q] /\ op'[q] = op[q]
    BY <1>1, Alone
  <2>2. \A q \in Calls \ {p} :
          ~StoredConnected(q) /\ ~Spawning(q) /\ pc[q] # "connected"
    BY <2>1 DEF StoredConnected, Spawning
  <2>3. \A q \in Calls \ {p} :
          /\ ~StoredConnected(q)' /\ ~Spawning(q)' /\ pc'[q] # "connected"
          /\ SerialAt(q)'
    BY <2>1 DEF StoredConnected, StoredListening, StoredAll, Spawning, SerialAt
  <2>4. \A q, r \in Running' : q = r
    BY <2>1 DEF Running
  <2>5. SerialFlags /\ SerialListening /\ SerialAt(p)
    BY DEF SerialInv
  <2>6. CASE Begin(p)
    <3>1. SerialFlags'
      BY <2>6, <2>2, <2>3, <2>5 DEF Begin, SerialFlags, SerialAt, OpOK,
         StoredConnected, StoredListening, StoredAll
    <3>2. SerialListening'
      BY <2>6, <2>2, <2>3, <2>5 DEF Begin, SerialListening, SerialAt, OpOK, SpawnedOK,
         SpawnOnce, Live, Spawning, StoredConnected, StoredListening
    <3>3. SerialAt(p)'
      BY <2>6, <2>2, <2>5 DEF Begin, SerialFlags, SerialAt, OpOK,
         StoredConnected, StoredListening, StoredAll
    <3>4. QED
      BY <2>3, <2>4, <3>1, <3>2, <3>3 DEF SerialInv
  <2>7. CASE StoreFlag(p)
    <3>1. op[p] \in {"connect", "disconnect"}
      BY <2>7 DEF StoreFlag, OpOK
    <3>2. CASE pc[p] = "stop_requested"
      <4>1. /\ pc' = [pc EXCEPT ![p] = "connected"]
            /\ flag' = [flag EXCEPT !["stop_requested"] = op[p] = "disconnect"]
            /\ UNCHANGED <<op, client, listener, aborted, credentials>>
        BY <2>7, <3>2 DEF StoreFlag, NextStore
      <4>2. SerialFlags'
        BY <4>1, <3>2, <2>2, <2>3, <2>5 DEF SerialFlags, SerialAt, StoredConnected
      <4>3. SerialListening'
        BY <4>1, <3>2, <2>2, <2>3, <2>5 DEF SerialListening, Live, Spawning
      <4>4. SerialAt(p)'
        BY <4>1, <3>1, <3>2, <2>5 DEF SerialAt, StoredConnected, StoredListening,
           StoredAll
      <4>5. QED
        BY <2>3, <2>4, <4>2, <4>3, <4>4 DEF SerialInv
    <3>3. CASE pc[p] # "stop_requested"
      <4>1. /\ pc' = [pc EXCEPT ![p] = NextStore[pc[p]]]
            /\ flag' = [flag EXCEPT ![pc[p]] = FALSE]
            /\ UNCHANGED <<op, client, listener, aborted, credentials>>
        BY <2>7, <3>3 DEF StoreFlag
      <4>2. pc[p] \in {"connected", "listening", "logged_in"}
        BY <2>7, <3>3 DEF StoreFlag
      <4>3. SerialFlags' /\ SerialAt(p)'
        BY <4>1, <4>2, <3>1, <2>2, <2>3, <2>5
           DEF NextStore, SerialFlags, SerialAt, StoredConnected, StoredListening,
               StoredAll
      <4>4. SerialListening'
        BY <4>1, <4>2, <2>2, <2>3, <2>5 DEF SerialListening, Live, Spawning,
           NextStore
      <4>5. QED
        BY <2>3, <2>4, <4>3, <4>4 DEF SerialInv
    <3>4. QED
      BY <3>2, <3>3
  <2>8. CASE TakeHandle(p)
    <3>1. SerialFlags'
      BY <2>8, <2>2, <2>3, <2>5 DEF TakeHandle, SerialFlags, SerialAt, OpOK,
         StoredConnected, StoredListening, StoredAll
    <3>2. SerialListening'
      BY <2>8, <2>2, <2>3, <2>5
         DEF TakeHandle, SerialListening, SerialAt, OpOK, SpawnedOK,
         SpawnOnce, Live, Spawning, StoredConnected, StoredListening
    <3>3. SerialAt(p)'
      BY <2>8, <2>2, <2>5 DEF TakeHandle, SerialFlags, SerialAt, OpOK,
         StoredConnected, StoredListening, StoredAll
    <3>4. QED
      BY <2>3, <2>4, <3>1, <3>2, <3>3 DEF SerialInv
  <2>9. CASE DropClient(p)
    <3>1. SerialFlags'
      BY <2>9, <2>2, <2>3, <2>5 DEF DropClient, SerialFlags, SerialAt, OpOK,
         StoredConnected, StoredListening, StoredAll
    <3>2. SerialListening'
      BY <2>9, <2>2, <2>3, <2>5
         DEF DropClient, SerialListening, SerialAt, OpOK, SpawnedOK,
         SpawnOnce, Live, Spawning, StoredConnected, StoredListening
    <3>3. SerialAt(p)'
      BY <2>9, <2>2, <2>5 DEF DropClient, SerialFlags, SerialAt, OpOK,
         StoredConnected, StoredListening, StoredAll
    <3>4. QED
      BY <2>3, <2>4, <3>1, <3>2, <3>3 DEF SerialInv
  <2>10. CASE Configure(p)
    <3>1. SerialFlags'
      BY <2>10, <2>2, <2>3, <2>5 DEF Configure, SerialFlags, SerialAt, OpOK,
         StoredConnected, StoredListening, StoredAll
    <3>2. SerialListening'
      BY <2>10, <2>2, <2>3, <2>5
         DEF Configure, SerialListening, SerialAt, OpOK, SpawnedOK,
         SpawnOnce, Live, Spawning, StoredConnected, StoredListening
    <3>3. SerialAt(p)'
      BY <2>10, <2>2, <2>5 DEF Configure, SerialFlags, SerialAt, OpOK,
         StoredConnected, StoredListening, StoredAll
    <3>4. QED
      BY <2>3, <2>4, <3>1, <3>2, <3>3 DEF SerialInv
  <2>11. CASE Dial(p)
    <3>1. SerialFlags'
      BY <2>11, <2>2, <2>3, <2>5 DEF Dial, SerialFlags, SerialAt, OpOK,
         StoredConnected, StoredListening, StoredAll
    <3>2. SerialListening'
      BY <2>11, <2>2, <2>3, <2>5 DEF Dial, SerialListening, SerialAt, OpOK, SpawnedOK,
         SpawnOnce, Live, Spawning, StoredConnected, StoredListening
    <3>3. SerialAt(p)'
      BY <2>11, <2>2, <2>5 DEF Dial, SerialFlags, SerialAt, OpOK,
         StoredConnected, StoredListening, StoredAll
    <3>4. QED
      BY <2>3, <2>4, <3>1, <3>2, <3>3 DEF SerialInv
  <2>12. CASE Login(p)
    <3>1. SerialFlags'
      BY <2>12, <2>2, <2>3, <2>5 DEF Login, SerialFlags, SerialAt, OpOK,
         StoredConnected, StoredListening, StoredAll
    <3>2. SerialListening'
      BY <2>12, <2>2, <2>3, <2>5 DEF Login, SerialListening, SerialAt, OpOK, SpawnedOK,
         SpawnOnce, Live, Spawning, StoredConnected, StoredListening
    <3>3. SerialAt(p)'
      BY <2>12, <2>2, <2>5 DEF Login, SerialFlags, SerialAt, OpOK,
         StoredConnected, StoredListening, StoredAll
    <3>4. QED
      BY <2>3, <2>4, <3>1, <3>2, <3>3 DEF SerialInv
  <2>13. CASE MarkLogin(p)
    <3>1. SerialFlags'
      BY <2>13, <2>2, <2>3, <2>5 DEF MarkLogin, SerialFlags, SerialAt, OpOK,
         StoredConnected, StoredListening, StoredAll
    <3>2. SerialListening'
      BY <2>13, <2>2, <2>3, <2>5
         DEF MarkLogin, SerialListening, SerialAt, OpOK, SpawnedOK,
         SpawnOnce, Live, Spawning, StoredConnected, StoredListening
    <3>3. SerialAt(p)'
      BY <2>13, <2>2, <2>5 DEF MarkLogin, SerialFlags, SerialAt, OpOK,
         StoredConnected, StoredListening, StoredAll
    <3>4. QED
      BY <2>3, <2>4, <3>1, <3>2, <3>3 DEF SerialInv
  <2>14. CASE Publish(p)
    <3>1. SerialFlags'
      BY <2>14, <2>2, <2>3, <2>5 DEF Publish, SerialFlags, SerialAt, OpOK,
         StoredConnected, StoredListening, StoredAll
    <3>2. SerialListening'
      BY <2>14, <2>2, <2>3, <2>5
         DEF Publish, SerialListening, SerialAt, OpOK, SpawnedOK,
         SpawnOnce, Live, Spawning, StoredConnected, StoredListening
    <3>3. SerialAt(p)'
      BY <2>14, <2>2, <2>5 DEF Publish, SerialFlags, SerialAt, OpOK,
         StoredConnected, StoredListening, StoredAll
    <3>4. QED
      BY <2>3, <2>4, <3>1, <3>2, <3>3 DEF SerialInv
  <2>15. CASE Swap(p)
    <3>1. SerialFlags'
      BY <2>15, <2>2, <2>3, <2>5 DEF Swap, SerialFlags, SerialAt, OpOK,
         StoredConnected, StoredListening, StoredAll
    <3>2. SerialListening'
      BY <2>15, <2>2, <2>3, <2>5 DEF Swap, SerialListening, SerialAt, OpOK, SpawnedOK,
         SpawnOnce, Live, Spawning, StoredConnected, StoredListening
    <3>3. SerialAt(p)'
      BY <2>15, <2>2, <2>5 DEF Swap, SerialFlags, SerialAt, OpOK,
         StoredConnected, StoredListening, StoredAll
    <3>4. QED
      BY <2>3, <2>4, <3>1, <3>2, <3>3 DEF SerialInv
  <2>16. CASE SpawnListener(p)
    <3>1. SerialFlags'
      BY <2>16, <2>2, <2>3, <2>5 DEF SpawnListener, SerialFlags, SerialAt, OpOK,
         StoredConnected, StoredListening, StoredAll
    <3>2. SerialListening'
      BY <2>16, <2>2, <2>3, <2>5
         DEF SpawnListener, SerialListening, SerialAt, OpOK, SpawnedOK,
         SpawnOnce, Live, Spawning, StoredConnected, StoredListening
    <3>3. SerialAt(p)'
      BY <2>16, <2>2, <2>5 DEF SpawnListener, SerialFlags, SerialAt, OpOK,
         StoredConnected, StoredListening, StoredAll
    <3>4. QED
      BY <2>3, <2>4, <3>1, <3>2, <3>3 DEF SerialInv
  <2>17. QED
    BY <1>1, <2>6, <2>7, <2>8, <2>9, <2>10, <2>11, <2>12, <2>13, <2>14, <2>15, <2>16
       DEF CallStep, Connect, TearDown, Listen
<1>2. ASSUME NEW l \in Calls, ListenerStep(l) \/ Die(l) PROVE SerialInv'
  <2>1. UNCHANGED <<pc, op, client, credentials>>
    BY <1>2 DEF ListenerStep, LoopTest, Receive, Exit, Die
  <2>2. \A f \in Flags \ {"listening"} : flag'[f] = flag[f]
    BY <1>2 DEF ListenerStep, LoopTest, Receive, Exit, Die
  <2>3. SerialFlags' /\ \A p \in Calls : SerialAt(p)'
    <3>1. flag'["listening"] => flag["listening"]
      BY <1>2 DEF ListenerStep, LoopTest, Receive, Exit, Die
    <3>2. QED
      BY <2>1, <2>2, <3>1 DEF SerialInv, SerialFlags, SerialAt, StoredConnected,
         StoredListening, StoredAll
  <2>4. SerialListening'
    BY <1>2, <2>1 DEF SerialInv, SerialListening, Spawning, ListenerStep,
       LoopTest, Receive, Exit, Die, Live
  <2>5. QED
    BY <2>1, <2>3, <2>4 DEF SerialInv, Running
<1>3. CASE UNCHANGED vars
  BY <1>3 DEF vars, SerialInv, SerialFlags, SerialListening, SerialAt, Live,
              Running, StoredConnected, StoredListening, StoredAll, Spawning
<1>4. QED
  BY <1>1, <1>2, <1>3 DEF Next

\* Settled callers: every step keeps at most one listener that was not aborted.
LEMMA SettledKept ==
  ASSUME IInv, [Next]_vars
  PROVE  SettledInv'
<1> SUFFICES ASSUME callers = "settled" PROVE SettledInv'
  BY InputsKept DEF inputs, SettledInv
<1> USE NoneIsNoCall DEF IInv, TypeOK, Flags, Goto, Return, Set, inputs, callVars,
                         listenerVars
<1>1. ASSUME NEW p \in Calls, Begin(p) \/ CallStep(p) PROVE SettledInv'
  <2>1. \A q \in Calls \ {p} :
          pc[q] \in {"idle", "ok", "err"} /\ pc'[q] = pc[q] /\ op'[q] = op[q]
    BY <1>1, Alone
  <2>2. \A q \in Calls \ {p} :
          /\ ~StoredListening(q) /\ ~StoredListening(q)' /\ ~TookHandle(q)'
          /\ ~InListen(q)'
    BY <2>1 DEF StoredConnected, StoredListening, StoredAll, TookHandle, InListen,
                Spawning
  <2> USE DEF StoredConnected, StoredListening, StoredAll, TookHandle, InListen,
              Spawning
  <2>3. CASE Begin(p)
    BY <2>3, <2>2 DEF Begin, MayStart, SettledInv, SerialInv, SerialAt, OpOK, SpawnedOK,
       SpawnOnce, Live, Leaving
  <2>4. CASE StoreFlag(p)
    BY <2>4, <2>2
       DEF StoreFlag, NextStore, SettledInv, SerialInv, SerialAt, OpOK, SpawnedOK,
       SpawnOnce, Live, Leaving
  <2>5. CASE TakeHandle(p)
    BY <2>5, <2>2 DEF TakeHandle, SettledInv, SerialInv, SerialAt, OpOK, SpawnedOK,
       SpawnOnce, Live, Leaving
  <2>6. CASE DropClient(p)
    BY <2>6, <2>2 DEF DropClient, SettledInv, SerialInv, SerialAt, OpOK, SpawnedOK,
       SpawnOnce, Live, Leaving
  <2>7. CASE Configure(p)
    BY <2>7, <2>2 DEF Configure, SettledInv, SerialInv, SerialAt, OpOK, SpawnedOK,
       SpawnOnce, Live, Leaving
  <2>8. CASE Dial(p)
    BY <2>8, <2>2 DEF Dial, SettledInv, SerialInv, SerialAt, OpOK, SpawnedOK,
       SpawnOnce, Live, Leaving
  <2>9. CASE Login(p)
    BY <2>9, <2>2 DEF Login, SettledInv, SerialInv, SerialAt, OpOK, SpawnedOK,
       SpawnOnce, Live, Leaving
  <2>10. CASE MarkLogin(p)
    BY <2>10, <2>2 DEF MarkLogin, SettledInv, SerialInv, SerialAt, OpOK, SpawnedOK,
       SpawnOnce, Live, Leaving
  <2>11. CASE Publish(p)
    BY <2>11, <2>2 DEF Publish, SettledInv, SerialInv, SerialAt, OpOK, SpawnedOK,
       SpawnOnce, Live, Leaving
  <2>12. CASE Swap(p)
    BY <2>12, <2>2 DEF Swap, SettledInv, SerialInv, SerialAt, OpOK, SpawnedOK,
       SpawnOnce, Live, Leaving
  <2>13. CASE SpawnListener(p)
    BY <2>13, <2>2 DEF SpawnListener, SettledInv, SerialInv, SerialAt, OpOK, SpawnedOK,
       SpawnOnce, Live, Leaving
  <2>14. QED
    BY <1>1, <2>3, <2>4, <2>5, <2>6, <2>7, <2>8, <2>9, <2>10, <2>11, <2>12, <2>13
       DEF CallStep, Connect, TearDown, Listen
<1>2. ASSUME NEW l \in Calls, ListenerStep(l) \/ Die(l) PROVE SettledInv'
  <2>1. UNCHANGED <<pc, op, handle, aborted, callers>> /\ flag'["connected"] = flag["connected"]
    BY <1>2 DEF ListenerStep, LoopTest, Receive, Exit, Die
  <2>2. CASE Exit(l)
    BY <2>1, <2>2 DEF Exit, SettledInv, Live, StoredConnected, StoredListening,
       StoredAll, TookHandle, InListen, Spawning
  <2>3. CASE LoopTest(l) \/ Receive(l) \/ Die(l)
    BY <2>1, <2>3 DEF LoopTest, Receive, Die, SettledInv, Live, StoredConnected,
       StoredListening, StoredAll, TookHandle, InListen, Spawning
  <2>4. QED
    BY <1>2, <2>2, <2>3 DEF ListenerStep
<1>3. CASE UNCHANGED vars
  BY <1>3 DEF vars, SettledInv, Live, StoredConnected, StoredListening,
              StoredAll, TookHandle, InListen, Spawning
<1>4. QED
  BY <1>1, <1>2, <1>3 DEF Next

\* The inductive invariant holds for all constants.
LEMMA Inductive == Spec => []IInv
<1>1. Init => IInv
  <2> SUFFICES ASSUME Init PROVE IInv
    OBVIOUS
  <2> USE NoneIsNoCall DEF Init
  <2>1. TypeOK
    BY DEF TypeOK, Disciplines, Flags
  <2>2. OpOK /\ SpawnedOK /\ SpawnOnce
    BY DEF OpOK, SpawnedOK, SpawnOnce, Flags
  <2>3. SerialInv
    BY DEF SerialInv, SerialFlags, SerialListening, SerialAt, Running, Flags,
           StoredConnected, StoredListening, StoredAll
  <2>4. SettledInv
    BY DEF SettledInv, Live, StoredConnected, StoredListening, StoredAll,
           TookHandle, InListen, Spawning
  <2>5. QED
    BY <2>1, <2>2, <2>3, <2>4 DEF IInv
<1>2. TypeOK' /\ IInv /\ [Next]_vars => IInv'
  BY CallsKept, SerialKept, SettledKept DEF IInv
<1>3. QED
  BY <1>1, <1>2, TypeCorrect, PTL DEF Spec

\* Between the calls of one caller at a time the flags say what the backend is,
\* for any number of calls: "connected" needs an open client, "listening" a
\* listener that is alive and was not aborted.
THEOREM FlagsAreHonest == Spec => []FlagsHonest
<1>1. IInv => FlagsHonest
  BY DEF IInv, FlagsHonest, SerialInv, SerialFlags, SerialListening, Quiet,
         Running, StoredConnected, Spawning, Flags, TypeOK, IsLoggedIn
<1>2. QED
  BY <1>1, Inductive, PTL

-----------------------------------------------------------------------------
\* The listener of the session: the one whose handle is stored, while it lives
\* and was not aborted.
LEMMA MappedListener ==
  ASSUME IInv, callers = "settled"
  PROVE  (IF Live \ aborted = {} THEN None
          ELSE IF Live \ aborted = {handle} THEN handle ELSE Several)
           = (IF Live \ aborted = {} THEN None ELSE handle)
BY DEF IInv, SettledInv

\* A step of the backend with settled callers is one of a ListenSession, or
\* none: the last store of connect opens it, the store of FALSE closes it, the
\* spawn starts its listener, and abort() or the listener's last step ends it.
LEMMA SessionStep ==
  ASSUME IInv, IInv', [Next]_vars
  PROVE  [Session!Next]_(Session!vars)
<1>1. CASE callers # "settled"
  <2>1. callers' # "settled"
    BY <1>1, InputsKept DEF inputs
  <2>2. QED
    BY <1>1, <2>1 DEF Session!vars
<1>2. CASE callers = "settled"
  <2> DEFINE Own == Live \ aborted
             Mapped == IF Own = {} THEN None ELSE handle
  <2>1. callers' = "settled"
    BY <1>2, InputsKept DEF inputs
  <2>2. Session!vars = <<flag["connected"], Mapped>>
    BY <1>2, MappedListener DEF Session!vars, IInv, TypeOK, Flags
  <2>3. Session!vars' = <<flag'["connected"], Mapped'>>
    <3>1. (IF Own' = {} THEN None
           ELSE IF Own' = {handle'} THEN handle' ELSE Several) = Mapped'
      BY <2>1 DEF IInv, SettledInv
    <3>2. QED
      BY <2>1, <3>1 DEF Session!vars, IInv, TypeOK, Flags
  <2> DEFINE Stutter == flag'["connected"] = flag["connected"] /\ Mapped' = Mapped
             Up == ~flag["connected"] /\ flag'["connected"] /\ Own = {} /\ Own' = {}
             Down == flag["connected"] /\ ~flag'["connected"] /\ Mapped' = Mapped
             Start == /\ flag["connected"] /\ flag'["connected"]
                      /\ Own = {} /\ Own' # {} /\ handle' \in Calls
             End == /\ flag'["connected"] = flag["connected"]
                    /\ Own # {} /\ Own' = {}
  <2> USE NoneIsNoCall DEF IInv, TypeOK, Flags, Set, listenerVars
  <2>4. Own # {} => handle \in Calls
    BY <1>2 DEF SettledInv, Live
  <2>5. ASSUME NEW p \in Calls, Begin(p) PROVE Stutter
    BY <2>5 DEF Begin, Live
  <2>6. ASSUME NEW p \in Calls, StoreFlag(p) PROVE Stutter \/ Down
    <3>1. UNCHANGED <<handle, aborted, listener>>
      BY <2>6 DEF StoreFlag
    <3>2. pc[p] = "connected" => ~flag'["connected"]
      BY <2>6 DEF StoreFlag
    <3>3. pc[p] # "connected" => flag'["connected"] = flag["connected"]
      BY <2>6 DEF StoreFlag
    <3>4. Mapped' = Mapped
      BY <3>1 DEF Live
    <3>5. QED
      BY <3>2, <3>3, <3>4
  <2>7. ASSUME NEW p \in Calls, TakeHandle(p) PROVE Stutter \/ End
    <3>1. Own' = {} /\ flag'["connected"] = flag["connected"]
      BY <1>2, <2>7 DEF TakeHandle, SettledInv, Live
    <3>2. QED
      BY <3>1
  <2>8. ASSUME NEW p \in Calls, DropClient(p) PROVE Stutter
    BY <2>8 DEF DropClient, Live
  <2>9. ASSUME NEW p \in Calls, Configure(p) \/ Dial(p) \/ Login(p) PROVE Stutter
    BY <2>9 DEF Configure, Dial, Login, Live
  <2>10. ASSUME NEW p \in Calls, MarkLogin(p) PROVE Stutter
    BY <2>10 DEF MarkLogin, Live
  <2>11. ASSUME NEW p \in Calls, Publish(p) PROVE Up
    BY <1>2, <2>11 DEF Publish, SerialInv, SettledInv, SerialAt, StoredConnected,
       StoredListening, StoredAll, TookHandle, Live
  <2>12. ASSUME NEW p \in Calls, Swap(p) PROVE Stutter
    BY <2>12 DEF Swap, Live
  <2>13. ASSUME NEW p \in Calls, SpawnListener(p) PROVE Start
    BY <1>2, <2>13 DEF SpawnListener, SettledInv, SpawnedOK, SpawnOnce, InListen,
       Spawning, Live
  <2>14. ASSUME NEW l \in Calls, ListenerStep(l) PROVE Stutter \/ End
    <3>1. Own' \subseteq Own /\ UNCHANGED handle
      BY <2>14 DEF ListenerStep, LoopTest, Receive, Exit, Live
    <3>2. Own \subseteq {handle}
      BY <1>2 DEF SettledInv
    <3>3. flag'["connected"] = flag["connected"]
      BY <2>14 DEF ListenerStep, LoopTest, Receive, Exit
    <3>4. QED
      BY <3>1, <3>2, <3>3
  <2>15. ASSUME NEW l \in Calls, Die(l) PROVE Stutter
    <3>1. UNCHANGED <<flag, handle>> /\ Own' = Own
      BY <2>15 DEF Die, Live
    <3>2. QED
      BY <3>1
  <2>16. ASSUME UNCHANGED vars PROVE Stutter
    BY <2>16 DEF vars, Live
  <2>17. Stutter \/ Up \/ Down \/ Start \/ End
    BY <2>5, <2>6, <2>7, <2>8, <2>9, <2>10, <2>11, <2>12, <2>13, <2>14, <2>15,
       <2>16 DEF Next, CallStep, Connect, TearDown, Listen
  <2>18. QED
    BY <1>2, <2>1, <2>2, <2>3, <2>4, <2>17, MappedListener
       DEF Session!vars, Session!Next, Session!GoUp, Session!GoDown,
           Session!StartListener, Session!EndListener
<1>3. QED
  BY <1>1, <1>2

\* QQClientBackend implements ListenSession for callers that make one call at a
\* time and none while an aborted or leaving listener is still alive: a backend
\* is up or down, one listener at most feeds events, it starts only while the
\* backend is up, and no connection inherits the listener of an older one.
THEOREM Refinement == Spec => ImplementsSession
<1>1. Init => Session!Init
  BY NoneIsNoCall DEF Init, Session!Init, Live, Flags
<1>2. IInv /\ IInv' /\ [Next]_vars => [Session!Next]_(Session!vars)
  BY SessionStep
<1>3. QED
  BY <1>1, <1>2, Inductive, PTL DEF Spec, ImplementsSession, Session!Spec

-----------------------------------------------------------------------------
\* The main task.


Mode == config.protocol_mode
Loading == {"file", "env", "args", "build"}

-----------------------------------------------------------------------------
\* What a layer makes of a setting that is `below` without it, and the setting
\* once each layer has been applied.
Over(layer, k, below) ==
  IF k \in DOMAIN patches[layer] THEN patches[layer][k] ELSE below
WithFile(k) == Over("file", k, Default[k])
WithEnv(k) == Over("env", k, WithFile(k))
WithArgs(k) == Over("args", k, WithEnv(k))

PatchesOK ==
  \A layer \in {"file", "env", "args"} :
    /\ DOMAIN patches[layer] \subseteq Keys
    /\ \A k \in DOMAIN patches[layer] : patches[layer][k] \in Values[k]

ConfigOK ==
  /\ DOMAIN config = Keys
  /\ \A k \in Keys :
       /\ at = "file" => config[k] = Default[k]
       /\ at = "env" => config[k] = WithFile(k)
       /\ at = "args" => config[k] = WithEnv(k)
       /\ at \notin {"file", "env", "args", "failed"} => config[k] = WithArgs(k)

-----------------------------------------------------------------------------
\* What either backend has, in the form both use.
Shape ==
  /\ callers = "serial"
  /\ flag \in [Flags -> BOOLEAN]
  /\ DOMAIN pc = Calls /\ DOMAIN op = Calls /\ DOMAIN listener = Calls

NoListener == \A l \in Calls : listener[l] = "none"

\* The backend nobody has called.
Untouched ==
  /\ \A f \in Flags : ~flag[f]
  /\ \A p \in Calls : pc[p] = "idle"
  /\ NoListener
  /\ handle = None /\ aborted = {} /\ client = "Disconnected"

\* The main task has no call under way, and made no listener.
Idle == NoListener /\ \A p \in Calls : pc[p] \in {"idle", "ok", "err"}

\* connect, over a new backend: what call 1 has done by where it stands.
QQConnect ==
  /\ credentials /\ NoListener /\ handle = None /\ aborted = {}
  /\ pc[2] = "idle" /\ pc[3] = "idle"
  /\ pc[1] \in Flags \cup {"idle", "lock", "drop_client", "configure", "dial",
                           "login", "mark_login", "publish", "ok", "err"}
  /\ pc[1] # "idle" => op[1] = "connect"
  /\ ~flag["stop_requested"] /\ ~flag["listening"]
  /\ pc[1] \in {"mark_login", "publish", "ok"} => client = "LoggedIn"
  /\ pc[1] \in {"publish", "ok"} => flag["logged_in"]
  /\ pc[1] = "ok" => flag["connected"]

\* A connection that is up.
QQUp ==
  /\ pc[1] = "ok"
  /\ flag["connected"] /\ flag["logged_in"] /\ ~flag["stop_requested"]
  /\ client = "LoggedIn" /\ aborted = {}
  /\ listener[1] = "none" /\ listener[3] = "none"

\* listen, over it: call 2 finds the place free.
QQListen ==
  /\ QQUp /\ pc[3] = "idle"
  /\ pc[2] \in {"idle", "swap", "lock", "ok"}
  /\ pc[2] # "idle" => op[2] = "listen"
  /\ pc[2] \in {"idle", "swap"} => ~flag["listening"]
  /\ pc[2] # "ok" => listener[2] = "none"
  /\ pc[2] = "ok" => handle = 2

\* disconnect: call 3 resets the flags, aborts the listener, drops the client.
QQClose ==
  /\ pc[1] = "ok" /\ pc[2] = "ok"
  /\ listener[1] = "none" /\ listener[3] = "none"
  /\ pc[3] \in Flags \cup {"idle", "lock", "drop_client", "ok"}
  /\ pc[3] # "idle" => op[3] = "disconnect"
  /\ pc[3] \in {"listening", "logged_in", "lock", "drop_client", "ok"} =>
       ~flag["connected"]
  /\ pc[3] \in {"lock", "drop_client", "ok"} => ~flag["logged_in"]
  /\ IF pc[3] \in {"drop_client", "ok"} THEN 2 \in aborted ELSE handle = 2
  /\ pc[3] = "ok" => client = "Disconnected"

QQOK ==
  Mode = "qq" =>
    /\ at = "connect" => QQConnect
    /\ at = "start" => QQConnect /\ pc[1] = "ok"
    /\ at = "listen" => QQListen
    /\ at \in {"bind", "serving"} => QQListen /\ pc[2] = "ok"
    /\ at = "disconnect" => QQClose
    /\ at = "stopped" => QQClose /\ pc[3] = "ok"

-----------------------------------------------------------------------------
\* The same over the other backend, which has no login, mutex or abort.
OneBotConnect ==
  /\ NoListener
  /\ pc[2] = "idle" /\ pc[3] = "idle"
  /\ pc[1] \in {"idle", "get_status", "connected", "stop_requested", "ok", "err"}
  /\ pc[1] # "idle" => op[1] = "connect"
  /\ ~flag["stop_requested"] /\ ~flag["listening"]
  /\ pc[1] \in {"stop_requested", "ok"} => flag["connected"]

OneBotListen ==
  /\ pc[1] = "ok" /\ pc[3] = "idle"
  /\ pc[2] \in {"idle", "swap", "spawn", "ok"}
  /\ flag["connected"] /\ ~flag["stop_requested"]
  /\ pc[2] \in {"idle", "swap"} => ~flag["listening"]
  /\ listener[1] = "none" /\ listener[3] = "none"
  /\ IF pc[2] = "ok" THEN listener[2] \in {"looping", "polling"}
                     ELSE listener[2] = "none"

OneBotClose ==
  /\ pc[1] = "ok" /\ pc[2] = "ok"
  /\ pc[3] \in {"idle", "connected", "stop_requested", "clear", "ok"}
  /\ pc[3] # "idle" => op[3] = "disconnect"
  /\ listener[1] = "none" /\ listener[3] = "none"
  /\ pc[3] \in {"stop_requested", "clear", "ok"} => ~flag["connected"]
  /\ pc[3] \in {"clear", "ok"} => flag["stop_requested"]

OneBotOK ==
  Mode = "onebot" =>
    /\ ~flag["logged_in"] /\ aborted = {} /\ client = "Disconnected"
    /\ at = "connect" => OneBotConnect
    /\ at = "start" => OneBotConnect /\ pc[1] = "ok"
    /\ at = "listen" => OneBotListen
    /\ at \in {"bind", "serving"} => OneBotListen /\ pc[2] = "ok"
    /\ at = "disconnect" => OneBotClose
    /\ at = "stopped" => OneBotClose /\ pc[3] = "ok"

\* A failed program has made no listener and no call of it is under way.
BackendOK ==
  /\ Shape
  /\ at \in Loading \/ Mode = "mock" => Untouched
  /\ at = "failed" => Idle
  /\ QQOK /\ OneBotOK

MainOK ==
  /\ running <=> at \in {"listen", "bind", "serving"}
  /\ ~HasProtocol => at \notin {"connect", "listen", "disconnect"}

MainIInv == MainTypeOK /\ PatchesOK /\ ConfigOK /\ MainOK /\ BackendOK

-----------------------------------------------------------------------------
AnyValue == (UNION {Values[k] : k \in Keys}) \cup {None}

\* The default settings are some, or none.
LEMMA DefaultTyped ==
  /\ DOMAIN Default = Keys /\ Default = [k \in Keys |-> Default[k]]
  /\ \A k \in Keys : Default[k] \in Values[k] \cup {None}
<1>1. DOMAIN Default = Keys /\ Default = [k \in Keys |-> Default[k]]
  BY DEF Default, Keys
<1>2. Default["host"] = "ip" /\ Values["host"] = {"ip", "name"}
  BY DEF Default, Values
<1>3. /\ Default["protocol_mode"] = "mock"
      /\ Values["protocol_mode"] = {"mock", "qq", "onebot"}
  BY DEF Default, Values
<1>4. Default["protocol_endpoint"] = "" /\ Values["protocol_endpoint"] = {"", "tcp"}
  BY DEF Default, Values
<1>5. Default["qq_account"] = None /\ Default["qq_password"] = None
  BY DEF Default
<1>6. \A k \in Keys : Default[k] \in Values[k] \cup {None}
  BY <1>2, <1>3, <1>4, <1>5 DEF Keys
<1>7. QED
  BY <1>1, <1>6

LEMMA ValueTyped ==
  ASSUME NEW k \in Keys, NEW v \in Values[k] \cup {Default[k]}
  PROVE  v \in AnyValue
<1>1. v \in Values[k] \/ v = None
  BY DefaultTyped
<1>2. CASE v \in Values[k]
  <2>1. \E S \in {Values[j] : j \in Keys} : v \in S
    BY <1>2
  <2>2. v \in UNION {Values[j] : j \in Keys}
    BY <2>1
  <2>3. QED
    BY <2>2 DEF AnyValue
<1>3. QED
  BY <1>1, <1>2 DEF AnyValue

\* A patch sets known keys to their values.
LEMMA PatchMade ==
  ASSUME NEW keys, keys \subseteq Keys, NEW p \in Patches(keys)
  PROVE  DOMAIN p \subseteq Keys /\ \A k \in DOMAIN p : p[k] \in Values[k]
<1>1. PICK ks \in SUBSET keys :
        p \in {q \in [ks -> UNION {Values[k] : k \in ks}] : \A k \in ks : q[k] \in Values[k]}
  BY DEF Patches
<1>2. DOMAIN p = ks
  BY <1>1
<1>3. QED
  BY <1>1, <1>2

\* The settings have the values their layers can give them.
LEMMA LayersTyped ==
  ASSUME PatchesOK, NEW k \in Keys
  PROVE  /\ WithFile(k) \in Values[k] \cup {Default[k]}
         /\ WithEnv(k) \in Values[k] \cup {Default[k]}
         /\ WithArgs(k) \in Values[k] \cup {Default[k]}
BY DEF PatchesOK, WithFile, WithEnv, WithArgs, Over

\* The topmost layer that sets a key decides, however they were applied.
LEMMA TopmostIsLast ==
  ASSUME NEW k
  PROVE  Topmost(k) = WithArgs(k)
<1> DEFINE set == {i \in 1..Len(Layers) : k \in DOMAIN patches[Layers[i]]}
           top == CHOOSE i \in set : \A j \in set : j <= i
<1>1. /\ Len(Layers) = 3
      /\ Layers[1] = "file" /\ Layers[2] = "env" /\ Layers[3] = "args"
  BY DEF Layers
<1>2. /\ 3 \in set <=> k \in DOMAIN patches["args"]
      /\ 2 \in set <=> k \in DOMAIN patches["env"]
      /\ 1 \in set <=> k \in DOMAIN patches["file"]
      /\ set \subseteq {1, 2, 3}
  BY <1>1
<1>3. Topmost(k) = IF set = {} THEN Default[k] ELSE patches[Layers[top]][k]
  BY DEF Topmost
<1> HIDE DEF set
<1>4. \A i \in set : (\A j \in set : j <= i) => top = i
  <2>1. \A i, m \in set : (\A j \in set : j <= i) /\ (\A j \in set : j <= m) => i = m
    BY <1>2
  <2>2. QED
    BY <2>1
<1> HIDE DEF top
<1>5. CASE 3 \in set
  <2>1. top = 3
    BY <1>2, <1>4, <1>5
  <2>2. QED
    BY <1>1, <1>2, <1>3, <1>5, <2>1 DEF WithArgs, Over
<1>6. CASE 3 \notin set /\ 2 \in set
  <2>1. top = 2
    BY <1>2, <1>4, <1>6
  <2>2. QED
    BY <1>1, <1>2, <1>3, <1>6, <2>1 DEF WithArgs, WithEnv, Over
<1>7. CASE 3 \notin set /\ 2 \notin set /\ 1 \in set
  <2>1. top = 1
    BY <1>2, <1>4, <1>7
  <2>2. QED
    BY <1>1, <1>2, <1>3, <1>7, <2>1 DEF WithArgs, WithEnv, WithFile, Over
<1>8. CASE set = {}
  BY <1>2, <1>3, <1>8 DEF WithArgs, WithEnv, WithFile, Over
<1>9. QED
  BY <1>2, <1>5, <1>6, <1>7, <1>8

\* The settings are of the topmost layers once all were applied.
LEMMA Settings ==
  ASSUME ConfigOK, at \notin {"file", "env", "args", "failed"}, NEW k \in Keys
  PROVE  config[k] = Topmost(k)
BY TopmostIsLast DEF ConfigOK

-----------------------------------------------------------------------------
\* The calls are three, and none of them is None.
LEMMA ThreeCalls ==
  ASSUME MaxCalls = 3
  PROVE  Calls = {1, 2, 3} /\ None \notin {1, 2, 3}
BY QQAssumption DEF Calls

\* The program begins with nothing called.
LEMMA Begins ==
  ASSUME AppInit
  PROVE  MainIInv
<1>1. PICK f \in Patches(Settable.file), e \in Patches(Settable.env),
           a \in Patches(Settable.args) :
        patches = [file |-> f, env |-> e, args |-> a]
  BY DEF AppInit
<1>2. /\ Settable.file \subseteq Keys /\ Settable.env \subseteq Keys
      /\ Settable.args \subseteq Keys
  BY DEF Settable, Keys
<1>3. PatchesOK
  BY <1>1, <1>2, PatchMade DEF PatchesOK
<1>4. MainTypeOK /\ ConfigOK
  <2>1. config = Default /\ at = "file" /\ running = FALSE
    BY DEF AppInit
  <2>2. Default \in [Keys -> AnyValue]
    BY DefaultTyped, ValueTyped
  <2>3. QED
    BY <2>1, <2>2, DefaultTyped DEF MainTypeOK, ConfigOK, AnyValue
<1>5. MainOK /\ BackendOK
  BY
     DEF AppInit, Init, MainOK, BackendOK, HasProtocol, Mode, Default, Shape, Untouched,
         NoListener,
         Loading, QQOK, OneBotOK, Flags
<1>6. QED
  BY <1>3, <1>4, <1>5 DEF MainIInv

-----------------------------------------------------------------------------
\* A step that is none of the backend's keeps what is said of it.
LEMMA BackendStands ==
  ASSUME UNCHANGED vars
  PROVE  /\ Shape' = Shape /\ Untouched' = Untouched /\ Idle' = Idle
         /\ QQConnect' = QQConnect /\ QQListen' = QQListen /\ QQClose' = QQClose
         /\ OneBotConnect' = OneBotConnect /\ OneBotListen' = OneBotListen
         /\ OneBotClose' = OneBotClose
         /\ pc' = pc /\ flag' = flag /\ aborted' = aborted /\ client' = client
BY DEF vars, inputs, callVars, listenerVars, Shape, Untouched, Idle, NoListener,
       QQConnect, QQUp, QQListen, QQClose, OneBotConnect, OneBotListen, OneBotClose

\* A step after loading keeps what is said of the settings.
LEMMA SettingsStand ==
  ASSUME MainIInv, UNCHANGED <<patches, config>>, at \notin {"file", "env", "args", "failed"},
         running' \in BOOLEAN,
         at' \in {"connect", "start", "listen", "bind", "serving", "disconnect",
                  "failed", "stopped"}
  PROVE  MainTypeOK' /\ PatchesOK' /\ ConfigOK'
<1>1. \A k : WithArgs(k)' = WithArgs(k)
  BY DEF WithArgs, WithEnv, WithFile, Over
<1>2. PatchesOK' /\ ConfigOK'
  BY <1>1 DEF MainIInv, PatchesOK, ConfigOK
<1>3. MainTypeOK'
  BY DEF MainIInv, MainTypeOK
<1>4. QED
  BY <1>2, <1>3

\* A backend that nobody has called is as every part says.
LEMMA NothingCalled ==
  ASSUME MaxCalls = 3, Untouched
  PROVE  /\ Idle /\ ~flag["logged_in"] /\ aborted = {} /\ client = "Disconnected"
         /\ credentials => QQConnect
         /\ OneBotConnect
BY ThreeCalls DEF Untouched, Idle, QQConnect, OneBotConnect, NoListener, Flags

\* Loading a layer leaves the settings of that layer over the earlier ones.
LEMMA LayerKept ==
  ASSUME MaxCalls = 3, MainIInv, NEW i \in 1..Len(Layers), ApplyLayer(i)
  PROVE  MainIInv'
<1>1. at \in {"file", "env", "args"} /\ at = Layers[i] /\ UNCHANGED <<patches, running, vars>>
  BY DEF ApplyLayer, Layers
<1>2. Untouched /\ Untouched' /\ Shape' /\ Idle'
  BY <1>1, BackendStands, NothingCalled DEF MainIInv, BackendOK, Loading
<1>3. PatchesOK' /\ \A layer, k, below : Over(layer, k, below)' = Over(layer, k, below)
  BY <1>1 DEF MainIInv, PatchesOK, Over
<1>4. ASSUME at' = "failed", UNCHANGED config
      PROVE  MainIInv'
  <2>1. MainTypeOK' /\ ConfigOK'
    BY <1>1, <1>4 DEF MainIInv, MainTypeOK, ConfigOK
  <2>2. MainOK' /\ BackendOK'
    BY <1>1, <1>2, <1>4, NothingCalled
       DEF MainIInv, MainOK, BackendOK, Untouched, HasProtocol, Mode, QQOK, OneBotOK,
           Flags
  <2>3. QED
    BY <1>3, <2>1, <2>2 DEF MainIInv
<1>5. ASSUME Apply(patches[at]), MainGoto(IF i < Len(Layers) THEN Layers[i + 1] ELSE "build")
      PROVE  MainIInv'
  <2>1. config' = [k \in Keys |-> Over(at, k, config[k])]
    BY <1>5 DEF Apply, Over
  <2>2. \/ at = "file" /\ at' = "env"
        \/ at = "env" /\ at' = "args"
        \/ at = "args" /\ at' = "build"
    <3>1. /\ Len(Layers) = 3
          /\ Layers[1] = "file" /\ Layers[2] = "env" /\ Layers[3] = "args"
      BY DEF Layers
    <3>2. i \in {1, 2, 3}
      BY <3>1
    <3>3. i < Len(Layers) => at' = Layers[i + 1]
      BY <1>5 DEF MainGoto
    <3>4. ~(i < Len(Layers)) => at' = "build"
      BY <1>5 DEF MainGoto
    <3>5. CASE i = 1
      <4>1. i < Len(Layers) /\ i + 1 = 2
        BY <3>1, <3>5
      <4>2. QED
        BY <1>1, <3>1, <3>3, <3>5, <4>1
    <3>6. CASE i = 2
      <4>1. i < Len(Layers) /\ i + 1 = 3
        BY <3>1, <3>6
      <4>2. QED
        BY <1>1, <3>1, <3>3, <3>6, <4>1
    <3>7. CASE i = 3
      BY <1>1, <3>1, <3>4, <3>7
    <3>8. QED
      BY <3>2, <3>5, <3>6, <3>7
  <2>3. ConfigOK'
    BY <1>3, <2>1, <2>2 DEF MainIInv, ConfigOK, WithFile, WithEnv, WithArgs
  <2>4. \A k \in Keys : config'[k] \in Values[k] \cup {Default[k]}
    BY <1>1, <2>1 DEF MainIInv, PatchesOK, MainTypeOK, Over
  <2>5. config' \in [Keys -> AnyValue]
    BY <2>1, <2>4, ValueTyped
  <2>6. MainTypeOK'
    BY <1>1, <2>2, <2>4, <2>5 DEF MainIInv, MainTypeOK, AnyValue
  <2>7. MainOK' /\ BackendOK'
    BY <1>1, <1>2, <2>2
       DEF MainIInv, MainOK, BackendOK, Untouched, QQOK, OneBotOK, Flags
  <2>8. QED
    BY <1>3, <2>3, <2>6, <2>7 DEF MainIInv
<1>6. QED
  BY <1>4, <1>5 DEF ApplyLayer, MainGoto

\* Building the backend hands it complete credentials in qq mode.
LEMMA BuildKept ==
  ASSUME MaxCalls = 3, MainIInv, BuildBackend
  PROVE  MainIInv'
<1>1. /\ at = "build" /\ UNCHANGED <<patches, config, running>>
      /\ callers' = callers /\ flag' = flag /\ pc' = pc /\ op' = op
      /\ handle' = handle /\ listener' = listener /\ aborted' = aborted
      /\ client' = client
      /\ at' = IF ~HasProtocol THEN "start" ELSE IF Complete THEN "connect" ELSE "failed"
      /\ credentials' = (Mode = "qq" /\ HasCredentials)
  BY DEF BuildBackend, MainGoto, callVars, listenerVars, Mode
<1>2. Untouched /\ Untouched' /\ Shape'
  BY <1>1 DEF MainIInv, BackendOK, Loading, Shape, Untouched, NoListener
<1>3. MainTypeOK' /\ PatchesOK' /\ ConfigOK'
  BY <1>1, SettingsStand DEF MainIInv, MainTypeOK
<1>4. at' = "connect" /\ Mode = "qq" => credentials'
  BY <1>1 DEF Complete, Mode
<1>5. /\ Idle' /\ ~flag'["logged_in"] /\ aborted' = {} /\ client' = "Disconnected"
      /\ credentials' => QQConnect'
      /\ OneBotConnect'
  <2>1. Calls' = Calls
    BY DEF Calls
  <2>2. QED
    BY <1>2, ThreeCalls DEF Untouched, Idle, QQConnect, OneBotConnect, NoListener, Flags
<1>6. MainOK' /\ BackendOK'
  BY <1>1, <1>2, <1>4, <1>5
     DEF MainIInv, MainOK, BackendOK, QQOK, OneBotOK, HasProtocol, Mode
<1>7. QED
  BY <1>3, <1>6 DEF MainIInv

-----------------------------------------------------------------------------
\* The end of each call is the beginning of the next.
LEMMA StagesFollow ==
  ASSUME MaxCalls = 3
  PROVE  /\ QQConnect /\ pc[1] \in {"ok", "err"} => Idle
         /\ QQConnect /\ pc[1] = "ok" => QQListen
         /\ QQListen /\ pc[2] = "ok" => QQClose
         /\ OneBotConnect /\ pc[1] \in {"ok", "err"} => Idle
         /\ OneBotConnect /\ pc[1] = "ok" => OneBotListen
         /\ OneBotListen /\ pc[2] = "ok" => OneBotClose
BY ThreeCalls DEF Idle, NoListener, QQConnect, QQUp, QQListen, QQClose,
                  OneBotConnect, OneBotListen, OneBotClose

\* The calls of the main task, by number.
LEMMA Numbers ==
  /\ DOMAIN CallNumber = {"connect", "listen", "disconnect"}
  /\ CallNumber["connect"] = 1 /\ CallNumber["listen"] = 2 /\ CallNumber["disconnect"] = 3
BY DEF CallNumber

\* Where the main task goes between the calls.
LEMMA RunSteps ==
  ASSUME Connected \/ Run
  PROVE  /\ UNCHANGED <<patches, config, vars>>
         /\ \/ at = "connect" /\ pc[1] = "ok" /\ at' = "start" /\ running' = running
            \/ at = "connect" /\ at' = "failed" /\ pc[1] = "err" /\ running' = running
            \/ at = "start" /\ at' = "failed" /\ running' = FALSE
            \/ at = "start" /\ at' = "listen" /\ HasProtocol /\ running' = TRUE
            \/ at = "start" /\ at' = "bind" /\ ~HasProtocol /\ running' = TRUE
            \/ at = "listen" /\ at' = "bind" /\ pc[2] = "ok" /\ running' = TRUE
            \/ at = "listen" /\ at' = "failed" /\ pc[2] = "err" /\ running' = FALSE
            \/ at = "bind" /\ at' = "serving" /\ running' = running
            \/ /\ at \in {"bind", "serving"} /\ running' = FALSE
               /\ at' = IF HasProtocol THEN "disconnect" ELSE "stopped"
            \/ /\ at = "disconnect" /\ pc[3] \in {"ok", "err"} /\ at' = "stopped"
               /\ running' = running
<1>1. CASE Connected
  BY <1>1, Numbers DEF Connected, Answered, MainGoto
<1>2. CASE ParseAddr
  BY <1>2 DEF ParseAddr, MainGoto
<1>3. CASE Listening
  <2>1. /\ at = "listen" /\ pc[2] \in {"ok", "err"} /\ UNCHANGED <<patches, config, vars>>
        /\ running' = (pc[2] = "ok") /\ at' = IF running' THEN "bind" ELSE "failed"
    BY <1>3, Numbers DEF Listening, Answered, MainGoto
  <2>2. CASE pc[2] = "ok"
    BY <2>1, <2>2
  <2>3. CASE pc[2] = "err"
    BY <2>1, <2>3
  <2>4. QED
    BY <2>1, <2>2, <2>3
<1>4. CASE Bind
  BY <1>4 DEF Bind, MainGoto, TearDownNext
<1>5. CASE ServeEnds
  BY <1>5 DEF ServeEnds, MainGoto, TearDownNext
<1>6. CASE Disconnected
  BY <1>6, Numbers DEF Disconnected, MainGoto
<1>7. QED
  BY <1>1, <1>2, <1>3, <1>4, <1>5, <1>6 DEF Run

\* What the mode can be.
LEMMA Modes ==
  ASSUME MainTypeOK
  PROVE  Mode \in {"mock", "qq", "onebot"} /\ (HasProtocol <=> Mode # "mock")
<1>1. config["protocol_mode"] \in Values["protocol_mode"] \cup {Default["protocol_mode"]}
  BY DEF MainTypeOK, Keys
<1>2. QED
  BY <1>1 DEF Values, Default, Mode, HasProtocol

\* What the main task does between the calls is as the backend is by then.
LEMMA RunKept ==
  ASSUME MaxCalls = 3, MainIInv, Connected \/ Run
  PROVE  MainIInv'
<1>1. UNCHANGED <<patches, config, vars>> /\ running \in BOOLEAN
  BY RunSteps DEF MainIInv, MainTypeOK
<1>2. MainTypeOK' /\ PatchesOK' /\ ConfigOK'
  <2>1. /\ at \in {"connect", "start", "listen", "bind", "serving", "disconnect"}
        /\ at' \in {"start", "listen", "bind", "serving", "disconnect", "failed", "stopped"}
        /\ running' \in BOOLEAN
    BY <1>1, RunSteps
  <2>2. QED
    BY <1>1, <2>1, SettingsStand
<1>3. /\ Shape /\ QQOK /\ OneBotOK /\ MainOK
      /\ Mode = "mock" => Untouched
      /\ Mode \in {"mock", "qq", "onebot"} /\ (HasProtocol <=> Mode # "mock")
  BY Modes DEF MainIInv, BackendOK
<1>4. Mode' = Mode /\ (HasProtocol' <=> HasProtocol)
  BY <1>1 DEF Mode, HasProtocol
<1>5. MainOK'
  <2>1. running' <=> at' \in {"listen", "bind", "serving"}
    <3>1. running <=> at \in {"listen", "bind", "serving"}
      BY <1>3 DEF MainOK
    <3>2. CASE running' = FALSE
      <4>1. at' \in {"failed", "disconnect", "stopped", "start"}
        BY <1>1, <3>1, <3>2, RunSteps
      <4>2. QED
        BY <3>2, <4>1
    <3>3. CASE running' = TRUE
      <4>1. at' \in {"listen", "bind", "serving"}
        BY <1>1, <3>1, <3>3, RunSteps
      <4>2. QED
        BY <3>3, <4>1
    <3>4. QED
      BY <1>1, <3>2, <3>3, RunSteps
  <2>2. ~HasProtocol => at' \notin {"connect", "listen", "disconnect"}
    BY <1>3, RunSteps DEF MainOK
  <2>3. QED
    BY <1>4, <2>1, <2>2 DEF MainOK
<1>6. Mode = "mock" => Untouched /\ Idle
  BY <1>3, NothingCalled
<1>7. at' = "failed" => Idle
  <2>1. CASE at = "connect" /\ pc[1] = "err"
    BY <1>3, <1>6, <2>1, StagesFollow DEF QQOK, OneBotOK
  <2>2. CASE at = "start"
    BY <1>3, <1>6, <2>2, StagesFollow DEF QQOK, OneBotOK
  <2>3. CASE at = "listen" /\ pc[2] = "err"
    BY <1>3, <2>3 DEF MainOK, QQOK, OneBotOK, QQListen, OneBotListen
  <2>4. QED
    BY <2>1, <2>2, <2>3, RunSteps
<1>8. QQOK'
  <2>1. CASE Mode = "qq"
    <3>1. /\ at = "connect" => QQConnect
          /\ at = "start" => QQConnect /\ pc[1] = "ok"
          /\ at = "listen" => QQListen
          /\ at \in {"bind", "serving"} => QQListen /\ pc[2] = "ok"
          /\ at = "disconnect" => QQClose
      BY <1>3, <2>1 DEF QQOK
    <3>2. QQClose => pc[3] # "err"
      BY DEF QQClose, Flags
    <3>3. /\ at' = "start" => QQConnect /\ pc[1] = "ok"
          /\ at' = "listen" => QQListen
          /\ at' \in {"bind", "serving"} => QQListen /\ pc[2] = "ok"
          /\ at' = "disconnect" => QQClose
          /\ at' = "stopped" => QQClose /\ pc[3] = "ok"
          /\ at' # "connect"
      BY <1>3, <2>1, <3>1, <3>2, StagesFollow, RunSteps
    <3>4. QED
      BY <1>1, <3>3, BackendStands DEF QQOK
  <2>2. QED
    BY <1>4, <2>1 DEF QQOK
<1>9. OneBotOK'
  <2>1. CASE Mode = "onebot"
    <3>1. /\ ~flag["logged_in"] /\ aborted = {} /\ client = "Disconnected"
          /\ at = "connect" => OneBotConnect
          /\ at = "start" => OneBotConnect /\ pc[1] = "ok"
          /\ at = "listen" => OneBotListen
          /\ at \in {"bind", "serving"} => OneBotListen /\ pc[2] = "ok"
          /\ at = "disconnect" => OneBotClose
      BY <1>3, <2>1 DEF OneBotOK
    <3>2. OneBotClose => pc[3] # "err"
      BY DEF OneBotClose
    <3>3. /\ at' = "start" => OneBotConnect /\ pc[1] = "ok"
          /\ at' = "listen" => OneBotListen
          /\ at' \in {"bind", "serving"} => OneBotListen /\ pc[2] = "ok"
          /\ at' = "disconnect" => OneBotClose
          /\ at' = "stopped" => OneBotClose /\ pc[3] = "ok"
          /\ at' # "connect"
      BY <1>3, <2>1, <3>1, <3>2, StagesFollow, RunSteps
    <3>4. QED
      BY <1>1, <3>1, <3>3, BackendStands DEF OneBotOK
  <2>2. QED
    BY <1>4, <2>1 DEF OneBotOK
<1>10. Shape' /\ (at' = "failed" => Idle') /\ (Mode = "mock" => Untouched') /\ at' \notin Loading
  <2>1. at' \notin Loading
    BY RunSteps DEF Loading
  <2>2. QED
    BY <1>1, <1>3, <1>7, <2>1, BackendStands
<1>11. BackendOK'
  BY <1>4, <1>8, <1>9, <1>10 DEF BackendOK
<1>12. QED
  BY <1>2, <1>5, <1>11 DEF MainIInv

-----------------------------------------------------------------------------
\* A step of the backend leaves the settings and the main task as they are.
LEMMA MainStands ==
  ASSUME MainIInv, UNCHANGED mainVars
  PROVE  MainTypeOK' /\ PatchesOK' /\ ConfigOK' /\ MainOK' /\ Mode' = Mode /\ at' = at
<1>1. UNCHANGED <<patches, config, at, running>>
  BY DEF mainVars
<1>2. \A k : WithFile(k)' = WithFile(k) /\ WithEnv(k)' = WithEnv(k) /\ WithArgs(k)' = WithArgs(k)
  BY <1>1 DEF WithArgs, WithEnv, WithFile, Over
<1>3. PatchesOK' /\ ConfigOK'
  BY <1>1, <1>2 DEF MainIInv, PatchesOK, ConfigOK
<1>4. MainTypeOK' /\ MainOK' /\ Mode' = Mode
  BY <1>1 DEF MainIInv, MainTypeOK, MainOK, HasProtocol, Mode
<1>5. QED
  BY <1>1, <1>3, <1>4

\* What the start of a call does in either mode.
LEMMA CallBegins ==
  ASSUME MaxCalls = 3, MainIInv, Call
  PROVE  /\ UNCHANGED <<mainVars, callers, flag, listener, credentials, lock, handle,
                        aborted, client>>
         /\ at \in {"connect", "listen", "disconnect"} /\ Mode \in {"qq", "onebot"}
         /\ op' = [op EXCEPT ![CallNumber[at]] = at]
         /\ \E l \in {"stop_requested", "get_status", "connected", "swap", "err"} :
              /\ pc' = [pc EXCEPT ![CallNumber[at]] = l]
              /\ at = "connect" =>
                   l = IF Mode = "qq" THEN "stop_requested" ELSE "get_status"
              /\ at = "disconnect" =>
                   l = IF Mode = "qq" THEN "stop_requested" ELSE "connected"
              /\ at = "listen" => l = IF flag["connected"] THEN "swap" ELSE "err"
<1>1. /\ at \in {"connect", "listen", "disconnect"} /\ UNCHANGED mainVars
      /\ op'[CallNumber[at]] = at
  BY Numbers DEF Call
<1>2. Mode \in {"qq", "onebot"} /\ CallNumber[at] \in Calls
  BY <1>1, Modes, Numbers, ThreeCalls DEF MainIInv, MainOK
<1>3. PICK n \in Calls : n = CallNumber[at]
  BY <1>2
<1>4. DOMAIN op = Calls
  BY DEF MainIInv, BackendOK, Shape
<1>5. CASE Mode = "qq"
  <2>1. Begin(n)
    BY <1>3, <1>5 DEF Call, Mode
  <2>2. PICK o \in {"connect", "disconnect", "listen"} :
          /\ op' = [op EXCEPT ![n] = o]
          /\ Goto(n, IF o # "listen" THEN "stop_requested"
                     ELSE IF flag["connected"] THEN "swap" ELSE "err")
    BY <2>1 DEF Begin
  <2>3. o = at
    BY <1>1, <1>3, <1>4, <2>2
  <2>4. UNCHANGED <<callers, flag, listener, credentials, lock, handle, aborted,
  client>>
    BY <2>1 DEF Begin, inputs, listenerVars
  <2>5. QED
    BY <1>1, <1>3, <1>5, <2>2, <2>3, <2>4 DEF Goto
<1>6. CASE Mode = "onebot"
  <2>1. OneBot!Begin(n) /\ UNCHANGED qqVars
    BY <1>3, <1>6 DEF Call, Mode
  <2>2. PICK o \in {"connect", "disconnect", "listen"} :
          /\ op' = [op EXCEPT ![n] = o]
          /\ OneBot!Goto(n, CASE o = "connect"    -> "get_status"
                              [] o = "disconnect" -> "connected"
                              [] o = "listen"     -> IF flag["connected"] THEN "swap"
                                                                          ELSE "err")
    BY <2>1 DEF OneBot!Begin
  <2>3. o = at
    BY <1>1, <1>3, <1>4, <2>2
  <2>4. UNCHANGED <<callers, flag, listener, credentials, lock, handle, aborted,
  client>>
    BY <2>1 DEF OneBot!Begin, qqVars
  <2>5. QED
    BY <1>1, <1>3, <1>6, <2>2, <2>3, <2>4 DEF OneBot!Goto
<1>7. QED
  BY <1>2, <1>5, <1>6

\* A call that begins is at the beginning of its part.
LEMMA CallKept ==
  ASSUME MaxCalls = 3, MainIInv, Call
  PROVE  MainIInv'
<1>1. /\ UNCHANGED <<mainVars, callers, flag, listener, credentials, handle, aborted, client>>
      /\ at \in {"connect", "listen", "disconnect"} /\ Mode \in {"qq", "onebot"}
  BY CallBegins
<1>2. MainTypeOK' /\ PatchesOK' /\ ConfigOK' /\ MainOK' /\ Mode' = Mode /\ at' = at
  BY <1>1, MainStands
<1>3. Shape
  BY DEF MainIInv, BackendOK
<1>4. Shape'
  BY <1>1, <1>3, CallBegins DEF Shape, Calls
<1>5. ASSUME Mode = "qq", at = "connect" PROVE QQConnect'
  <2>1. /\ op' = [op EXCEPT ![1] = "connect"] /\ pc' = [pc EXCEPT ![1] = "stop_requested"]
        /\ QQConnect
    BY <1>5, CallBegins, Numbers DEF MainIInv, BackendOK, QQOK
  <2>2. /\ op'[1] = "connect" /\ pc'[1] = "stop_requested" /\ pc'[2] = pc[2] /\ pc'[3] = pc[3]
    BY <1>3, <2>1, ThreeCalls DEF Shape
  <2>3. QED
    BY <1>1, <2>1, <2>2, ThreeCalls DEF QQConnect, NoListener, Flags, Calls
<1>6. ASSUME Mode = "qq", at = "listen" PROVE QQListen'
  <2>1. QQListen /\ op' = [op EXCEPT ![2] = "listen"] /\ pc' = [pc EXCEPT ![2] = "swap"]
    BY <1>6, CallBegins, Numbers DEF MainIInv, BackendOK, QQOK, QQListen, QQUp
  <2>2. /\ op'[2] = "listen" /\ pc'[2] = "swap" /\ pc'[1] = pc[1] /\ pc'[3] = pc[3]
    BY <1>3, <2>1, ThreeCalls DEF Shape
  <2>3. pc[2] = "idle"
    BY <1>6, Numbers DEF Call, Begin, Mode
  <2>4. QED
    BY <1>1, <2>1, <2>2, <2>3 DEF QQListen, QQUp
<1>7. ASSUME Mode = "qq", at = "disconnect" PROVE QQClose'
  <2>1. /\ op' = [op EXCEPT ![3] = "disconnect"] /\ pc' = [pc EXCEPT ![3] = "stop_requested"]
        /\ QQClose
    BY <1>7, CallBegins, Numbers DEF MainIInv, BackendOK, QQOK
  <2>2. /\ op'[3] = "disconnect" /\ pc'[3] = "stop_requested" /\ pc'[1] = pc[1] /\ pc'[2] = pc[2]
    BY <1>3, <2>1, ThreeCalls DEF Shape
  <2>3. pc[3] = "idle"
    BY <1>7, Numbers DEF Call, Begin, Mode
  <2>4. QED
    BY <1>1, <2>1, <2>2, <2>3 DEF QQClose, Flags
<1>8. ASSUME Mode = "onebot", at = "connect" PROVE OneBotConnect'
  <2>1. /\ op' = [op EXCEPT ![1] = "connect"] /\ pc' = [pc EXCEPT ![1] = "get_status"]
        /\ OneBotConnect
    BY <1>8, CallBegins, Numbers DEF MainIInv, BackendOK, OneBotOK
  <2>2. /\ op'[1] = "connect" /\ pc'[1] = "get_status" /\ pc'[2] = pc[2] /\ pc'[3] = pc[3]
    BY <1>3, <2>1, ThreeCalls DEF Shape
  <2>3. QED
    BY <1>1, <2>1, <2>2, ThreeCalls DEF OneBotConnect, NoListener, Calls
<1>9. ASSUME Mode = "onebot", at = "listen" PROVE OneBotListen'
  <2>1. OneBotListen /\ pc' = [pc EXCEPT ![2] = "swap"]
    BY <1>9, CallBegins, Numbers DEF MainIInv, BackendOK, OneBotOK, OneBotListen
  <2>2. pc'[2] = "swap" /\ pc'[1] = pc[1] /\ pc'[3] = pc[3]
    BY <1>3, <2>1, ThreeCalls DEF Shape
  <2>3. pc[2] = "idle"
    BY <1>9, Numbers DEF Call, OneBot!Begin, Mode
  <2>4. QED
    BY <1>1, <2>1, <2>2, <2>3 DEF OneBotListen
<1>10. ASSUME Mode = "onebot", at = "disconnect" PROVE OneBotClose'
  <2>1. /\ op' = [op EXCEPT ![3] = "disconnect"] /\ pc' = [pc EXCEPT ![3] = "connected"]
        /\ OneBotClose
    BY <1>10, CallBegins, Numbers DEF MainIInv, BackendOK, OneBotOK
  <2>2. /\ op'[3] = "disconnect" /\ pc'[3] = "connected" /\ pc'[1] = pc[1] /\ pc'[2] = pc[2]
    BY <1>3, <2>1, ThreeCalls DEF Shape
  <2>3. QED
    BY <1>1, <2>1, <2>2 DEF OneBotClose
<1>11. QQOK'
  BY <1>1, <1>2, <1>5, <1>6, <1>7 DEF QQOK
<1>12. OneBotOK'
  <2>1. Mode = "onebot" => ~flag'["logged_in"] /\ aborted' = {} /\ client' = "Disconnected"
    BY <1>1 DEF MainIInv, BackendOK, OneBotOK
  <2>2. QED
    BY <1>1, <1>2, <1>8, <1>9, <1>10, <2>1 DEF OneBotOK
<1>13. BackendOK'
  BY <1>1, <1>2, <1>4, <1>11, <1>12 DEF BackendOK, Loading
<1>14. QED
  BY <1>2, <1>13 DEF MainIInv

-----------------------------------------------------------------------------
\* Nothing of the backend moves while no call and no listener is under way.
LEMMA IdleStands ==
  ASSUME Idle, NEW p \in Calls
  PROVE  /\ ~CallStep(p) /\ ~ListenerStep(p) /\ ~Die(p)
         /\ ~OneBot!CallStep(p) /\ ~OneBot!ListenerStep(p)
<1>1. pc[p] \in {"idle", "ok", "err"} /\ listener[p] = "none"
  BY DEF Idle, NoListener
<1>2. ~CallStep(p)
  BY <1>1 DEF CallStep, Connect, TearDown, Listen, StoreFlag, TakeHandle, DropClient,
     Configure, Dial, Login, MarkLogin, Publish, Swap, SpawnListener, Flags
<1>3. ~ListenerStep(p) /\ ~Die(p)
  BY <1>1 DEF ListenerStep, LoopTest, Receive, Exit, Die
<1>4. ~OneBot!CallStep(p)
  BY <1>1
     DEF OneBot!CallStep, OneBot!GetStatus, OneBot!StoreFlag, OneBot!ClearListening,
     OneBot!Swap, OneBot!SpawnListener, OneBot!Flags
<1>5. ~OneBot!ListenerStep(p)
  BY <1>1 DEF OneBot!ListenerStep, OneBot!LoopTest, OneBot!Poll, OneBot!Exit
<1>6. QED
  BY <1>2, <1>3, <1>4, <1>5

QQBackendStep(p) == CallStep(p) \/ ListenerStep(p) \/ Die(p)

\* What the stores of connect and of disconnect do.
LEMMA StoreSteps ==
  ASSUME Shape, NEW p \in Calls, StoreFlag(p)
  PROVE  /\ UNCHANGED <<callers, credentials, op, handle, listener, aborted, client>>
         /\ pc[p] \in Flags
         /\ op[p] = "connect" => flag' = [flag EXCEPT ![pc[p]] = FALSE]
         /\ pc[p] # "stop_requested" => flag' = [flag EXCEPT ![pc[p]] = FALSE]
         /\ pc[p] = "stop_requested" =>
              \E value \in BOOLEAN : flag' = [flag EXCEPT !["stop_requested"] = value]
         /\ \E l \in {"connected", "listening", "logged_in", "lock"} :
              /\ pc' = [pc EXCEPT ![p] = l]
              /\ pc[p] = "stop_requested" => l = "connected"
              /\ pc[p] = "connected" => l = "listening"
              /\ pc[p] = "listening" => l = "logged_in"
              /\ pc[p] = "logged_in" => l = "lock"
<1>1. /\ UNCHANGED <<callers, credentials, op, handle, listener, aborted, client>>
      /\ pc[p] \in Flags
      /\ flag' = [flag EXCEPT ![pc[p]] = (pc[p] = "stop_requested" /\ op[p] = "disconnect")]
      /\ pc' = [pc EXCEPT ![p] = NextStore[pc[p]]]
  BY DEF StoreFlag, inputs, listenerVars, Set, Goto
<1>2. /\ NextStore["stop_requested"] = "connected"
      /\ NextStore["connected"] = "listening"
      /\ NextStore["listening"] = "logged_in"
      /\ NextStore["logged_in"] = "lock"
  BY DEF NextStore
<1>3. \E l \in {"connected", "listening", "logged_in", "lock"} :
        /\ pc' = [pc EXCEPT ![p] = l]
        /\ pc[p] = "stop_requested" => l = "connected"
        /\ pc[p] = "connected" => l = "listening"
        /\ pc[p] = "listening" => l = "logged_in"
        /\ pc[p] = "logged_in" => l = "lock"
  BY <1>1, <1>2 DEF Flags
<1>4. ASSUME pc[p] # "stop_requested" \/ op[p] = "connect"
      PROVE  flag' = [flag EXCEPT ![pc[p]] = FALSE]
  BY <1>1, <1>4
<1>5. ASSUME pc[p] = "stop_requested"
      PROVE  \E value \in BOOLEAN : flag' = [flag EXCEPT !["stop_requested"] = value]
  BY <1>1, <1>5
<1>6. QED
  BY <1>1, <1>3, <1>4, <1>5

\* Connecting, the backend takes a step of call 1.
LEMMA QQConnects ==
  ASSUME MaxCalls = 3, Shape, QQConnect, NEW p \in Calls, QQBackendStep(p)
  PROVE  Shape' /\ QQConnect' /\ pc[1] # "ok"
<1> USE ThreeCalls DEF Shape, QQConnect, NoListener, Flags
<1>1. listener[p] = "none" /\ aborted = {} /\ handle = None
  OBVIOUS
<1>2. CallStep(p)
  BY <1>1 DEF QQBackendStep, ListenerStep, LoopTest, Receive, Exit, Die
<1>3. p = 1 /\ pc[1] \notin {"idle", "ok", "err"} /\ op[1] = "connect"
  <2>1. pc[p] \notin {"idle", "ok", "err"}
    <3> HIDE ThreeCalls DEF Shape, QQConnect, NoListener
    <3>1. QED
      BY <1>2 DEF CallStep, Connect, TearDown, Listen, StoreFlag, TakeHandle,
         DropClient, Configure, Dial, Login, MarkLogin, Publish, Swap, SpawnListener
  <2>2. QED
    BY <2>1
<1>4. CASE StoreFlag(1)
  <2>1. PICK l \in {"connected", "listening", "logged_in", "lock"} :
          pc' = [pc EXCEPT ![1] = l]
    <3>1. Shape /\ 1 \in Calls
      OBVIOUS
    <3> HIDE ThreeCalls DEF Shape, QQConnect, NoListener, Flags
    <3>2. QED
      BY <1>4, <3>1, StoreSteps
  <2>2. /\ UNCHANGED <<callers, credentials, op, handle, listener, aborted, client>>
        /\ flag' = [flag EXCEPT ![pc[1]] = FALSE]
    BY <1>3, <1>4, StoreSteps
  <2>3. Shape' /\ pc'[1] = l /\ pc'[2] = pc[2] /\ pc'[3] = pc[3]
    BY <1>3, <2>1, <2>2
  <2>4. ~flag'["stop_requested"] /\ ~flag'["listening"]
    BY <2>2
  <2>5. QED
    BY <1>3, <2>2, <2>3, <2>4
<1>5. CASE TakeHandle(1)
  <2>1. aborted' = {}
    BY <1>5 DEF TakeHandle
  <2>2. QED
    BY <1>5, <2>1 DEF TakeHandle, Goto, inputs
<1>6. CASE DropClient(1)
  BY <1>3, <1>6 DEF DropClient, Goto, inputs, listenerVars
<1>7. CASE Configure(1)
  BY <1>3, <1>7 DEF Configure, Goto, Return, inputs, listenerVars
<1>8. CASE Dial(1)
  BY <1>3, <1>8 DEF Dial, Goto, Return, inputs, listenerVars
<1>9. CASE Login(1)
  BY <1>3, <1>9 DEF Login, Goto, Return, inputs, listenerVars
<1>10. CASE MarkLogin(1)
  BY <1>3, <1>10 DEF MarkLogin, Goto, Set, inputs, listenerVars
<1>11. CASE Publish(1)
  BY <1>3, <1>11 DEF Publish, Goto, Return, Set, inputs, listenerVars
<1>12. ~Swap(1) /\ ~SpawnListener(1)
  BY <1>3 DEF Swap, SpawnListener
<1>13. QED
  BY <1>2, <1>3, <1>4, <1>5, <1>6, <1>7, <1>8, <1>9, <1>10, <1>11, <1>12
     DEF CallStep, Connect, TearDown, Listen

\* What a listener does changes no more than its place and "listening".
LEMMA ListenerSteps ==
  ASSUME Shape, NEW l \in Calls, ListenerStep(l) \/ Die(l)
  PROVE  /\ UNCHANGED <<callers, credentials, pc, op, handle, aborted, client>>
         /\ listener[l] # "none"
         /\ \E to \in {"looping", "receiving", "exiting", "gone"} :
              listener' = [listener EXCEPT ![l] = to]
         /\ flag' = flag \/ flag' = [flag EXCEPT !["listening"] = FALSE]
<1>1. CASE LoopTest(l)
  BY <1>1 DEF LoopTest, inputs, callVars
<1>2. CASE Receive(l)
  BY <1>2 DEF Receive, inputs, callVars
<1>3. CASE Exit(l)
  BY <1>3 DEF Exit, Set, inputs, callVars
<1>4. CASE Die(l)
  BY <1>4 DEF Die, inputs, callVars
<1>5. QED
  BY <1>1, <1>2, <1>3, <1>4 DEF ListenerStep

\* Listening, it takes a step of call 2 or of its listener.
LEMMA QQListens ==
  ASSUME MaxCalls = 3, Shape, QQListen, NEW p \in Calls, QQBackendStep(p)
  PROVE  Shape' /\ QQListen' /\ (pc[2] = "ok" => pc'[2] = "ok")
<1> USE ThreeCalls DEF Shape, QQListen, QQUp, Flags
<1>1. CASE ListenerStep(p) \/ Die(p)
  <2>1. p = 2 /\ pc[2] = "ok"
    BY <1>1, ListenerSteps
  <2>2. PICK to : listener' = [listener EXCEPT ![2] = to]
    BY <1>1, <2>1, ListenerSteps
  <2>3. /\ UNCHANGED <<callers, credentials, pc, op, handle, aborted, client>>
        /\ flag' = flag \/ flag' = [flag EXCEPT !["listening"] = FALSE]
    BY <1>1, <2>1, ListenerSteps
  <2>4. /\ Shape' /\ listener'[1] = listener[1] /\ listener'[3] = listener[3]
        /\ \A f \in Flags \ {"listening"} : flag'[f] = flag[f]
    <3>1. CASE flag' = flag
      BY <2>2, <2>3, <3>1
    <3>2. CASE flag' = [flag EXCEPT !["listening"] = FALSE]
      <4>1. flag' \in [Flags -> BOOLEAN]
        BY <3>2
      <4>2. QED
        BY <2>2, <2>3, <3>2, <4>1
    <3>3. QED
      BY <2>3, <3>1, <3>2
  <2>5. QED
    BY <2>1, <2>3, <2>4
<1>2. CASE CallStep(p)
  <2>1. p = 2 /\ pc[2] \in {"swap", "lock"} /\ op[2] = "listen"
    BY <1>2 DEF CallStep, Connect, TearDown, Listen, StoreFlag, TakeHandle,
       DropClient, Configure, Dial, Login, MarkLogin, Publish, Swap, SpawnListener
  <2>2. CASE Swap(2)
    BY <2>1, <2>2 DEF Swap, Set, Goto, inputs, listenerVars
  <2>3. CASE SpawnListener(2)
    BY <2>1, <2>3 DEF SpawnListener, Goto, inputs
  <2>4. Listen(2)
    BY <1>2, <2>1 DEF CallStep, Connect, TearDown, StoreFlag, TakeHandle,
       DropClient, Configure, Dial, Login, MarkLogin, Publish
  <2>5. QED
    BY <2>2, <2>3, <2>4 DEF Listen
<1>3. QED
  BY <1>1, <1>2 DEF QQBackendStep

\* Disconnecting, it takes a step of call 3 or of its listener.
LEMMA QQCloses ==
  ASSUME MaxCalls = 3, Shape, QQClose, NEW p \in Calls, QQBackendStep(p)
  PROVE  Shape' /\ QQClose' /\ (pc[3] = "ok" => pc'[3] = "ok")
<1> USE ThreeCalls DEF Shape, QQClose, Flags
<1>1. CASE ListenerStep(p) \/ Die(p)
  <2>1. p = 2
    BY <1>1, ListenerSteps
  <2>2. PICK to : listener' = [listener EXCEPT ![2] = to]
    BY <1>1, <2>1, ListenerSteps
  <2>3. /\ UNCHANGED <<callers, credentials, pc, op, handle, aborted, client>>
        /\ flag' = flag \/ flag' = [flag EXCEPT !["listening"] = FALSE]
    BY <1>1, <2>1, ListenerSteps
  <2>4. /\ Shape' /\ listener'[1] = listener[1] /\ listener'[3] = listener[3]
        /\ \A f \in Flags \ {"listening"} : flag'[f] = flag[f]
    <3>1. CASE flag' = flag
      BY <2>2, <2>3, <3>1
    <3>2. CASE flag' = [flag EXCEPT !["listening"] = FALSE]
      <4>1. flag' \in [Flags -> BOOLEAN]
        BY <3>2
      <4>2. QED
        BY <2>2, <2>3, <3>2, <4>1
    <3>3. QED
      BY <2>3, <3>1, <3>2
  <2>5. QED
    BY <2>1, <2>3, <2>4
<1>2. CASE CallStep(p)
  <2>1. p = 3 /\ pc[3] \notin {"idle", "ok"} /\ op[3] = "disconnect"
    BY <1>2 DEF CallStep, Connect, TearDown, Listen, StoreFlag, TakeHandle,
       DropClient, Configure, Dial, Login, MarkLogin, Publish, Swap, SpawnListener
  <2>2. CASE StoreFlag(3)
    <3>1. PICK l \in {"connected", "listening", "logged_in", "lock"} :
            /\ pc' = [pc EXCEPT ![3] = l]
            /\ pc[3] = "stop_requested" => l = "connected"
            /\ pc[3] = "connected" => l = "listening"
            /\ pc[3] = "listening" => l = "logged_in"
            /\ pc[3] = "logged_in" => l = "lock"
      BY <2>2, StoreSteps
    <3>2. /\ UNCHANGED <<callers, credentials, op, handle, listener, aborted, client>>
          /\ \/ flag' = [flag EXCEPT ![pc[3]] = FALSE]
             \/ /\ pc[3] = "stop_requested"
                /\ \E value \in BOOLEAN : flag' = [flag EXCEPT !["stop_requested"] = value]
      BY <2>2, StoreSteps
    <3>a. flag' \in [Flags -> BOOLEAN]
      <4>1. CASE flag' = [flag EXCEPT ![pc[3]] = FALSE]
        BY <4>1
      <4>2. CASE \E value \in BOOLEAN : flag' = [flag EXCEPT !["stop_requested"] = value]
        BY <4>2
      <4>3. QED
        BY <3>2, <4>1, <4>2
    <3>3. Shape' /\ pc'[3] = l /\ pc'[1] = pc[1] /\ pc'[2] = pc[2]
      BY <2>1, <3>1, <3>2, <3>a
    <3>4. /\ pc[3] = "connected" \/ ~flag["connected"] => ~flag'["connected"]
          /\ pc[3] = "logged_in" \/ ~flag["logged_in"] => ~flag'["logged_in"]
      BY <3>2
    <3>5. pc[3] \in Flags
      BY <2>2, StoreSteps
    <3>6. l \in {"listening", "logged_in", "lock"} => ~flag'["connected"]
      BY <3>1, <3>4, <3>5
    <3>7. l = "lock" => ~flag'["logged_in"]
      BY <3>1, <3>4, <3>5
    <3>8. QED
      BY <2>1, <3>2, <3>3, <3>5, <3>6, <3>7
  <2>3. CASE TakeHandle(3)
    <3>1. 2 \in aborted'
      BY <2>3 DEF TakeHandle
    <3>2. QED
      BY <2>1, <2>3, <3>1 DEF TakeHandle, Goto, inputs
  <2>4. CASE DropClient(3)
    BY <2>1, <2>4 DEF DropClient, Goto, Return, inputs, listenerVars
  <2>5. TearDown(3)
    BY <1>2, <2>1
       DEF CallStep, Connect, Listen, Configure, Dial, Login, MarkLogin, Publish,
       Swap, SpawnListener
  <2>6. QED
    BY <2>2, <2>3, <2>4, <2>5 DEF TearDown
<1>3. QED
  BY <1>1, <1>2 DEF QQBackendStep

\* In qq mode every step of the backend keeps what the main task relies on.
LEMMA QQKept ==
  ASSUME MaxCalls = 3, MainIInv, QQStep
  PROVE  MainIInv'
<1>1. Mode = "qq" /\ UNCHANGED mainVars
  BY DEF QQStep, Mode
<1>2. PICK p \in Calls : QQBackendStep(p)
  BY DEF QQStep, QQBackendStep
<1>3. MainTypeOK' /\ PatchesOK' /\ ConfigOK' /\ MainOK' /\ Mode' = Mode /\ at' = at
  BY <1>1, MainStands
<1>4. Shape /\ QQOK
  BY DEF MainIInv, BackendOK
<1>5. ~Idle /\ at \notin Loading /\ at # "failed"
  <2>1. ~Idle
    BY <1>2, IdleStands DEF QQBackendStep
  <2>2. QED
    BY <2>1, NothingCalled DEF MainIInv, BackendOK
<1>6. CASE at \in {"connect", "start"}
  <2>1. QQConnect /\ (at = "start" => pc[1] = "ok")
    BY <1>1, <1>4, <1>6 DEF QQOK
  <2>2. Shape' /\ QQConnect' /\ at = "connect"
    BY <1>2, <1>4, <1>6, <2>1, QQConnects
  <2>3. QED
    BY <1>1, <1>3, <2>2 DEF MainIInv, BackendOK, QQOK, OneBotOK, Loading
<1>7. CASE at \in {"listen", "bind", "serving"}
  <2>1. QQListen /\ (at # "listen" => pc[2] = "ok")
    BY <1>1, <1>4, <1>7 DEF QQOK
  <2>2. Shape' /\ QQListen' /\ (at # "listen" => pc'[2] = "ok")
    BY <1>2, <1>4, <2>1, QQListens
  <2>3. QED
    BY <1>1, <1>3, <1>7, <2>2 DEF MainIInv, BackendOK, QQOK, OneBotOK, Loading
<1>8. CASE at \in {"disconnect", "stopped"}
  <2>1. QQClose /\ (at = "stopped" => pc[3] = "ok")
    BY <1>1, <1>4, <1>8 DEF QQOK
  <2>2. Shape' /\ QQClose' /\ (at = "stopped" => pc'[3] = "ok")
    BY <1>2, <1>4, <2>1, QQCloses
  <2>3. QED
    BY <1>1, <1>3, <1>8, <2>2 DEF MainIInv, BackendOK, QQOK, OneBotOK, Loading
<1>9. QED
  BY <1>5, <1>6, <1>7, <1>8 DEF MainIInv, MainTypeOK, Loading

-----------------------------------------------------------------------------
OneBotBackendStep(p) == OneBot!CallStep(p) \/ OneBot!ListenerStep(p)

\* Connecting, the other backend takes a step of call 1.
LEMMA OneBotConnects ==
  ASSUME MaxCalls = 3, Shape, OneBotConnect, ~flag["logged_in"],
         NEW p \in Calls, OneBotBackendStep(p)
  PROVE  Shape' /\ OneBotConnect' /\ ~flag'["logged_in"] /\ pc[1] # "ok"
<1> USE ThreeCalls DEF Shape, OneBotConnect, NoListener, Flags
<1>1. OneBot!CallStep(p)
  BY
     DEF OneBotBackendStep, OneBot!ListenerStep, OneBot!LoopTest, OneBot!Poll,
         OneBot!Exit
<1>2. p = 1 /\ pc[1] \in {"get_status", "connected", "stop_requested"} /\ op[1] = "connect"
  BY <1>1, IdleStands DEF OneBot!CallStep, OneBot!GetStatus, OneBot!StoreFlag,
     OneBot!ClearListening, OneBot!Swap, OneBot!SpawnListener, OneBot!Flags
<1>3. CASE OneBot!GetStatus(1)
  BY <1>2, <1>3 DEF OneBot!GetStatus, OneBot!Goto
<1>4. CASE OneBot!StoreFlag(1)
  <2>1. CASE pc[1] = "connected"
    <3>1. flag' = [flag EXCEPT !["connected"] = TRUE]
      BY <1>2, <1>4, <2>1 DEF OneBot!StoreFlag, OneBot!Set
    <3>2. pc' = [pc EXCEPT ![1] = "stop_requested"] /\ UNCHANGED <<callers, op, listener>>
      BY <1>4, <2>1 DEF OneBot!StoreFlag, OneBot!Goto
    <3>3. flag' \in [Flags -> BOOLEAN]
      BY <3>1
    <3>4. QED
      BY <1>2, <2>1, <3>1, <3>2, <3>3
  <2>2. CASE pc[1] = "stop_requested"
    <3>1. flag' = [flag EXCEPT !["stop_requested"] = FALSE]
      BY <1>2, <1>4, <2>2 DEF OneBot!StoreFlag, OneBot!Set
    <3>2. pc' = [pc EXCEPT ![1] = "ok"] /\ UNCHANGED <<callers, op, listener>>
      BY <1>2, <1>4, <2>2 DEF OneBot!StoreFlag, OneBot!Goto
    <3>3. flag' \in [Flags -> BOOLEAN]
      BY <3>1
    <3>4. QED
      BY <1>2, <2>2, <3>1, <3>2, <3>3
  <2>3. QED
    BY <1>2, <1>4, <2>1, <2>2 DEF OneBot!StoreFlag, OneBot!Flags
<1>5. QED
  BY <1>1, <1>2, <1>3, <1>4
     DEF OneBot!CallStep, OneBot!ClearListening, OneBot!Swap, OneBot!SpawnListener

\* What one of its listeners does.
LEMMA OneBotListenerSteps ==
  ASSUME Shape, NEW l \in Calls, OneBot!ListenerStep(l)
  PROVE  /\ UNCHANGED <<callers, pc, op>>
         /\ listener[l] # "none"
         /\ \E to \in {"looping", "polling", "exiting", "gone"} :
              /\ listener' = [listener EXCEPT ![l] = to]
              /\ /\ flag["connected"] /\ ~flag["stop_requested"]
                 /\ listener[l] \in {"looping", "polling"}
                 => to \in {"looping", "polling"}
         /\ flag' \in [Flags -> BOOLEAN]
         /\ \A f \in Flags \ {"listening"} : flag'[f] = flag[f]
<1>1. CASE OneBot!LoopTest(l)
  BY <1>1 DEF OneBot!LoopTest, Shape
<1>2. CASE OneBot!Poll(l)
  BY <1>2 DEF OneBot!Poll, Shape
<1>3. CASE OneBot!Exit(l)
  <2>1. /\ UNCHANGED <<callers, pc, op>> /\ listener[l] = "exiting"
        /\ listener' = [listener EXCEPT ![l] = "gone"]
        /\ flag' = [flag EXCEPT !["listening"] = FALSE]
    BY <1>3 DEF OneBot!Exit, OneBot!Set
  <2>2. QED
    BY <2>1 DEF Shape
<1>4. QED
  BY <1>1, <1>2, <1>3 DEF OneBot!ListenerStep

\* Listening, it takes a step of call 2 or of its listener.
LEMMA OneBotListens ==
  ASSUME MaxCalls = 3, Shape, OneBotListen, ~flag["logged_in"],
         NEW p \in Calls, OneBotBackendStep(p)
  PROVE  Shape' /\ OneBotListen' /\ ~flag'["logged_in"] /\ (pc[2] = "ok" => pc'[2] = "ok")
<1> USE ThreeCalls DEF Shape, OneBotListen, Flags
<1>1. CASE OneBot!ListenerStep(p)
  <2>1. p = 2 /\ pc[2] = "ok"
    BY <1>1, OneBotListenerSteps
  <2>2. PICK to \in {"looping", "polling"} : listener' = [listener EXCEPT ![2] = to]
    BY <1>1, <2>1, OneBotListenerSteps
  <2>3. /\ UNCHANGED <<callers, pc, op>> /\ flag' \in [Flags -> BOOLEAN]
        /\ \A f \in Flags \ {"listening"} : flag'[f] = flag[f]
    BY <1>1, <2>1, OneBotListenerSteps
  <2>4. QED
    BY <2>1, <2>2, <2>3
<1>2. CASE OneBot!CallStep(p)
  <2>1. p = 2 /\ pc[2] \in {"swap", "spawn"}
    BY <1>2, IdleStands DEF OneBot!CallStep, OneBot!GetStatus, OneBot!StoreFlag,
       OneBot!ClearListening, OneBot!Swap, OneBot!SpawnListener, OneBot!Flags
  <2>2. CASE OneBot!Swap(2)
    <3>1. /\ flag' = [flag EXCEPT !["listening"] = TRUE] /\ pc[2] = "swap"
          /\ pc' = [pc EXCEPT ![2] = "spawn"] /\ UNCHANGED <<callers, op, listener>>
      BY <2>2 DEF OneBot!Swap, OneBot!Set, OneBot!Goto
    <3>2. flag' \in [Flags -> BOOLEAN]
      BY <3>1
    <3>3. QED
      BY <3>1, <3>2
  <2>3. CASE OneBot!SpawnListener(2)
    BY <2>3 DEF OneBot!SpawnListener, OneBot!Goto
  <2>4. QED
    BY <1>2, <2>1, <2>2, <2>3 DEF OneBot!CallStep, OneBot!GetStatus, OneBot!StoreFlag,
       OneBot!ClearListening, OneBot!Flags
<1>3. QED
  BY <1>1, <1>2 DEF OneBotBackendStep

\* Disconnecting, it takes a step of call 3 or of its listener.
LEMMA OneBotCloses ==
  ASSUME MaxCalls = 3, Shape, OneBotClose, ~flag["logged_in"],
         NEW p \in Calls, OneBotBackendStep(p)
  PROVE  Shape' /\ OneBotClose' /\ ~flag'["logged_in"] /\ (pc[3] = "ok" => pc'[3] = "ok")
<1> USE ThreeCalls DEF Shape, OneBotClose, Flags
<1>1. CASE OneBot!ListenerStep(p)
  <2>1. p = 2
    BY <1>1, OneBotListenerSteps
  <2>2. PICK to : listener' = [listener EXCEPT ![2] = to]
    BY <1>1, <2>1, OneBotListenerSteps
  <2>3. /\ UNCHANGED <<callers, pc, op>> /\ flag' \in [Flags -> BOOLEAN]
        /\ \A f \in Flags \ {"listening"} : flag'[f] = flag[f]
    BY <1>1, <2>1, OneBotListenerSteps
  <2>4. QED
    BY <2>2, <2>3
<1>2. CASE OneBot!CallStep(p)
  <2>1. /\ p = 3 /\ pc[3] \in {"connected", "stop_requested", "clear"}
        /\ op[3] = "disconnect"
    BY <1>2 DEF OneBot!CallStep, OneBot!GetStatus, OneBot!StoreFlag,
       OneBot!ClearListening, OneBot!Swap, OneBot!SpawnListener, OneBot!Flags
  <2>2. CASE OneBot!StoreFlag(3)
    <3>1. CASE pc[3] = "connected"
      <4>1. flag' = [flag EXCEPT !["connected"] = FALSE]
        BY <2>1, <2>2, <3>1 DEF OneBot!StoreFlag, OneBot!Set
      <4>2. pc' = [pc EXCEPT ![3] = "stop_requested"] /\ UNCHANGED <<callers, op, listener>>
        BY <2>2, <3>1 DEF OneBot!StoreFlag, OneBot!Goto
      <4>3. flag' \in [Flags -> BOOLEAN]
        BY <4>1
      <4>4. QED
        BY <2>1, <3>1, <4>1, <4>2, <4>3
    <3>2. CASE pc[3] = "stop_requested"
      <4>1. flag' = [flag EXCEPT !["stop_requested"] = TRUE]
        BY <2>1, <2>2, <3>2 DEF OneBot!StoreFlag, OneBot!Set
      <4>2. pc' = [pc EXCEPT ![3] = "clear"] /\ UNCHANGED <<callers, op, listener>>
        BY <2>1, <2>2, <3>2 DEF OneBot!StoreFlag, OneBot!Goto
      <4>3. flag' \in [Flags -> BOOLEAN]
        BY <4>1
      <4>4. QED
        BY <2>1, <3>2, <4>1, <4>2, <4>3
    <3>3. QED
      BY <2>1, <2>2, <3>1, <3>2 DEF OneBot!StoreFlag, OneBot!Flags
  <2>3. CASE OneBot!ClearListening(3)
    <3>1. /\ flag' = [flag EXCEPT !["listening"] = FALSE] /\ pc[3] = "clear"
          /\ pc' = [pc EXCEPT ![3] = "ok"] /\ UNCHANGED <<callers, op, listener>>
      BY <2>3 DEF OneBot!ClearListening, OneBot!Set, OneBot!Goto
    <3>2. flag' \in [Flags -> BOOLEAN]
      BY <3>1
    <3>3. QED
      BY <2>1, <3>1, <3>2
  <2>4. QED
    BY <1>2, <2>1, <2>2, <2>3
       DEF OneBot!CallStep, OneBot!GetStatus, OneBot!Swap, OneBot!SpawnListener
<1>3. QED
  BY <1>1, <1>2 DEF OneBotBackendStep

\* In onebot mode too.
LEMMA OneBotKept ==
  ASSUME MaxCalls = 3, MainIInv, OneBotStep
  PROVE  MainIInv'
<1>1. /\ Mode = "onebot" /\ UNCHANGED mainVars
      /\ UNCHANGED <<credentials, handle, aborted, client>>
  BY DEF OneBotStep, Mode, qqVars
<1>2. PICK p \in Calls : OneBotBackendStep(p)
  BY DEF OneBotStep, OneBotBackendStep
<1>3. MainTypeOK' /\ PatchesOK' /\ ConfigOK' /\ MainOK' /\ Mode' = Mode /\ at' = at
  BY <1>1, MainStands
<1>4. Shape /\ OneBotOK
  BY DEF MainIInv, BackendOK
<1>5. at \notin Loading /\ at # "failed"
  <2>1. ~Idle
    BY <1>2, IdleStands DEF OneBotBackendStep
  <2>2. QED
    BY <2>1, NothingCalled DEF MainIInv, BackendOK
<1>6. ~flag["logged_in"] /\ aborted' = {} /\ client' = "Disconnected"
  BY <1>1, <1>4 DEF OneBotOK
<1>7. CASE at \in {"connect", "start"}
  <2>1. OneBotConnect /\ (at = "start" => pc[1] = "ok")
    BY <1>1, <1>4, <1>7 DEF OneBotOK
  <2>2. Shape' /\ OneBotConnect' /\ ~flag'["logged_in"] /\ at = "connect"
    BY <1>2, <1>4, <1>6, <1>7, <2>1, OneBotConnects
  <2>3. QED
    BY <1>1, <1>3, <1>6, <2>2 DEF MainIInv, BackendOK, QQOK, OneBotOK, Loading
<1>8. CASE at \in {"listen", "bind", "serving"}
  <2>1. OneBotListen /\ (at # "listen" => pc[2] = "ok")
    BY <1>1, <1>4, <1>8 DEF OneBotOK
  <2>2. Shape' /\ OneBotListen' /\ ~flag'["logged_in"] /\ (at # "listen" => pc'[2] = "ok")
    BY <1>2, <1>4, <1>6, <2>1, OneBotListens
  <2>3. QED
    BY <1>1, <1>3, <1>6, <1>8, <2>2 DEF MainIInv, BackendOK, QQOK, OneBotOK, Loading
<1>9. CASE at \in {"disconnect", "stopped"}
  <2>1. OneBotClose /\ (at = "stopped" => pc[3] = "ok")
    BY <1>1, <1>4, <1>9 DEF OneBotOK
  <2>2. Shape' /\ OneBotClose' /\ ~flag'["logged_in"] /\ (at = "stopped" => pc'[3] = "ok")
    BY <1>2, <1>4, <1>6, <2>1, OneBotCloses
  <2>3. QED
    BY <1>1, <1>3, <1>6, <1>9, <2>2 DEF MainIInv, BackendOK, QQOK, OneBotOK, Loading
<1>10. QED
  BY <1>5, <1>7, <1>8, <1>9 DEF MainIInv, MainTypeOK, Loading

-----------------------------------------------------------------------------
\* The inductive invariant holds for all constants.
LEMMA MainInductive ==
  ASSUME MaxCalls = 3
  PROVE  AppSpec => []MainIInv
<1>1. AppInit => MainIInv
  BY Begins
<1>2. MainIInv /\ [AppNext]_appVars => MainIInv'
  <2> SUFFICES ASSUME MainIInv, [AppNext]_appVars PROVE MainIInv'
    OBVIOUS
  <2>1. CASE Load
    BY <2>1, LayerKept, BuildKept DEF Load
  <2>2. CASE Call
    BY <2>2, CallKept
  <2>3. CASE Connected \/ Run
    BY <2>3, RunKept
  <2>4. CASE QQStep
    BY <2>4, QQKept
  <2>5. CASE OneBotStep
    BY <2>5, OneBotKept
  <2>6. CASE UNCHANGED appVars
    <3>1. UNCHANGED mainVars /\ UNCHANGED vars
      BY <2>6 DEF appVars
    <3>2. /\ MainTypeOK' /\ PatchesOK' /\ ConfigOK' /\ MainOK' /\ Mode' = Mode /\ at' = at
      BY <3>1, MainStands
    <3>3. BackendOK'
      BY <3>1, <3>2, BackendStands DEF MainIInv, BackendOK, QQOK, OneBotOK
    <3>4. QED
      BY <3>2, <3>3 DEF MainIInv
  <2>7. QED
    BY <2>1, <2>2, <2>3, <2>4, <2>5, <2>6 DEF AppNext
<1>3. QED
  BY <1>1, <1>2, PTL DEF AppSpec

\* Every variable of the main task has its type, whatever the layers set.
THEOREM MainTypeCorrect ==
  ASSUME MaxCalls = 3
  PROVE  AppSpec => []MainTypeOK
<1>1. MainIInv => MainTypeOK
  BY DEF MainIInv
<1>2. QED
  BY <1>1, MainInductive, PTL

\* What the status routes say is what the running flag is.
LEMMA StatusRoutes ==
  ASSUME running \in BOOLEAN,
         NEW s \in {LoginStatus, GetStatus, LoginInfo}
  PROVE  /\ s.online = running
         /\ running => s.status = "ok" /\ s.retcode = 0
<1>1. /\ LoginStatus.online = running /\ LoginStatus.status = "ok"
      /\ running => LoginStatus.retcode = 0
  BY DEF LoginStatus
<1>2. /\ GetStatus.online = running
      /\ running => GetStatus.status = "ok" /\ GetStatus.retcode = 0
  BY DEF LoginStatus, GetStatus
<1>3. /\ LoginInfo.online = running
      /\ running => LoginInfo.status = "ok" /\ LoginInfo.retcode = 0
  BY <1>2 DEF LoginInfo
<1>4. QED
  BY <1>1, <1>2, <1>3

\* Requests are only served with the settings of the topmost layers, by a server
\* whose status routes say that it runs, over a backend that is connected and
\* whose listener disconnect can end, whatever the layers and the bound on them.
THEOREM ReadyWhenServing ==
  ASSUME MaxCalls = 3
  PROVE  AppSpec => []ServesReady
<1>1. MainIInv => ServesReady
  <2> SUFFICES ASSUME MainIInv, at = "serving" PROVE ServesReady
    BY DEF ServesReady
  <2>1. running = TRUE
    BY DEF MainIInv, MainTypeOK, MainOK
  <2>2. \A s \in {LoginStatus, GetStatus, LoginInfo} :
          s.online /\ s.status = "ok" /\ s.retcode = 0
    BY <2>1, StatusRoutes
  <2>3. \A k \in Keys : config[k] = Topmost(k)
    BY Settings DEF MainIInv
  <2>4. Mode \in {"mock", "qq", "onebot"} /\ (HasProtocol <=> Mode # "mock")
    BY Modes DEF MainIInv
  <2>5. /\ Mode = "qq" => QQListen /\ pc[2] = "ok"
        /\ Mode = "onebot" => OneBotListen /\ pc[2] = "ok"
    BY DEF MainIInv, BackendOK, QQOK, OneBotOK
  <2>6. HasProtocol => flag["connected"] /\ ~flag["stop_requested"]
    BY <2>4, <2>5 DEF QQListen, QQUp, OneBotListen
  <2>7. Mode = "qq" =>
          flag["logged_in"] /\ client = "LoggedIn" /\ handle = 2 /\ aborted = {}
    BY <2>5 DEF QQListen, QQUp
  <2>8. Mode = "onebot" => 2 \in OneBot!Live
    BY <2>5, ThreeCalls DEF OneBotListen, OneBot!Live, OneBot!Calls, Calls
  <2>9. QED
    BY <2>2, <2>3, <2>6, <2>7, <2>8, Numbers DEF ServesReady, Mode
<1>2. QED
  BY <1>1, MainInductive, PTL

\* Once the main task has returned no status route says that it runs; its
\* backend is disconnected if it got as far as binding the port, and no listener
\* is left that nothing ends.
THEOREM ReturnsClean ==
  ASSUME MaxCalls = 3
  PROVE  AppSpec => []CleanReturn
<1>1. MainIInv => CleanReturn
  <2> SUFFICES ASSUME MainIInv PROVE CleanReturn
    OBVIOUS
  <2>1. ASSUME at \in {"failed", "stopped"}
        PROVE  TRUE \notin {s.online : s \in {LoginStatus, GetStatus, LoginInfo}}
    <3>1. running = FALSE
      BY <2>1 DEF MainIInv, MainTypeOK, MainOK
    <3>2. \A s \in {LoginStatus, GetStatus, LoginInfo} : s.online = FALSE
      BY <3>1, StatusRoutes
    <3>3. QED
      BY <3>2
  <2>2. ASSUME Idle PROVE Live \cup OneBot!Live = {}
    BY <2>2 DEF Idle, NoListener, Live, OneBot!Live, Calls, OneBot!Calls
  <2>3. at = "failed" => Live \cup OneBot!Live = {}
    BY <2>2 DEF MainIInv, BackendOK
  <2>4. ASSUME at = "stopped"
        PROVE  /\ ~flag["connected"] /\ ~flag["logged_in"] /\ client = "Disconnected"
               /\ IF Mode = "qq" THEN Live \subseteq aborted \cup Leaving
                                 ELSE OneBot!Live # {} => flag["stop_requested"]
    <3>1. CASE Mode = "qq"
      <4>1. QQClose /\ pc[3] = "ok"
        BY <2>4, <3>1 DEF MainIInv, BackendOK, QQOK
      <4>2. Live \subseteq {2} /\ 2 \in aborted
        BY <4>1, ThreeCalls DEF QQClose, Live
      <4>3. QED
        BY <3>1, <4>1, <4>2 DEF QQClose
    <3>2. CASE Mode = "onebot"
      BY <2>4, <3>2 DEF MainIInv, BackendOK, OneBotOK, OneBotClose
    <3>3. CASE Mode = "mock"
      <4>1. Untouched
        BY <3>3 DEF MainIInv, BackendOK
      <4>2. Live \cup OneBot!Live = {}
        BY <2>2, <4>1, NothingCalled
      <4>3. QED
        BY <3>3, <4>1, <4>2 DEF Untouched, Flags
    <3>4. QED
      BY <3>1, <3>2, <3>3, Modes DEF MainIInv
  <2>5. at = "stopped" => TRUE \notin {flag[f] : f \in Flags \ {"stop_requested", "listening"}}
    BY <2>4 DEF Flags
  <2>6. QED
    BY <2>1, <2>3, <2>4, <2>5 DEF CleanReturn, Mode
<1>2. QED
  BY <1>1, MainInductive, PTL

=============================================================================
