------------------------ MODULE OneBotBackend_proofs ------------------------
(***************************************************************************)
(* Proofs, for any number of calls and any discipline of the callers, of   *)
(* the invariants of OneBotHttpBackend, and that it implements             *)
(* ListenSession for settled callers.                                      *)
(***************************************************************************)
EXTENDS MCOneBotBackend, TLAPS

\* A call has an operation exactly once it has begun, and listener p is only
\* spawned by call p.
CallsOK ==
  /\ op \in [Calls -> {"none", "connect", "disconnect", "listen"}]
  /\ pc \in [Calls -> {"idle", "get_status", "connected", "stop_requested",
                       "clear", "swap", "spawn", "ok", "err"}]
  /\ \A p \in Calls : pc[p] = "idle" => op[p] = "none"
  /\ \A p \in Calls : pc[p] \notin {"ok", "err"} => listener[p] = "none"

\* One call at a time: a call that is about to store "stop_requested" has
\* stored "connected" as it means to, and "listening" stands only for a
\* listener that is alive or about to be spawned.
SerialInv ==
  callers # "overlapping" =>
    /\ \A p, q \in Running : p = q
    /\ (\A p \in Calls : pc[p] # "stop_requested") =>
         ~(flag["connected"] /\ flag["stop_requested"])
    /\ \A p \in Calls : pc[p] = "stop_requested" =>
         (flag["connected"] <=> op[p] = "connect")
    /\ \A p \in Calls : pc[p] = "clear" => ~flag["connected"]
    /\ flag["listening"] =>
         \/ Live # {}
         \/ \E p \in Calls : pc[p] = "spawn"

\* Settled callers: one listener at most; a connection that is asked for starts
\* over none, and while it is up "listening" keeps a second one away.
SettledInv ==
  callers = "settled" =>
    /\ \A k, l \in Live : k = l
    /\ flag["connected"] => flag["listening"] \/ Live = {}
    /\ \A p \in Calls :
         /\ pc[p] \in {"get_status", "connected"} /\ op[p] = "connect" =>
              flag["connected"] \/ Live = {}
         /\ pc[p] \in {"swap", "spawn"} => flag["connected"]
         /\ pc[p] = "spawn" => Live = {} /\ flag["listening"]

IInv == TypeOK /\ CallsOK /\ SerialInv /\ SettledInv

-----------------------------------------------------------------------------
\* Every variable keeps its type and each call the program counter of its
\* operation, for all constants.
THEOREM TypeCorrect == Spec => [](TypeOK /\ CallsOK)
<1>1. Init => TypeOK /\ CallsOK
  BY DEF Init, TypeOK, CallsOK, Disciplines, Flags
<1>2. TypeOK /\ CallsOK /\ [Next]_vars => TypeOK' /\ CallsOK'
  <2> SUFFICES ASSUME TypeOK, CallsOK, [Next]_vars PROVE TypeOK' /\ CallsOK'
    OBVIOUS
  <2> USE DEF TypeOK, CallsOK, Disciplines, Flags, Goto, Set
  <2>1. ASSUME NEW p \in Calls, Begin(p) PROVE TypeOK' /\ CallsOK'
    BY <2>1 DEF Begin, MayStart
  <2>2. ASSUME NEW p \in Calls, GetStatus(p) PROVE TypeOK' /\ CallsOK'
    BY <2>2 DEF GetStatus
  <2>3. ASSUME NEW p \in Calls, StoreFlag(p) PROVE TypeOK' /\ CallsOK'
    BY <2>3 DEF StoreFlag
  <2>4. ASSUME NEW p \in Calls, ClearListening(p) PROVE TypeOK' /\ CallsOK'
    BY <2>4 DEF ClearListening
  <2>5. ASSUME NEW p \in Calls, Swap(p) PROVE TypeOK' /\ CallsOK'
    BY <2>5 DEF Swap
  <2>6. ASSUME NEW p \in Calls, SpawnListener(p) PROVE TypeOK' /\ CallsOK'
    BY <2>6 DEF SpawnListener
  <2>7. ASSUME NEW l \in Calls, LoopTest(l) PROVE TypeOK' /\ CallsOK'
    BY <2>7 DEF LoopTest
  <2>8. ASSUME NEW l \in Calls, Poll(l) PROVE TypeOK' /\ CallsOK'
    BY <2>8 DEF Poll
  <2>9. ASSUME NEW l \in Calls, Exit(l) PROVE TypeOK' /\ CallsOK'
    BY <2>9 DEF Exit
  <2>10. CASE UNCHANGED vars
    BY <2>10 DEF vars
  <2>11. QED
    BY <2>1, <2>2, <2>3, <2>4, <2>5, <2>6, <2>7, <2>8, <2>9, <2>10 DEF Next, CallStep, ListenerStep
<1>3. QED
  BY <1>1, <1>2, PTL DEF Spec

\* The discipline of the callers never changes.
LEMMA CallersKept == ASSUME [Next]_vars PROVE callers' = callers
BY DEF Next, vars, Begin, CallStep, GetStatus, StoreFlag, ClearListening, Swap,
       SpawnListener, ListenerStep, LoopTest, Poll, Exit

\* One call at a time: a step of one call starts from a state where no other
\* call is under way, and ends in one.
LEMMA Alone ==
  ASSUME TypeOK, CallsOK, SerialInv, callers # "overlapping", NEW p \in Calls,
         Begin(p) \/ CallStep(p)
  PROVE  \A q \in Calls \ {p} :
           pc[q] \in {"idle", "ok", "err"} /\ pc'[q] = pc[q] /\ op'[q] = op[q]
<1> USE DEF Flags, Goto
<1>1. CASE Begin(p)
  BY <1>1 DEF Begin, MayStart, Running
<1>2. CASE CallStep(p)
  <2>1. p \in Running
    BY <1>2 DEF CallStep, GetStatus, StoreFlag, ClearListening, Swap,
                SpawnListener, Running
  <2>2. \A q \in Calls \ {p} : pc[q] \in {"idle", "ok", "err"}
    BY <2>1 DEF SerialInv, Running
  <2>3. \A q \in Calls \ {p} : pc'[q] = pc[q] /\ op'[q] = op[q]
    BY <1>2 DEF CallStep, GetStatus, StoreFlag, ClearListening, Swap,
                SpawnListener, CallsOK
  <2>4. QED
    BY <2>2, <2>3
<1>3. QED
  BY <1>1, <1>2

\* One call at a time: every step of it keeps what the flags say.
LEMMA SerialKept ==
  ASSUME IInv, [Next]_vars
  PROVE  SerialInv'
<1> SUFFICES ASSUME callers # "overlapping" PROVE SerialInv'
  BY CallersKept DEF SerialInv
<1> USE DEF IInv, TypeOK, CallsOK, Flags, Goto, Set
<1>1. ASSUME NEW p \in Calls, Begin(p) \/ CallStep(p) PROVE SerialInv'
  <2>1. \A q \in Calls \ {p} :
          pc[q] \in {"idle", "ok", "err"} /\ pc'[q] = pc[q] /\ op'[q] = op[q]
    BY <1>1, Alone
  <2>2. CASE Begin(p)
    BY <2>1, <2>2 DEF Begin, MayStart, SerialInv, Live, Running
  <2>3. CASE GetStatus(p)
    BY <2>1, <2>3 DEF GetStatus, SerialInv, Live, Running
  <2>4. CASE StoreFlag(p)
    <3>1. pc[p] \in {"connected", "stop_requested"}
      BY <2>4 DEF StoreFlag
    <3>2. op[p] \in {"connect", "disconnect"}
      BY <3>1
    <3>3. CASE pc[p] = "connected"
      <4>1. /\ flag' = [flag EXCEPT !["connected"] = op[p] = "connect"]
            /\ pc' = [pc EXCEPT ![p] = "stop_requested"]
            /\ UNCHANGED <<op, listener>>
        BY <2>4, <3>3 DEF StoreFlag
      <4>2. pc'[p] = "stop_requested" /\ \A q \in Calls \ {p} : pc'[q] = pc[q]
        BY <4>1
      <4>3. Live' = Live
        BY <4>1 DEF Live
      <4>4. /\ flag'["connected"] = (op[p] = "connect")
            /\ flag'["listening"] = flag["listening"]
        BY <4>1
      <4>5. \A q, r \in Running' : q = r
        BY <2>1 DEF Running
      <4>6. flag'["listening"] => Live' # {}
        BY <2>1, <3>3, <4>3, <4>4 DEF SerialInv
      <4>7. QED
        BY <2>1, <4>2, <4>4, <4>5, <4>6, <4>1 DEF SerialInv
    <3>4. CASE pc[p] = "stop_requested"
      <4>1. /\ flag' = [flag EXCEPT !["stop_requested"] = op[p] # "connect"]
            /\ UNCHANGED <<op, listener>>
        BY <2>4, <3>4 DEF StoreFlag
      <4>2. \/ op[p] = "connect" /\ pc' = [pc EXCEPT ![p] = "ok"]
            \/ op[p] = "disconnect" /\ pc' = [pc EXCEPT ![p] = "clear"]
        BY <2>4, <3>2, <3>4 DEF StoreFlag
      <4>3. Live' = Live
        BY <4>1 DEF Live
      <4>4. /\ flag'["listening"] = flag["listening"]
            /\ op[p] = "connect" => ~flag'["stop_requested"]
            /\ op[p] = "disconnect" => ~flag'["connected"]
        BY <3>4, <4>1 DEF SerialInv
      <4>5. \A q, r \in Running' : q = r
        BY <2>1 DEF Running
      <4>6. flag'["listening"] => Live' # {}
        BY <2>1, <3>4, <4>3, <4>4 DEF SerialInv
      <4>7. \A q \in Calls : pc'[q] # "stop_requested"
        BY <2>1, <4>2
      <4>8. \A q \in Calls : pc'[q] = "clear" => ~flag'["connected"]
        BY <2>1, <4>2, <4>4
      <4>9. ~(flag'["connected"] /\ flag'["stop_requested"])
        BY <3>2, <4>4
      <4>10. QED
        BY <4>5, <4>6, <4>7, <4>8, <4>9 DEF SerialInv
    <3>5. QED
      BY <3>1, <3>3, <3>4
  <2>5. CASE ClearListening(p)
    BY <2>1, <2>5 DEF ClearListening, SerialInv, Live, Running
  <2>6. CASE Swap(p)
    BY <2>1, <2>6 DEF Swap, SerialInv, Live, Running
  <2>7. CASE SpawnListener(p)
    BY <2>1, <2>7 DEF SpawnListener, SerialInv, Live, Running
  <2>8. QED
    BY <1>1, <2>2, <2>3, <2>4, <2>5, <2>6, <2>7 DEF CallStep
<1>2. ASSUME NEW l \in Calls, LoopTest(l) PROVE SerialInv'
  BY <1>2 DEF LoopTest, SerialInv, Live, Running
<1>3. ASSUME NEW l \in Calls, Poll(l) PROVE SerialInv'
  BY <1>3 DEF Poll, SerialInv, Live, Running
<1>4. ASSUME NEW l \in Calls, Exit(l) PROVE SerialInv'
  BY <1>4 DEF Exit, SerialInv, Live, Running
<1>5. CASE UNCHANGED vars
  BY <1>5 DEF vars, SerialInv, Live, Running
<1>6. QED
  BY <1>1, <1>2, <1>3, <1>4, <1>5 DEF Next, ListenerStep

\* Settled callers: every step keeps at most one listener.
LEMMA SettledKept ==
  ASSUME IInv, [Next]_vars
  PROVE  SettledInv'
<1> SUFFICES ASSUME callers = "settled" PROVE SettledInv'
  BY CallersKept DEF SettledInv
<1> USE DEF IInv, TypeOK, CallsOK, Flags, Goto, Set
<1>1. ASSUME NEW p \in Calls, Begin(p) \/ CallStep(p) PROVE SettledInv'
  <2>1. \A q \in Calls \ {p} :
          pc[q] \in {"idle", "ok", "err"} /\ pc'[q] = pc[q] /\ op'[q] = op[q]
    BY <1>1, Alone
  <2>2. CASE Begin(p)
    BY <2>1, <2>2 DEF Begin, MayStart, SerialInv, SettledInv, Live, Running
  <2>3. CASE GetStatus(p)
    BY <2>1, <2>3 DEF GetStatus, SerialInv, SettledInv, Live, Running
  <2>4. CASE StoreFlag(p)
    BY <2>1, <2>4 DEF StoreFlag, SerialInv, SettledInv, Live, Running
  <2>5. CASE ClearListening(p)
    BY <2>1, <2>5 DEF ClearListening, SerialInv, SettledInv, Live, Running
  <2>6. CASE Swap(p)
    BY <2>1, <2>6 DEF Swap, SerialInv, SettledInv, Live, Running
  <2>7. CASE SpawnListener(p)
    BY <2>1, <2>7 DEF SpawnListener, SerialInv, SettledInv, Live, Running
  <2>8. QED
    BY <1>1, <2>2, <2>3, <2>4, <2>5, <2>6, <2>7 DEF CallStep
<1>2. ASSUME NEW l \in Calls, LoopTest(l) PROVE SettledInv'
  BY <1>2 DEF LoopTest, SerialInv, SettledInv, Live, Running
<1>3. ASSUME NEW l \in Calls, Poll(l) PROVE SettledInv'
  BY <1>3 DEF Poll, SerialInv, SettledInv, Live, Running
<1>4. ASSUME NEW l \in Calls, Exit(l) PROVE SettledInv'
  BY <1>4 DEF Exit, SerialInv, SettledInv, Live, Running
<1>5. CASE UNCHANGED vars
  BY <1>5 DEF vars, SerialInv, SettledInv, Live, Running
<1>6. QED
  BY <1>1, <1>2, <1>3, <1>4, <1>5 DEF Next, ListenerStep

\* The inductive invariant holds for all constants.
LEMMA Inductive == Spec => []IInv
<1>1. Init => IInv
  <2> SUFFICES ASSUME Init PROVE IInv
    OBVIOUS
  <2>1. TypeOK /\ CallsOK
    BY DEF Init, TypeOK, CallsOK, Disciplines, Flags
  <2>2. SerialInv /\ SettledInv
    BY DEF Init, SerialInv, SettledInv, Running, Live, Flags
  <2>3. QED
    BY <2>1, <2>2 DEF IInv
<1>2. TypeOK' /\ CallsOK' /\ IInv /\ [Next]_vars => IInv'
  BY SerialKept, SettledKept DEF IInv
<1>3. QED
  BY <1>1, <1>2, TypeCorrect, PTL DEF Spec

\* Between the calls of one caller at a time, for any number of calls: no stop
\* request is left over a connection, and no "listening" over nobody.
THEOREM FlagsAreConsistent == Spec => []FlagsConsistent
<1>1. IInv => FlagsConsistent
  BY DEF IInv, CallsOK, FlagsConsistent, SerialInv, Quiet, Running
<1>2. QED
  BY <1>1, Inductive, PTL

-----------------------------------------------------------------------------
\* A step of the backend with settled callers is one of a ListenSession, or
\* none.
LEMMA SessionStep ==
  ASSUME IInv, IInv', [Next]_vars
  PROVE  [Session!Next]_(Session!vars)
<1>1. CASE callers # "settled"
  <2>1. callers' # "settled"
    BY <1>1, CallersKept
  <2>2. QED
    BY <1>1, <2>1 DEF Session!vars
<1>2. CASE callers = "settled"
  <2> DEFINE Mapped == IF Live = {} THEN None ELSE CHOOSE l \in Live : TRUE
             Same == flag'["connected"] = flag["connected"]
             Stutter == Same /\ Live' = Live
             Up == ~flag["connected"] /\ flag'["connected"] /\ Live = {} /\ Live' = {}
             Down == flag["connected"] /\ ~flag'["connected"] /\ Live' = Live
             Start == flag["connected"] /\ Same /\ Live = {} /\ Live' # {}
             End == Same /\ Live # {} /\ Live' = {}
  <2> USE DEF IInv, TypeOK, CallsOK, Flags, Set, Goto
  <2>1. callers' = "settled"
    BY <1>2, CallersKept
  <2>2. Session!vars = <<flag["connected"], Mapped>>
    BY <1>2 DEF Session!vars, SettledInv
  <2>3. Session!vars' = <<flag'["connected"], Mapped'>>
    BY <2>1 DEF Session!vars, SettledInv
  <2>4. ASSUME NEW p \in Calls, Begin(p) \/ GetStatus(p) \/ ClearListening(p) \/ Swap(p)
        PROVE  Stutter
    BY <2>4 DEF Begin, GetStatus, ClearListening, Swap, Live
  <2>5. ASSUME NEW p \in Calls, StoreFlag(p) PROVE Stutter \/ Up \/ Down
    <3>1. Live' = Live
      BY <2>5 DEF StoreFlag, Live
    <3>2. CASE pc[p] # "connected"
      <4>1. flag'["connected"] = flag["connected"]
        BY <2>5, <3>2 DEF StoreFlag
      <4>2. QED
        BY <3>1, <4>1
    <3>3. CASE pc[p] = "connected" /\ op[p] = "connect"
      <4>1. flag'["connected"]
        BY <2>5, <3>3 DEF StoreFlag
      <4>2. flag["connected"] \/ Live = {}
        BY <1>2, <3>3 DEF SettledInv
      <4>3. QED
        BY <3>1, <4>1, <4>2
    <3>4. CASE pc[p] = "connected" /\ op[p] # "connect"
      <4>1. ~flag'["connected"]
        BY <2>5, <3>4 DEF StoreFlag
      <4>2. QED
        BY <3>1, <4>1
    <3>5. QED
      BY <3>2, <3>3, <3>4
  <2>6. ASSUME NEW p \in Calls, SpawnListener(p) PROVE Start
    BY <1>2, <2>6 DEF SpawnListener, SettledInv, Live
  <2>7. ASSUME NEW l \in Calls, LoopTest(l) \/ Poll(l) PROVE Stutter
    BY <2>7 DEF LoopTest, Poll, Live
  <2>8. ASSUME NEW l \in Calls, Exit(l) PROVE End
    BY <1>2, <2>8 DEF Exit, SettledInv, Live
  <2>9. ASSUME UNCHANGED vars PROVE Stutter
    BY <2>9 DEF vars, Live
  <2>10. Stutter \/ Up \/ Down \/ Start \/ End
    BY <2>4, <2>5, <2>6, <2>7, <2>8, <2>9 DEF Next, CallStep, ListenerStep
  <2>11. Live # {} => Mapped \in Calls
    BY DEF Live
  <2>12. Live' # {} => Mapped' \in Calls
    BY DEF Live
  <2>13. None \notin Calls
    BY OneBotAssumption DEF Calls
  <2> HIDE DEF Mapped
  <2>14. Live' = Live => Mapped' = Mapped
    BY DEF Mapped
  <2>15. (Live = {} => Mapped = None) /\ (Live' = {} => Mapped' = None)
    BY DEF Mapped
  <2>16. QED
    BY <1>2, <2>1, <2>2, <2>3, <2>10, <2>11, <2>12, <2>13, <2>14, <2>15
       DEF Session!vars, Session!Next, Session!GoUp, Session!GoDown,
           Session!StartListener, Session!EndListener
<1>3. QED
  BY <1>1, <1>2

\* OneBotHttpBackend implements ListenSession for callers that make one call
\* at a time and none while a listener outlives its connection.
THEOREM Refinement == Spec => ImplementsSession
<1>1. Init => Session!Init
  BY DEF Init, Session!Init, Live, Flags
<1>2. IInv /\ IInv' /\ [Next]_vars => [Session!Next]_(Session!vars)
  BY SessionStep
<1>3. QED
  BY <1>1, <1>2, Inductive, PTL DEF Spec, ImplementsSession, Session!Spec

=============================================================================
