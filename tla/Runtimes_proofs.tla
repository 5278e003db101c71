--------------------------- MODULE Runtimes_proofs --------------------------
(***************************************************************************)
(* Proofs, for all constants, about the two parts that own tasks and stop  *)
(* them.                                                                   *)
(*                                                                         *)
(* Runtime, for any number of calls, names and shutdowns: every handle has *)
(* one owner and Ok(n) counts tasks that have returned, whatever the       *)
(* interleaving; one caller at a time leaves no registered task behind     *)
(* when it stops the runtime.                                              *)
(*                                                                         *)
(* DesktopRuntime, for any capacity of the bus and any number of events    *)
(* and tasks: its two handles come and go together, and no event is        *)
(* counted twice unless a stop was cancelled.                              *)
(***************************************************************************)
EXTENDS RuntimeProps, MCDesktop, FiniteSetTheorems, TLAPS

\* HandleAccounting and OkMeansJoined are not inductive without the types and
\* without the order of a shutdown: nothing is drained before the drain.
NothingBeforeDrain ==
  \A s \in Stoppers :
    stop[s] \in {"idle", "counting", "sending", "draining"} => drained[s] = {}

\* A shutdown that drained nothing has counted nothing, and a call that was
\* not told Ok has no handle in the books.
IInv == TypeOK /\ HandleAccounting /\ OkMeansJoined /\ NothingBeforeDrain

\* Every variable of the runtime keeps its type, for all constants.
THEOREM TypeCorrect == Spec => []TypeOK
<1>1. Init => TypeOK
  BY DEF Init, TypeOK
<1>2. TypeOK /\ [Next]_vars => TypeOK'
  <2> SUFFICES ASSUME TypeOK, [Next]_vars PROVE TypeOK'
    OBVIOUS
  <2> USE DEF TypeOK, inputs, callVars, taskVars, stopVars
  <2>1. CASE Start
    BY <2>1 DEF Start
  <2>2. ASSUME NEW c \in Calls, Register(c) PROVE TypeOK'
    <3>1. CASE RegisterCheck(c)
      BY <3>1 DEF RegisterCheck
    <3>2. CASE RegisterSpawn(c)
      BY <3>2 DEF RegisterSpawn
    <3>3. CASE RegisterInsert(c)
      BY <3>3 DEF RegisterInsert
    <3>4. QED
      BY <2>2, <3>1, <3>2, <3>3 DEF Register
  <2>3. ASSUME NEW c \in Calls, TaskReturn(c) \/ TaskPanic(c) PROVE TypeOK'
    BY <2>3 DEF TaskReturn, TaskPanic
  <2>4. ASSUME NEW s \in Stoppers, ShutdownStep(s) PROVE TypeOK'
    <3>1. CASE ShutdownEnter(s)
      BY <3>1 DEF ShutdownEnter
    <3>2. CASE ShutdownCount(s)
      BY <3>2 DEF ShutdownCount
    <3>3. CASE ShutdownSend(s)
      BY <3>3 DEF ShutdownSend, Receivers
    <3>4. CASE ShutdownDrain(s)
      BY <3>4 DEF ShutdownDrain, Managed
    <3>5. CASE ShutdownFinish(s)
      BY <3>5 DEF ShutdownFinish
    <3>6. ASSUME NEW c \in Calls, ShutdownJoin(s, c) PROVE TypeOK'
      BY <3>6 DEF ShutdownJoin
    <3>7. ASSUME NEW c \in Calls, ShutdownFail(s, c) PROVE TypeOK'
      BY <3>7 DEF ShutdownFail
    <3>8. QED
      BY <2>4, <3>1, <3>2, <3>3, <3>4, <3>5, <3>6, <3>7 DEF ShutdownStep
  <2>5. ASSUME NEW s \in Stoppers, NEW c \in Calls, WrapperExpire(s, c)
        PROVE  TypeOK'
    BY <2>5 DEF WrapperExpire
  <2>6. CASE UNCHANGED vars
    BY <2>6 DEF vars
  <2>7. QED
    BY <2>1, <2>2, <2>3, <2>4, <2>5, <2>6 DEF Next
<1>3. QED
  BY <1>1, <1>2, PTL DEF Spec

-----------------------------------------------------------------------------
\* A step that leaves the books alone (map, drained and joined handles, reg
\* and nameOf) and does not restart a returned task keeps the accounting.
LEMMA BooksUntouched ==
  ASSUME HandleAccounting, OkMeansJoined, TypeOK,
         UNCHANGED <<tasks, reg, nameOf, drained, joined>>,
         \A c \in Calls : task[c] = "returned" => task'[c] = "returned",
         \A s \in Stoppers :
           stop'[s] = "ok" => stop[s] = "ok" \/ joined[s] = drained[s]
  PROVE  HandleAccounting' /\ OkMeansJoined'
<1> USE DEF TypeOK
<1>1. HandleAccounting'
  BY DEF HandleAccounting, MapEntriesOwned, HandlesMoveOnce, NoHandleLost,
         Managed
<1>2. OkMeansJoined'
  BY DEF OkMeansJoined
<1>3. QED
  BY <1>1, <1>2

\* A registration step keeps the accounting: only the last one touches the
\* map, and only under a name that was free.
LEMMA RegisterKeepsBooks ==
  ASSUME TypeOK, HandleAccounting, OkMeansJoined,
         NEW c \in Calls, Register(c)
  PROVE  HandleAccounting' /\ OkMeansJoined'
<1> USE RuntimeAssumption DEF TypeOK, inputs, callVars, taskVars, stopVars
<1> USE DEF HandleAccounting, MapEntriesOwned, HandlesMoveOnce, NoHandleLost
<1>1. CASE RegisterCheck(c)
  <2>1. Managed' = Managed
    BY <1>1 DEF RegisterCheck, Managed
  <2>2. HandleAccounting'
    BY <1>1, <2>1 DEF RegisterCheck, Managed
  <2>3. OkMeansJoined'
    BY <1>1 DEF RegisterCheck, OkMeansJoined
  <2>4. QED
    BY <2>2, <2>3
<1>2. CASE RegisterSpawn(c)
  <2>1. Managed' = Managed
    BY <1>2 DEF RegisterSpawn, Managed
  <2>2. HandleAccounting'
    BY <1>2, <2>1 DEF RegisterSpawn, Managed
  <2>3. \A s \in Stoppers : c \notin joined[s]
    BY <1>2 DEF RegisterSpawn, OkMeansJoined
  <2>4. OkMeansJoined'
    BY <1>2, <2>3 DEF RegisterSpawn, OkMeansJoined
  <2>5. QED
    BY <2>2, <2>4
<1>3. CASE RegisterInsert(c)
  <2>1. OkMeansJoined'
    BY <1>3 DEF RegisterInsert, OkMeansJoined
  <2>2. CASE tasks[nameOf[c]] = NoTask
    <3>1. /\ tasks' = [tasks EXCEPT ![nameOf[c]] = c]
          /\ reg' = [reg EXCEPT ![c] = "ok"]
          /\ UNCHANGED <<nameOf, drained>>
          /\ reg[c] = "spawned"
          /\ nameOf[c] \in Names
      BY <1>3, <2>2 DEF RegisterInsert
    <3>2. MapEntriesOwned'
      BY <3>1
    <3>3. Managed' = Managed \cup {c}
      BY <3>1, <2>2 DEF Managed
    <3>4. \A s \in Stoppers : c \notin drained[s]
      BY <3>1
    <3>5. HandlesMoveOnce'
      BY <3>1, <3>3, <3>4
    <3>6. NoHandleLost'
      BY <3>1, <3>3
    <3>7. QED
      BY <2>1, <3>2, <3>5, <3>6
  <2>3. CASE tasks[nameOf[c]] # NoTask
    <3>1. /\ reg' = [reg EXCEPT ![c] = "duplicate"]
          /\ reg[c] = "spawned"
          /\ UNCHANGED <<tasks, nameOf, drained>>
      BY <1>3, <2>3 DEF RegisterInsert
    <3>2. Managed' = Managed
      BY <3>1 DEF Managed
    <3>3. HandleAccounting'
      BY <3>1, <3>2 DEF Managed
    <3>4. QED
      BY <2>1, <3>3
  <2>4. QED
    BY <2>2, <2>3
<1>4. QED
  BY <1>1, <1>2, <1>3 DEF Register

\* The drain moves every handle of the map to one shutdown.
LEMMA DrainKeepsBooks ==
  ASSUME IInv, NEW s \in Stoppers, ShutdownDrain(s)
  PROVE  HandleAccounting' /\ OkMeansJoined'
<1> USE RuntimeAssumption
    DEF IInv, TypeOK, HandleAccounting, MapEntriesOwned, HandlesMoveOnce,
        NoHandleLost
<1>1. /\ drained' = [drained EXCEPT ![s] = Managed]
      /\ tasks' = [n \in Names |-> NoTask]
      /\ stop' = [stop EXCEPT ![s] = "joining"]
      /\ UNCHANGED <<reg, nameOf, task, joined>>
      /\ drained[s] = {}
  BY DEF ShutdownDrain, inputs, callVars, taskVars, NothingBeforeDrain
<1>2. Managed' = {}
  BY <1>1 DEF Managed
<1>3. Managed \subseteq Calls
  BY DEF Managed
<1>4. MapEntriesOwned'
  BY <1>1
<1>5. \A d \in Managed : reg[d] = "ok"
  BY DEF Managed
<1>6. HandlesMoveOnce'
  BY <1>1, <1>2, <1>3, <1>5
<1>7. NoHandleLost'
  BY <1>1, <1>2, <1>3
<1>8. OkMeansJoined'
  BY <1>1, <1>3 DEF OkMeansJoined
<1>9. QED
  BY <1>4, <1>6, <1>7, <1>8

-----------------------------------------------------------------------------
\* The order of a shutdown: handles are only taken by the drain.
LEMMA DrainFirst ==
  ASSUME IInv, [Next]_vars
  PROVE  NothingBeforeDrain'
<1> USE DEF IInv, TypeOK, NothingBeforeDrain, inputs, callVars, taskVars, stopVars
<1>1. CASE Start
  BY <1>1 DEF Start
<1>2. ASSUME NEW c \in Calls, Register(c) PROVE NothingBeforeDrain'
  BY <1>2 DEF Register, RegisterCheck, RegisterSpawn, RegisterInsert
<1>3. ASSUME NEW c \in Calls, TaskReturn(c) \/ TaskPanic(c)
      PROVE  NothingBeforeDrain'
  BY <1>3 DEF TaskReturn, TaskPanic
<1>4. ASSUME NEW s \in Stoppers, ShutdownStep(s) PROVE NothingBeforeDrain'
  BY <1>4 DEF ShutdownStep, ShutdownEnter, ShutdownCount, ShutdownSend,
              ShutdownDrain, ShutdownFinish, ShutdownJoin, ShutdownFail
<1>5. ASSUME NEW s \in Stoppers, NEW c \in Calls, WrapperExpire(s, c)
      PROVE  NothingBeforeDrain'
  BY <1>5 DEF WrapperExpire
<1>6. CASE UNCHANGED vars
  BY <1>6 DEF vars
<1>7. QED
  BY <1>1, <1>2, <1>3, <1>4, <1>5, <1>6 DEF Next

\* Every step keeps the accounting.
LEMMA BooksKept ==
  ASSUME IInv, [Next]_vars
  PROVE  HandleAccounting' /\ OkMeansJoined'
<1> USE DEF IInv
<1>1. CASE Start
  BY <1>1, BooksUntouched DEF Start, inputs, callVars, taskVars, stopVars
<1>2. ASSUME NEW c \in Calls, Register(c)
      PROVE  HandleAccounting' /\ OkMeansJoined'
  BY <1>2, RegisterKeepsBooks
<1>3. ASSUME NEW c \in Calls, TaskReturn(c) \/ TaskPanic(c)
      PROVE  HandleAccounting' /\ OkMeansJoined'
  <2>1. \A d \in Calls : task[d] = "returned" => task'[d] = "returned"
    BY <1>3 DEF TaskReturn, TaskPanic, TypeOK
  <2>2. UNCHANGED <<tasks, reg, nameOf, stop, drained, joined>>
    BY <1>3 DEF TaskReturn, TaskPanic, inputs, callVars, stopVars
  <2>3. QED
    BY <2>1, <2>2, BooksUntouched
<1>4. ASSUME NEW s \in Stoppers, ShutdownStep(s)
      PROVE  HandleAccounting' /\ OkMeansJoined'
  <2>1. CASE ShutdownEnter(s)
    <3>1. UNCHANGED <<tasks, reg, nameOf, task, drained, joined>>
      BY <2>1 DEF ShutdownEnter, inputs, callVars, taskVars
    <3>2. joined[s] = drained[s]
      BY <2>1 DEF ShutdownEnter, NothingBeforeDrain, OkMeansJoined
    <3>3. \A t \in Stoppers :
            stop'[t] = "ok" => stop[t] = "ok" \/ joined[t] = drained[t]
      BY <2>1, <3>2 DEF ShutdownEnter, TypeOK
    <3>4. QED
      BY <3>1, <3>3, BooksUntouched
  <2>2. CASE ShutdownCount(s) \/ ShutdownSend(s)
    <3>1. UNCHANGED <<tasks, reg, nameOf, task, drained, joined>>
      BY <2>2 DEF ShutdownCount, ShutdownSend, inputs, callVars, taskVars
    <3>2. \A t \in Stoppers : stop'[t] = "ok" => stop[t] = "ok"
      BY <2>2 DEF ShutdownCount, ShutdownSend, TypeOK
    <3>3. QED
      BY <3>1, <3>2, BooksUntouched
  <2>3. CASE ShutdownDrain(s)
    BY <2>3, DrainKeepsBooks
  <2>4. CASE ShutdownFinish(s)
    <3>1. UNCHANGED <<tasks, reg, nameOf, task, drained, joined>>
      BY <2>4 DEF ShutdownFinish, inputs, callVars, taskVars
    <3>2. joined[s] = drained[s]
      BY <2>4 DEF ShutdownFinish, Pending, OkMeansJoined
    <3>3. \A t \in Stoppers :
            stop'[t] = "ok" => stop[t] = "ok" \/ joined[t] = drained[t]
      BY <2>4, <3>2 DEF ShutdownFinish, TypeOK
    <3>4. QED
      BY <3>1, <3>3, BooksUntouched
  <2>5. ASSUME NEW c \in Calls, ShutdownJoin(s, c)
        PROVE  HandleAccounting' /\ OkMeansJoined'
    <3>1. UNCHANGED <<tasks, reg, nameOf, task, drained, stop>>
      BY <2>5 DEF ShutdownJoin, inputs, callVars, taskVars
    <3>2. /\ joined' = [joined EXCEPT ![s] = @ \cup {c}]
          /\ c \in drained[s]
          /\ task[c] = "returned"
          /\ stop[s] = "joining"
      BY <2>5 DEF ShutdownJoin, Pending
    <3>3. OkMeansJoined'
      BY <3>1, <3>2 DEF OkMeansJoined, TypeOK
    <3>4. HandleAccounting'
      BY <3>1 DEF HandleAccounting, MapEntriesOwned, HandlesMoveOnce,
                  NoHandleLost, Managed
    <3>5. QED
      BY <3>3, <3>4
  <2>6. ASSUME NEW c \in Calls, ShutdownFail(s, c)
        PROVE  HandleAccounting' /\ OkMeansJoined'
    <3>1. UNCHANGED <<tasks, reg, nameOf, task, drained, joined>>
      BY <2>6 DEF ShutdownFail, inputs, callVars, taskVars
    <3>2. \A t \in Stoppers : stop'[t] = "ok" => stop[t] = "ok"
      BY <2>6 DEF ShutdownFail, TypeOK
    <3>3. QED
      BY <3>1, <3>2, BooksUntouched
  <2>7. QED
    BY <1>4, <2>1, <2>2, <2>3, <2>4, <2>5, <2>6 DEF ShutdownStep
<1>5. ASSUME NEW s \in Stoppers, NEW c \in Calls, WrapperExpire(s, c)
      PROVE  HandleAccounting' /\ OkMeansJoined'
  BY <1>5, BooksUntouched DEF WrapperExpire, inputs, callVars, taskVars
<1>6. CASE UNCHANGED vars
  BY <1>6, BooksUntouched DEF vars, inputs, callVars, taskVars, stopVars
<1>7. QED
  BY <1>1, <1>2, <1>3, <1>4, <1>5, <1>6 DEF Next

\* However registrations and shutdowns interleave, every registered task's
\* handle has exactly one owner, and what Ok(n) counts has returned.
LEMMA Inductive == Spec => []IInv
<1>1. Init => IInv
  BY RuntimeAssumption
     DEF Init, IInv, TypeOK, HandleAccounting, MapEntriesOwned, Managed,
         HandlesMoveOnce, NoHandleLost, OkMeansJoined, NothingBeforeDrain
<1>2. TypeOK /\ TypeOK' /\ IInv /\ [Next]_vars => IInv'
  BY BooksKept, DrainFirst DEF IInv
<1>3. QED
  BY <1>1, <1>2, TypeCorrect, PTL DEF Spec

\* The handle of every registered task has exactly one owner, always.
THEOREM Accounting == Spec => []HandleAccounting
<1>1. IInv => HandleAccounting
  BY DEF IInv
<1>2. QED
  BY <1>1, Inductive, PTL

\* What a shutdown's Ok(n) counts is exactly what it drained, all returned.
THEOREM OkIsHonest == Spec => []OkMeansJoined
<1>1. IInv => OkMeansJoined
  BY DEF IInv
<1>2. QED
  BY <1>1, Inductive, PTL

-----------------------------------------------------------------------------
\* One caller at a time: there is one call under way, a registration finds the
\* runtime Running throughout, and what a shutdown has drained stays empty.
SerialOK ==
  callers = "serial" =>
    /\ \A c, d \in InCall : c = d
    /\ \A s, t \in InStop : s = t
    /\ InCall = {} \/ InStop = {}
    /\ InCall # {} => state = "Running"
    /\ \A s \in Stoppers : stop[s] = "joining" => Managed = {}

\* A task only runs once its call has spawned it.
SpawnedFirst ==
  \A c \in Calls : task[c] = "running" => reg[c] \in {"spawned", "ok", "duplicate"}

SInv == SpawnedFirst /\ SerialOK /\ SerialStopIsClean

\* A step that begins and ends no call, and starts no task, keeps it.
LEMMA SerialUntouched ==
  ASSUME TypeOK, SInv, UNCHANGED <<callers, state, tasks, reg, stop>>,
         \A c \in Calls : task'[c] = "running" => task[c] = "running"
  PROVE  SInv'
<1>1. SpawnedFirst'
  BY DEF SInv, SpawnedFirst
<1>2. SerialOK'
  BY DEF SInv, SerialOK, InCall, InStop, Managed
<1>3. SerialStopIsClean'
  BY DEF SInv, SerialStopIsClean
<1>4. QED
  BY <1>1, <1>2, <1>3 DEF SInv

\* A shutdown's own steps keep one caller's calls apart; it writes Stopped when
\* every handle of the runtime was its own and has returned.
LEMMA ShutdownKeepsSerial ==
  ASSUME IInv, SInv, NEW s \in Stoppers, ShutdownStep(s)
  PROVE  SInv'
<1> USE DEF IInv, inputs, callVars, taskVars
<1>1. /\ UNCHANGED <<callers, reg, task>> /\ InCall' = InCall
      /\ \A t \in Stoppers \ {s} : stop'[t] = stop[t]
  BY DEF ShutdownStep, ShutdownEnter, ShutdownCount, ShutdownSend, ShutdownDrain,
         ShutdownFinish, ShutdownJoin, ShutdownFail, TypeOK, InCall
<1>2. SpawnedFirst'
  BY <1>1 DEF SInv, SpawnedFirst
<1>3. CASE ShutdownEnter(s)
  <2>1. /\ stop[s] = "idle" /\ UNCHANGED tasks /\ MayBegin
        /\ \/ state = "Stopped" /\ stop'[s] = "ok" /\ UNCHANGED state
           \/ state = "Initialized" /\ stop'[s] = "err" /\ UNCHANGED state
           \/ state' = "Stopping" /\ stop'[s] = "counting"
    BY <1>3 DEF ShutdownEnter, TypeOK
  <2>2. InStop' \subseteq InStop \cup {s} /\ Managed' = Managed
    BY <1>1, <2>1 DEF InStop, Managed
  <2>3. SerialOK'
    <3>1. \A t \in Stoppers : stop'[t] = "joining" => stop[t] = "joining"
      BY <1>1, <2>1
    <3>2. QED
      BY <1>1, <2>1, <2>2, <3>1 DEF SInv, SerialOK, MayBegin
  <2>4. SerialStopIsClean'
    BY <1>1, <2>1 DEF SInv, SerialStopIsClean
  <2>5. QED
    BY <1>2, <2>3, <2>4 DEF SInv
<1>4. ASSUME s \in InStop, s \in InStop', UNCHANGED state,
             Managed' \subseteq Managed, stop'[s] = "joining" => Managed' = {}
      PROVE  SInv'
  <2>1. InStop' = InStop
    BY <1>1, <1>4 DEF InStop
  <2>2. SerialOK'
    BY <1>1, <1>4, <2>1 DEF SInv, SerialOK
  <2>3. stop[s] # "err"
    BY <1>4 DEF InStop
  <2>4. SerialStopIsClean'
    BY <1>1, <1>4, <2>3 DEF SInv, SerialStopIsClean
  <2>5. QED
    BY <1>2, <2>2, <2>4 DEF SInv
<1>5. CASE stop'[s] = "err" /\ stop[s] # "idle" /\ UNCHANGED <<state, tasks>>
  <2>1. InStop' \subseteq InStop /\ Managed' = Managed
    BY <1>1, <1>5 DEF InStop, Managed
  <2>2. \A t \in Stoppers : stop'[t] = "joining" => stop[t] = "joining"
    BY <1>1, <1>5
  <2>3. SerialOK'
    BY <1>1, <1>5, <2>1, <2>2 DEF SInv, SerialOK
  <2>4. SerialStopIsClean'
    BY <1>5 DEF SerialStopIsClean
  <2>5. QED
    BY <1>2, <2>3, <2>4 DEF SInv
<1>6. CASE ShutdownCount(s)
  <2>1. /\ stop[s] = "counting" /\ stop'[s] \in {"sending", "draining"}
        /\ UNCHANGED <<state, tasks>>
    BY <1>6 DEF ShutdownCount, TypeOK
  <2>2. QED
    BY <1>4, <2>1 DEF InStop, Managed
<1>7. CASE ShutdownSend(s)
  <2>1. /\ stop[s] = "sending" /\ stop'[s] \in {"draining", "err"}
        /\ UNCHANGED <<state, tasks>>
    BY <1>7 DEF ShutdownSend, TypeOK
  <2>2. QED
    BY <1>4, <1>5, <2>1 DEF InStop, Managed
<1>8. CASE ShutdownDrain(s)
  <2>1. /\ stop[s] = "draining" /\ stop'[s] = "joining" /\ UNCHANGED state
        /\ \A n \in Names : tasks'[n] = NoTask
    BY <1>8 DEF ShutdownDrain, TypeOK
  <2>2. Managed' = {}
    BY <2>1 DEF Managed
  <2>3. QED
    BY <1>4, <2>1, <2>2 DEF InStop
<1>9. ASSUME NEW c \in Calls, ShutdownJoin(s, c) PROVE SInv'
  <2>1. UNCHANGED <<state, tasks, stop>>
    BY <1>9 DEF ShutdownJoin
  <2>2. QED
    BY <1>1, <2>1, SerialUntouched
<1>10. ASSUME NEW c \in Calls, ShutdownFail(s, c) PROVE SInv'
  <2>1. stop[s] = "joining" /\ stop'[s] = "err" /\ UNCHANGED <<state, tasks>>
    BY <1>10 DEF ShutdownFail, TypeOK
  <2>2. QED
    BY <1>5, <2>1
<1>11. CASE ShutdownFinish(s)
  <2>1. /\ stop[s] = "joining" /\ stop'[s] = "ok" /\ UNCHANGED tasks
        /\ Pending(s) = {} /\ s \in InStop
    BY <1>11 DEF ShutdownFinish, TypeOK, InStop
  <2>2. InStop' \subseteq InStop /\ Managed' = Managed
    BY <1>1, <2>1 DEF InStop, Managed
  <2>3. \A t \in Stoppers : stop'[t] = "joining" => stop[t] = "joining"
    BY <1>1, <2>1
  <2>4. callers = "serial" => InCall = {}
    BY <2>1 DEF SInv, SerialOK
  <2>5. SerialOK'
    BY <1>1, <2>1, <2>2, <2>3, <2>4 DEF SInv, SerialOK
  <2>6. ASSUME callers = "serial", \A t \in Stoppers : stop'[t] # "err",
               NEW c \in Calls, task[c] = "running"
        PROVE  reg[c] = "duplicate"
    <3>1. reg[c] \in {"ok", "duplicate"}
      BY <2>4, <2>6 DEF SInv, SpawnedFirst, InCall
    <3>2. ASSUME reg[c] = "ok" PROVE FALSE
      <4>1. c \notin Managed
        BY <2>1, <2>6 DEF SInv, SerialOK
      <4>2. PICK t \in Stoppers : c \in drained[t]
        BY <3>2, <4>1 DEF HandleAccounting, NoHandleLost
      <4>3. c \notin joined[t]
        BY <2>6 DEF OkMeansJoined
      <4>4. t # s /\ stop[t] # "ok" /\ stop[t] # "err"
        BY <1>1, <2>1, <2>6, <4>2, <4>3 DEF Pending, OkMeansJoined
      <4>5. t \notin InStop
        BY <2>1, <2>6, <4>4 DEF SInv, SerialOK
      <4>6. stop[t] = "idle"
        BY <4>4, <4>5 DEF InStop, TypeOK
      <4>7. QED
        BY <4>2, <4>6 DEF NothingBeforeDrain
    <3>3. QED
      BY <3>1, <3>2
  <2>7. SerialStopIsClean'
    BY <1>1, <2>6 DEF SerialStopIsClean
  <2>8. QED
    BY <1>2, <2>5, <2>7 DEF SInv
<1>12. QED
  BY <1>3, <1>6, <1>7, <1>8, <1>9, <1>10, <1>11 DEF ShutdownStep

LEMMA RegisterKeepsSerial ==
  ASSUME IInv, SInv, NEW c \in Calls, Register(c)
  PROVE  SInv'
<1> USE DEF IInv, inputs, callVars, taskVars, stopVars
<1>1. UNCHANGED <<callers, state, stop>> /\ InStop' = InStop
  BY DEF Register, RegisterCheck, RegisterSpawn, RegisterInsert, InStop
<1>2. CASE RegisterCheck(c)
  <2>1. /\ MayBegin /\ UNCHANGED <<tasks, task>> /\ reg[c] = "idle"
        /\ reg'[c] = IF state = "Running" THEN "checked" ELSE "rejected"
        /\ \A d \in Calls \ {c} : reg'[d] = reg[d]
    BY <1>2 DEF RegisterCheck, TypeOK
  <2>2. SpawnedFirst'
    BY <2>1 DEF SInv, SpawnedFirst
  <2>3. /\ InCall' \subseteq InCall \cup {c} /\ Managed' = Managed
        /\ InCall' # InCall => state = "Running"
    BY <2>1 DEF InCall, Managed
  <2>4. SerialOK'
    BY <1>1, <2>1, <2>3 DEF SInv, SerialOK, MayBegin
  <2>5. task[c] # "running"
    BY <2>1 DEF SInv, SpawnedFirst
  <2>6. SerialStopIsClean'
    BY <1>1, <2>1, <2>5 DEF SInv, SerialStopIsClean
  <2>7. QED
    BY <2>2, <2>4, <2>6 DEF SInv
<1>3. CASE RegisterSpawn(c) \/ RegisterInsert(c)
  <2>1. /\ c \in InCall /\ \A d \in Calls \ {c} : reg'[d] = reg[d]
        /\ reg'[c] \in {"spawned", "ok", "duplicate"}
        /\ \A d \in Calls \ {c} : task'[d] = task[d]
    BY <1>3 DEF RegisterSpawn, RegisterInsert, InCall, TypeOK
  <2>2. SpawnedFirst'
    BY <2>1 DEF SInv, SpawnedFirst
  <2>3. InCall' \subseteq InCall
    BY <2>1 DEF InCall
  <2>4. SerialOK'
    <3>1. callers = "serial" => InStop = {}
      BY <2>1 DEF SInv, SerialOK
    <3>2. callers = "serial" => \A s \in Stoppers : stop[s] # "joining"
      BY <3>1 DEF InStop
    <3>3. QED
      BY <1>1, <2>1, <2>3, <3>1, <3>2 DEF SInv, SerialOK
  <2>5. callers = "serial" => state' # "Stopped"
    BY <1>1, <2>1 DEF SInv, SerialOK
  <2>6. SerialStopIsClean'
    BY <1>1, <2>5 DEF SerialStopIsClean
  <2>7. QED
    BY <2>2, <2>4, <2>6 DEF SInv
<1>4. QED
  BY <1>2, <1>3 DEF Register

LEMMA SerialKept ==
  ASSUME IInv, SInv, [Next]_vars
  PROVE  SInv'
<1>1. CASE Start
  <2>1. /\ MayBegin /\ state' = "Running"
        /\ UNCHANGED <<callers, tasks, reg, task, stop>>
    BY <1>1 DEF Start, inputs, callVars, taskVars, stopVars
  <2>2. InCall' = InCall /\ InStop' = InStop /\ Managed' = Managed
    BY <2>1 DEF InCall, InStop, Managed
  <2>3. SpawnedFirst' /\ SerialOK' /\ SerialStopIsClean'
    BY <2>1, <2>2 DEF SInv, SpawnedFirst, SerialOK, SerialStopIsClean
  <2>4. QED
    BY <2>3 DEF SInv
<1>2. ASSUME NEW c \in Calls, TaskReturn(c) \/ TaskPanic(c) PROVE SInv'
  <2>1. UNCHANGED <<callers, state, tasks, reg, stop>>
    BY <1>2 DEF TaskReturn, TaskPanic, inputs, callVars, stopVars
  <2>2. \A d \in Calls : task'[d] = "running" => task[d] = "running"
    BY <1>2 DEF TaskReturn, TaskPanic, IInv, TypeOK
  <2>3. QED
    BY <2>1, <2>2, SerialUntouched DEF IInv
<1>3. ASSUME NEW s \in Stoppers, NEW c \in Calls, WrapperExpire(s, c) PROVE SInv'
  BY <1>3, SerialUntouched DEF WrapperExpire, inputs, callVars, taskVars, IInv
<1>4. CASE UNCHANGED vars
  BY <1>4, SerialUntouched
     DEF vars, inputs, callVars, taskVars, stopVars, IInv
<1>5. QED
  BY <1>1, <1>2, <1>3, <1>4, ShutdownKeepsSerial, RegisterKeepsSerial DEF Next

\* One caller at a time, and no shutdown failed: a Stopped runtime has left no
\* task behind but one it had spawned before it refused the name.
THEOREM SerialStopLeavesNone == Spec => []SerialStopIsClean
<1>1. Init => SInv
  BY DEF Init, SInv, SpawnedFirst, SerialOK, SerialStopIsClean, InCall, InStop,
         Managed
<1>2. IInv /\ SInv /\ [Next]_vars => SInv'
  BY SerialKept
<1>3. SInv => SerialStopIsClean
  BY DEF SInv
<1>4. QED
  BY <1>1, <1>2, <1>3, Inductive, PTL DEF Spec

-----------------------------------------------------------------------------
\* DesktopRuntime.

Alive(t) == step[t] \in {"select", "count"}

\* The bus is sent 1, 2, 3, ..., and a living task has read no further than
\* its end.
LogOK ==
  /\ log \in Seq(Nat)
  /\ last <= Len(log)
  /\ \A t \in Tasks : Alive(t) => cursor[t] <= Len(log) + 1
  /\ \A t \in Tasks : Alive(t) => cursor[t] >= 1
  /\ \A t \in Tasks : step[t] = "count" => cursor[t] > 1

\* Where the sender and the JoinHandle of a task are: in the owner, in the stop
\* under way, or used up; the channel of the stored sender is open.
HandlesOK ==
  /\ owner \in {"send", "join", "dropped"} => stop_tx = None
  /\ owner \in {"join", "dropped"} => join_handle = None
  /\ owner = "send" => stopping = join_handle /\ mail[stopping] = "open"
  /\ stop_tx # None => mail[stop_tx] = "open" /\ step[stop_tx] # "unborn"
  /\ stopping # None => step[stopping] # "unborn"
  /\ \A t \in Tasks :
       /\ step[t] = "unborn" => mail[t] = "open"
       /\ step[t] = "gone" /\ mail[t] = "open" => "killed" \in faults

\* Without a cancelled stop one task at most is alive, the one whose handle is
\* stored or that a stop waits for, until the runtime is dropped.
OneAlive ==
  "cancelled" \notin faults =>
    /\ \A t, u \in Tasks : Alive(t) /\ Alive(u) => t = u
    /\ \A t \in Tasks : Alive(t) =>
         \/ t = join_handle
         \/ owner = "join" /\ t = stopping
         \/ owner = "dropped"

\* That task has read past what was counted last, and an event it is about to
\* count is a later one.
ReadsOn ==
  "cancelled" \notin faults =>
    \A t \in Tasks :
      /\ step[t] = "select" => last < cursor[t]
      /\ step[t] = "count" => last < cursor[t] - 1

\* No event after the last one has been counted.
CountedOK ==
  "cancelled" \notin faults =>
    counted \subseteq 1..last /\ total = Cardinality(counted)

DesktopIInv ==
  DesktopTypeOK /\ LogOK /\ HandlesOK /\ OneAlive /\ ReadsOn /\ CountedOK

-----------------------------------------------------------------------------
\* None is no task.
LEMMA NoneIsNoTask == None \notin Tasks
BY DesktopAssumption DEF Tasks

\* The variables keep their types, and the log its numbering.
LEMMA DesktopTypesKept ==
  ASSUME DesktopTypeOK, LogOK, HandlesOK, [DesktopNext]_desktopVars
  PROVE  DesktopTypeOK' /\ LogOK'
<1> USE NoneIsNoTask, DesktopAssumption DEF DesktopTypeOK, LogOK, HandlesOK, Alive,
        snapshot, handles, Subscribed, HasNext, HasLagged
<1>1. CASE Publish
  BY <1>1 DEF Publish
<1>2. CASE StopTakeSender
  BY <1>2 DEF StopTakeSender
<1>3. CASE StopSend
  <2> HIDE DEF LogOK, Alive, Subscribed, HasNext, HasLagged
  <2>1. stopping \in Tasks /\ owner = "send" /\ mail[stopping] = "open"
    BY <1>3 DEF StopSend
  <2>2. /\ UNCHANGED <<log, snapshot, stop_tx, step, cursor, faults>>
        /\ mail' \in [Tasks -> {"open", "stop", "closed"}]
        /\ \/ owner' = "idle" /\ stopping' = None /\ join_handle' = join_handle
           \/ owner' = "join" /\ stopping' = stopping /\ join_handle' = None
    BY <1>3, <2>1 DEF StopSend
  <2>3. step[stopping] = "gone" => "killed" \in faults
    BY <2>1
  <2>4. stop_tx = None /\ (step[stopping] # "gone" => owner' = "join")
    BY <1>3, <2>1 DEF StopSend
  <2>5. DesktopTypeOK'
    <3>1. /\ {stop_tx', join_handle', stopping'} \subseteq Tasks \cup {None}
          /\ owner' \in {"idle", "send", "join", "dropped"}
          /\ stopping' # None <=> owner' \in {"send", "join"}
      BY <2>1, <2>2
    <3>2. owner' = "idle" /\ faults' = {} => stop_tx' = join_handle'
      BY <2>2, <2>3, <2>4
    <3>3. QED
      BY <2>2, <2>4, <3>1, <3>2
  <2>6. LogOK'
    BY <2>2 DEF LogOK, Alive
  <2>7. QED
    BY <2>5, <2>6
<1>4. CASE StopJoin
  BY <1>4 DEF StopJoin
<1>5. CASE CancelStop
  BY <1>5 DEF CancelStop
<1>6. CASE DropRuntime
  BY <1>6 DEF DropRuntime
<1>7. ASSUME NEW t \in Tasks, StartTask(t) PROVE DesktopTypeOK' /\ LogOK'
  BY <1>7 DEF StartTask
<1>8. ASSUME NEW t \in Tasks, Receive(t) PROVE DesktopTypeOK' /\ LogOK'
  <2>1. UNCHANGED <<log, snapshot, handles, mail, faults>> /\ step[t] = "select"
    BY <1>8 DEF Receive
  <2>2. cursor[t] \in Nat /\ Len(log) \in Nat /\ cursor[t] <= Len(log)
    BY <1>8 DEF Receive
  <2>3. PICK k \in 1 .. Len(log) + 1 :
          /\ cursor' = [cursor EXCEPT ![t] = k]
          /\ \/ step' = step
             \/ step' = [step EXCEPT ![t] = "count"] /\ k > 1
    <3>1. Capacity \in Nat /\ Capacity > 0 /\ cursor[t] >= 1
      BY <2>1
    <3>2. CASE HasLagged(log, cursor[t], Capacity)
      <4>1. cursor' = [cursor EXCEPT ![t] = Len(log) + 1 - Capacity] /\ UNCHANGED step
        BY <1>8, <3>2 DEF Receive
      <4>2. Len(log) + 1 - Capacity \in 1 .. Len(log) + 1
        BY <2>2, <3>1, <3>2
      <4>3. QED
        BY <4>1, <4>2
    <3>3. CASE ~HasLagged(log, cursor[t], Capacity)
      <4>1. /\ cursor' = [cursor EXCEPT ![t] = cursor[t] + 1]
            /\ step' = [step EXCEPT ![t] = "count"]
        BY <1>8, <3>3 DEF Receive
      <4>2. cursor[t] + 1 \in 1 .. Len(log) + 1 /\ cursor[t] + 1 > 1
        BY <2>2, <3>1
      <4>3. QED
        BY <4>1, <4>2
    <3>4. QED
      BY <3>2, <3>3
  <2>4. k \in Nat /\ 1 <= k /\ k <= Len(log) + 1
    BY <2>2, <2>3
  <2>5. /\ cursor' \in [Tasks -> Nat]
        /\ step' \in [Tasks -> {"unborn", "select", "count", "gone"}]
    BY <2>3, <2>4
  <2>6. DesktopTypeOK'
    BY <2>1, <2>5
  <2>7. \A u \in Tasks : /\ cursor'[u] = IF u = t THEN k ELSE cursor[u]
                         /\ step'[u] # step[u] => u = t /\ k > 1 /\ Alive(t)
    BY <2>1, <2>3
  <2>8. LogOK'
    BY <2>1, <2>2, <2>4, <2>7
  <2>9. QED
    BY <2>6, <2>8
<1>9. ASSUME NEW t \in Tasks, Count(t) PROVE DesktopTypeOK' /\ LogOK'
  <2>1. /\ UNCHANGED <<log, handles, mail, cursor, faults>>
        /\ step' = [step EXCEPT ![t] = "select"] /\ step[t] = "count"
    BY <1>9 DEF Count
  <2>2. cursor[t] - 1 \in 1 .. Len(log)
    BY <2>1
  <2>3. last' \in Nat /\ last' <= Len(log) /\ total' \in Nat /\ counted' \subseteq Nat
    <3>1. last' \in Nat /\ last' <= Len(log) /\ total' \in Nat
      BY <1>9, <2>2 DEF Count
    <3>2. counted' = counted \cup {last'}
      BY <1>9 DEF Count
    <3>3. QED
      BY <3>1, <3>2
  <2>4. DesktopTypeOK'
    BY <2>1, <2>3
  <2>5. LogOK'
    BY <2>1, <2>3
  <2>6. QED
    BY <2>4, <2>5
<1>10. ASSUME NEW t \in Tasks, Break(t) PROVE DesktopTypeOK' /\ LogOK'
  BY <1>10 DEF Break
<1>11. ASSUME NEW t \in Tasks, Kill(t) PROVE DesktopTypeOK' /\ LogOK'
  BY <1>11 DEF Kill
<1>12. CASE UNCHANGED desktopVars
  BY <1>12 DEF desktopVars, snapshot, handles
<1>13. QED
  BY <1>1, <1>2, <1>3, <1>4, <1>5, <1>6, <1>7, <1>8, <1>9, <1>10, <1>11, <1>12
     DEF DesktopNext, Owner

\* The handles are where the owner's calls put them.
LEMMA HandlesKept ==
  ASSUME DesktopTypeOK, HandlesOK, [DesktopNext]_desktopVars
  PROVE  HandlesOK'
<1> USE NoneIsNoTask DEF DesktopTypeOK, HandlesOK, snapshot, handles
<1>1. CASE Publish
  BY <1>1 DEF Publish
<1>2. CASE StopTakeSender
  BY <1>2 DEF StopTakeSender
<1>3. CASE StopSend
  BY <1>3 DEF StopSend
<1>4. CASE StopJoin
  BY <1>4 DEF StopJoin
<1>5. CASE CancelStop
  BY <1>5 DEF CancelStop
<1>6. CASE DropRuntime
  BY <1>6 DEF DropRuntime
<1>7. ASSUME NEW t \in Tasks, StartTask(t) PROVE HandlesOK'
  BY <1>7 DEF StartTask
<1>8. ASSUME NEW t \in Tasks, Receive(t) PROVE HandlesOK'
  BY <1>8 DEF Receive
<1>9. ASSUME NEW t \in Tasks, Count(t) PROVE HandlesOK'
  BY <1>9 DEF Count
<1>10. ASSUME NEW t \in Tasks, Break(t) PROVE HandlesOK'
  BY <1>10 DEF Break
<1>11. ASSUME NEW t \in Tasks, Kill(t) PROVE HandlesOK'
  BY <1>11 DEF Kill
<1>12. CASE UNCHANGED desktopVars
  BY <1>12 DEF desktopVars, snapshot, handles
<1>13. QED
  BY <1>1, <1>2, <1>3, <1>4, <1>5, <1>6, <1>7, <1>8, <1>9, <1>10, <1>11, <1>12
     DEF DesktopNext, Owner

\* A task is started only when none is alive.
LEMMA OneAliveKept ==
  ASSUME DesktopTypeOK, HandlesOK, OneAlive, [DesktopNext]_desktopVars
  PROVE  OneAlive'
<1> USE NoneIsNoTask DEF DesktopTypeOK, HandlesOK, OneAlive, Alive, snapshot, handles
<1>1. CASE Publish
  BY <1>1 DEF Publish
<1>2. CASE StopTakeSender
  BY <1>2 DEF StopTakeSender
<1>3. CASE StopSend
  BY <1>3 DEF StopSend
<1>4. CASE StopJoin
  BY <1>4 DEF StopJoin
<1>5. CASE CancelStop
  BY <1>5 DEF CancelStop
<1>6. CASE DropRuntime
  BY <1>6 DEF DropRuntime
<1>7. ASSUME NEW t \in Tasks, StartTask(t) PROVE OneAlive'
  BY <1>7 DEF StartTask
<1>8. ASSUME NEW t \in Tasks, Receive(t) PROVE OneAlive'
  BY <1>8 DEF Receive
<1>9. ASSUME NEW t \in Tasks, Count(t) PROVE OneAlive'
  BY <1>9 DEF Count
<1>10. ASSUME NEW t \in Tasks, Break(t) PROVE OneAlive'
  BY <1>10 DEF Break
<1>11. ASSUME NEW t \in Tasks, Kill(t) PROVE OneAlive'
  BY <1>11 DEF Kill
<1>12. CASE UNCHANGED desktopVars
  BY <1>12 DEF desktopVars, snapshot, handles
<1>13. QED
  BY <1>1, <1>2, <1>3, <1>4, <1>5, <1>6, <1>7, <1>8, <1>9, <1>10, <1>11, <1>12
     DEF DesktopNext, Owner

\* A task reads on from what was counted last.
LEMMA ReadsOnKept ==
  ASSUME DesktopIInv, [DesktopNext]_desktopVars
  PROVE  ReadsOn'
<1> USE NoneIsNoTask, DesktopAssumption
    DEF DesktopIInv, DesktopTypeOK, LogOK, OneAlive, ReadsOn, Alive, snapshot, handles,
        Subscribed, HasNext, HasLagged
<1>1. CASE Publish
  BY <1>1 DEF Publish
<1>2. CASE StopTakeSender
  BY <1>2 DEF StopTakeSender
<1>3. CASE StopSend
  BY <1>3 DEF StopSend
<1>4. CASE StopJoin
  BY <1>4 DEF StopJoin
<1>5. CASE CancelStop
  BY <1>5 DEF CancelStop
<1>6. CASE DropRuntime
  BY <1>6 DEF DropRuntime
<1>7. ASSUME NEW t \in Tasks, StartTask(t) PROVE ReadsOn'
  BY <1>7 DEF StartTask
<1>8. ASSUME NEW t \in Tasks, Receive(t) PROVE ReadsOn'
  <2>1. UNCHANGED <<log, total, last, faults>> /\ step[t] = "select"
    BY <1>8 DEF Receive
  <2>2. CASE HasLagged(log, cursor[t], Capacity)
    <3>1. cursor' = [cursor EXCEPT ![t] = Len(log) + 1 - Capacity] /\ UNCHANGED step
      BY <1>8, <2>2 DEF Receive
    <3>2. Capacity \in Nat /\ cursor[t] \in Nat /\ Len(log) \in Nat
      OBVIOUS
    <3>3. Len(log) + 1 - Capacity > cursor[t]
      BY <2>2, <3>2
    <3>4. "cancelled" \notin faults => last < Len(log) + 1 - Capacity
      BY <2>1, <3>2, <3>3
    <3>5. QED
      BY <2>1, <3>1, <3>4
  <2>3. CASE ~HasLagged(log, cursor[t], Capacity)
    <3>1. /\ cursor' = [cursor EXCEPT ![t] = cursor[t] + 1]
          /\ step' = [step EXCEPT ![t] = "count"]
      BY <1>8, <2>3 DEF Receive
    <3>2. cursor[t] \in Nat
      OBVIOUS
    <3>3. QED
      BY <2>1, <3>1, <3>2
  <2>4. QED
    BY <2>2, <2>3
<1>9. ASSUME NEW t \in Tasks, Count(t) PROVE ReadsOn'
  <2>1. /\ UNCHANGED <<log, handles, mail, cursor, faults>>
        /\ step' = [step EXCEPT ![t] = "select"] /\ step[t] = "count"
    BY <1>9 DEF Count
  <2>2. cursor[t] - 1 \in 1 .. Len(log)
    BY <2>1
  <2>3. last' = cursor[t] - 1
    BY <1>9, <2>2 DEF Count
  <2>4. "cancelled" \notin faults =>
          /\ \A u \in Tasks : Alive(u) => u = t
          /\ last < cursor[t] - 1
    BY <2>1
  <2>5. "cancelled" \notin faults => last' < cursor'[t]
    BY <2>1, <2>2, <2>3, <2>4
  <2>6. \A u \in Tasks : step'[u] = IF u = t THEN "select" ELSE step[u]
    BY <2>1
  <2>7. QED
    BY <2>1, <2>4, <2>5, <2>6
<1>10. ASSUME NEW t \in Tasks, Break(t) PROVE ReadsOn'
  BY <1>10 DEF Break
<1>11. ASSUME NEW t \in Tasks, Kill(t) PROVE ReadsOn'
  BY <1>11 DEF Kill
<1>12. CASE UNCHANGED desktopVars
  BY <1>12 DEF desktopVars, snapshot, handles
<1>13. QED
  BY <1>1, <1>2, <1>3, <1>4, <1>5, <1>6, <1>7, <1>8, <1>9, <1>10, <1>11, <1>12
     DEF DesktopNext, Owner

\* What is counted has not been counted before.
LEMMA CountedKept ==
  ASSUME DesktopIInv, [DesktopNext]_desktopVars
  PROVE  CountedOK'
<1>1. ASSUME NEW t \in Tasks, Count(t), "cancelled" \notin faults
      PROVE  counted' \subseteq 1..last' /\ total' = Cardinality(counted')
  <2>1. /\ cursor[t] \in Nat /\ cursor[t] - 1 \in 1 .. Len(log)
        /\ total \in Nat /\ last \in Nat /\ last < cursor[t] - 1
        /\ counted \subseteq 1..last /\ total = Cardinality(counted)
    BY <1>1 DEF Count, DesktopIInv, DesktopTypeOK, LogOK, Alive, ReadsOn, CountedOK
  <2>2. /\ total' = total + 1 /\ last' = cursor[t] - 1
        /\ counted' = counted \cup {last'}
    BY <1>1, <2>1 DEF Count, DesktopIInv, DesktopTypeOK
  <2>3. last' \notin counted /\ counted' \subseteq 1..last'
    <3>1. \A x \in counted : x \in Nat /\ 1 <= x /\ x <= last
      BY <2>1
    <3>2. last' \in Nat /\ last < last' /\ 1 <= last'
      BY <2>1, <2>2
    <3>3. last' \notin counted
      BY <2>1, <3>1, <3>2
    <3>4. \A x \in counted : x \in 1..last'
      BY <2>1, <3>1, <3>2
    <3>5. QED
      BY <2>2, <3>2, <3>3, <3>4
  <2>4. IsFiniteSet(counted)
    <3>1. IsFiniteSet(1..last)
      BY <2>1, FS_Interval
    <3>2. QED
      BY <2>1, <3>1, FS_Subset
  <2>5. Cardinality(counted \cup {last'}) = Cardinality(counted) + 1
    BY <2>3, <2>4, FS_AddElement
  <2>6. QED
    BY <2>1, <2>2, <2>3, <2>5
<1>2. ASSUME UNCHANGED snapshot, faults \subseteq faults'
      PROVE  CountedOK'
  BY <1>2 DEF snapshot, DesktopIInv, CountedOK
<1>3. \/ UNCHANGED snapshot /\ faults \subseteq faults'
      \/ \E t \in Tasks : Count(t)
  BY DEF DesktopNext, Owner, Publish, StopTakeSender, StopSend, StopJoin, CancelStop,
         DropRuntime, StartTask, Receive, Break, Kill, desktopVars
<1>4. (\E t \in Tasks : Count(t)) => faults' = faults
  BY DEF Count
<1>5. QED
  BY <1>1, <1>2, <1>3, <1>4 DEF CountedOK

\* The inductive invariant holds for all constants.
LEMMA DesktopInductive == DesktopSpec => []DesktopIInv
<1>1. DesktopInit => DesktopIInv
  BY NoneIsNoTask, FS_EmptySet
     DEF DesktopInit, DesktopIInv, DesktopTypeOK, LogOK, HandlesOK, OneAlive, ReadsOn,
         CountedOK, Alive
<1>2. DesktopIInv /\ [DesktopNext]_desktopVars => DesktopIInv'
  BY DesktopTypesKept, HandlesKept, OneAliveKept, ReadsOnKept, CountedKept DEF DesktopIInv
<1>3. QED
  BY <1>1, <1>2, PTL DEF DesktopSpec

\* Every variable keeps its type and the two handles come and go together:
\* start and stop are refused for ever only after a fault.
THEOREM DesktopTypeCorrect == DesktopSpec => []DesktopTypeOK
<1>1. DesktopIInv => DesktopTypeOK
  BY DEF DesktopIInv
<1>2. QED
  BY <1>1, DesktopInductive, PTL

\* However often the task is stopped and started, no event is counted twice
\* unless a stop was cancelled, for any capacity and number of events and tasks.
THEOREM CountedOnce == DesktopSpec => []CountsOnce
<1>1. DesktopIInv => CountsOnce
  BY DEF DesktopIInv, CountedOK, CountsOnce
<1>2. QED
  BY <1>1, DesktopInductive, PTL

=============================================================================
