------------------------ MODULE PluginManager_proofs ------------------------
(***************************************************************************)
(* Proofs, for any number of calls, names and plugins of any runtime, that *)
(* the registry holds exactly the instances that loaded and that a         *)
(* dispatch leaves none out.                                               *)
(***************************************************************************)
EXTENDS MCPluginManager, TLAPS

\* The types of all variables but the queue of the lock.
TypesButQueue ==
  /\ loads \in {"overlapping", "one_at_a_time"}
  /\ registry \in [Names -> Calls \cup {None}]
  /\ instance \in [Calls -> {"none", "loading", "failed", "active", "dropped",
                             "unloading", "unloaded", "abandoned"}]
  /\ pc \in [Calls -> {"idle", "check", "load", "insert", "remove", "unload",
                       "snapshot", "calling", "stalled", "read", "ok", "err",
                       "dropped"}]
  /\ op \in [Calls -> {"none", "load", "unload", "dispatch", "read"}]
  /\ nameOf \in [Calls -> Names \cup {None}]
  /\ victim \in [Calls -> Calls \cup {None}]
  /\ readers \subseteq Calls
  /\ todo \in [Calls -> SUBSET Names]
  /\ reached \in [Calls -> SUBSET Calls]

\* A call with a name to work on, and what the others have left blank.
CallsOK ==
  \A p \in Calls :
    /\ pc[p] \in {"check", "load", "insert", "remove"} =>
         nameOf[p] \in Names /\ victim[p] = None
    /\ pc[p] = "idle" => victim[p] = None
    /\ pc[p] \in {"idle", "snapshot"} => reached[p] = {}
    /\ pc[p] = "unload" => victim[p] \in Calls

\* Where the instance of a load under way stands.
LoadsOK ==
  \A p \in Calls :
    /\ pc[p] \in {"idle", "check", "remove", "unload"} => instance[p] = "none"
    /\ pc[p] \in {"load", "insert"} => instance[p] = "loading"

\* An entry of the registry is an instance whose load has put it there, under
\* the name of that load: no instance has two names.
EntriesOwned ==
  \A n \in Names : registry[n] # None =>
    instance[registry[n]] = "active" /\ nameOf[registry[n]] = n

ActiveRegistered ==
  \A i \in Calls : instance[i] = "active" =>
    /\ pc[i] = "ok"
    /\ nameOf[i] \in Names /\ registry[nameOf[i]] = i

\* An instance that is being unloaded has left the registry, in one call.
UnloadingOwned ==
  /\ \A p, q \in Calls :
       pc[p] = "unload" /\ pc[q] = "unload" /\ p # q => victim[p] # victim[q]
  /\ \A p \in Calls : pc[p] = "unload" => instance[victim[p]] = "unloading"

\* Loads that do not overlap: the name of the one under way stays free.
LoadsAlone ==
  loads = "one_at_a_time" =>
    /\ \A p, q \in Loading : p = q
    /\ \A p \in Calls : pc[p] \in {"load", "insert"} => registry[nameOf[p]] = None
    /\ \A i \in Calls : instance[i] # "dropped"

\* A dispatch that calls plugins holds the lock, and calls registered ones.
DispatchHolds ==
  \A p \in Calls : pc[p] \in {"calling", "stalled"} =>
    p \in readers /\ todo[p] \subseteq Registered

RegistryOK ==
  LoadsOK /\ EntriesOwned /\ ActiveRegistered /\ UnloadingOwned /\ LoadsAlone

IInv == TypeOK /\ CallsOK /\ RegistryOK /\ DispatchHolds /\ DispatchComplete

-----------------------------------------------------------------------------
\* Every answer of a plugin is one of three, and "stalled" one of events only.
LEMMA AnswersType ==
  ASSUME NEW i \in Calls, NEW phase, NEW answer \in Answers(i, phase)
  PROVE  /\ answer \in {"ok", "err", "stalled"}
         /\ answer = "stalled" => phase = "event"
<1>1. DOMAIN FromStdout = {"not utf-8", "blank", "an action", "other json"}
  BY DEF FromStdout
<1>2. \A b \in DOMAIN FromStdout : FromStdout[b] \in {"ok", "err"}
  BY DEF FromStdout
<1>3. Kind[i] \in {"rust", "wasm", "http"}
  BY PluginAssumption
<1>4. QED
  BY <1>1, <1>2, <1>3 DEF Answers, RustPlugin, WasmPlugin, HttpPlugin

\* A call that leaves the queue leaves a queue of calls.
LEMMA LeftQueue ==
  ASSUME queue \in Seq(Calls), NEW p \in Calls, LeaveQueue(p)
  PROVE  queue' \in Seq(Calls)
<1>1. CASE \A i \in DOMAIN queue : queue[i] # p
  BY <1>1 DEF LeaveQueue
<1>2. CASE ~ \A i \in DOMAIN queue : queue[i] # p
  <2>1. PICK i \in DOMAIN queue :
          queue' = SubSeq(queue, 1, i - 1) \o SubSeq(queue, i + 1, Len(queue))
    BY <1>2 DEF LeaveQueue
  <2>2. i \in 1..Len(queue)
    BY <2>1
  <2>3. SubSeq(queue, 1, i - 1) \in Seq(Calls)
    BY <2>2
  <2>4. SubSeq(queue, i + 1, Len(queue)) \in Seq(Calls)
    BY <2>2
  <2>5. QED
    BY <2>1, <2>3, <2>4
<1>3. QED
  BY <1>1, <1>2

\* What the start of a call does: it draws the operation and the name, and
\* waits for the lock, or is refused at once.
Drawn(p, label, n) ==
  /\ pc' = [pc EXCEPT ![p] = label]
  /\ nameOf' = [nameOf EXCEPT ![p] = n]
  /\ label \in {"check", "remove"} => n \in Names
  /\ label = "check" /\ loads = "one_at_a_time" => Loading = {}

Labels == {"check", "remove", "snapshot", "read", "err"}

LEMMA BeginStep ==
  ASSUME TypeOK, NEW p \in Calls, Begin(p)
  PROVE  /\ pc[p] = "idle"
         /\ UNCHANGED <<loads, registry, instance, victim, readers, dispatchVars>>
         /\ op' \in [Calls -> {"none", "load", "unload", "dispatch", "read"}]
         /\ queue' \in Seq(Calls)
         /\ \E label \in Labels, n \in Names \cup {None} : Drawn(p, label, n)
<1>1. queue \in Seq(Calls) /\ Append(queue, p) \in Seq(Calls)
  BY DEF TypeOK
<1>2. op' \in [Calls -> {"none", "load", "unload", "dispatch", "read"}]
  BY DEF TypeOK, Begin, BeginDispatch, BeginRead, BeginLoad, BeginUnload
<1>3. queue' \in Seq(Calls)
  BY <1>1 DEF Begin, BeginDispatch, BeginRead, BeginLoad, BeginUnload, Wait
<1>4. UNCHANGED nameOf => nameOf' = [nameOf EXCEPT ![p] = nameOf[p]]
  BY DEF TypeOK
<1>5. nameOf[p] \in Names \cup {None}
  BY DEF TypeOK
<1>6. CASE BeginDispatch(p)
  <2>1. Drawn(p, "snapshot", nameOf[p])
    BY <1>4, <1>6 DEF BeginDispatch, Wait, Goto, Drawn
  <2>2. QED
    BY <1>2, <1>3, <1>5, <2>1 DEF Begin, Labels
<1>7. CASE BeginRead(p)
  <2>1. Drawn(p, "read", nameOf[p])
    BY <1>4, <1>7 DEF BeginRead, Wait, Goto, Drawn
  <2>2. QED
    BY <1>2, <1>3, <1>5, <2>1 DEF Begin, Labels
<1>8. ASSUME NEW n \in Names, BeginUnload(p, n)
      PROVE  Drawn(p, "remove", n)
  BY <1>8 DEF BeginUnload, Wait, Goto, Drawn
<1>9. ASSUME NEW n \in Names, BeginLoad(p, n)
      PROVE  Drawn(p, "check", n) \/ Drawn(p, "err", nameOf[p])
  <2>1. CASE Wait(p, "check") /\ nameOf' = [nameOf EXCEPT ![p] = n]
    BY <1>9, <2>1 DEF BeginLoad, Wait, Goto, Drawn
  <2>2. CASE Goto(p, "err") /\ UNCHANGED <<queue, nameOf>>
    BY <1>4, <2>2 DEF Goto, Drawn
  <2>3. QED
    BY <1>9, <2>1, <2>2 DEF BeginLoad
<1>10. QED
  BY <1>2, <1>3, <1>5, <1>6, <1>7, <1>8, <1>9 DEF Begin, Labels

\* None is no call.
LEMMA NoneIsNoCall == None \notin Calls
BY PluginAssumption

\* The queue of the lock stays a queue of calls.
LEMMA QueueKept ==
  ASSUME TypeOK, [Next]_vars
  PROVE  queue' \in Seq(Calls)
<1>1. queue \in Seq(Calls)
  BY DEF TypeOK
<1>2. ASSUME NEW p \in Calls, Begin(p) PROVE queue' \in Seq(Calls)
  BY <1>2, BeginStep
<1>3. ASSUME NEW p \in Calls, LoadCheck(p) PROVE queue' \in Seq(Calls)
  BY <1>1, <1>3 DEF LoadCheck, MayRead, MayWrite
<1>4. ASSUME NEW p \in Calls, LoadInsert(p) PROVE queue' \in Seq(Calls)
  BY <1>1, <1>4 DEF LoadInsert, MayRead, MayWrite
<1>5. ASSUME NEW p \in Calls, Remove(p) PROVE queue' \in Seq(Calls)
  BY <1>1, <1>5 DEF Remove, MayRead, MayWrite
<1>6. ASSUME NEW p \in Calls, Snapshot(p) PROVE queue' \in Seq(Calls)
  BY <1>1, <1>6 DEF Snapshot, MayRead, MayWrite
<1>7. ASSUME NEW p \in Calls, Read(p) PROVE queue' \in Seq(Calls)
  BY <1>1, <1>7 DEF Read, MayRead, MayWrite
<1>8. ASSUME NEW p \in Calls, LoadBackend(p) PROVE queue' \in Seq(Calls)
  BY <1>1, <1>8 DEF LoadBackend, Wait
<1>9. ASSUME NEW p \in Calls, CallDropped(p) PROVE queue' \in Seq(Calls)
  BY <1>1, <1>9, LeftQueue DEF CallDropped
<1>10. ASSUME NEW p \in Calls,
             UnloadBackend(p) \/ DispatchDone(p) \/ \E n \in Names : CallPlugin(p, n)
      PROVE  queue' \in Seq(Calls)
  BY <1>1, <1>10 DEF UnloadBackend, DispatchDone, CallPlugin, lockVars
<1>11. CASE UNCHANGED vars
  BY <1>1, <1>11 DEF vars, lockVars
<1>12. QED
  BY <1>2, <1>3, <1>4, <1>5, <1>6, <1>7, <1>8, <1>9, <1>10, <1>11 DEF Next, CallStep

\* The other variables keep their types; a dispatch calls instances that are
\* in the registry.
LEMMA TypesKept ==
  ASSUME IInv, [Next]_vars
  PROVE  TypesButQueue' /\ CallsOK'
<1>1. TypeOK /\ TypesButQueue /\ CallsOK
  BY DEF IInv, TypeOK, TypesButQueue
<1> USE NoneIsNoCall DEF TypesButQueue, CallsOK, Goto, Wait, lockVars, dispatchVars
<1>2. ASSUME NEW p \in Calls, Begin(p) PROVE TypesButQueue' /\ CallsOK'
  <2>1. TypesButQueue'
    BY <1>1, <1>2, BeginStep DEF Drawn, Labels
  <2>2. CallsOK'
    BY <1>1, <1>2, BeginStep DEF Drawn, Labels
  <2>3. QED
    BY <2>1, <2>2
<1>3. ASSUME NEW p \in Calls, LoadCheck(p) PROVE TypesButQueue' /\ CallsOK'
  <2>1. TypesButQueue'
    BY <1>1, <1>3 DEF LoadCheck
  <2>2. CallsOK'
    BY <1>1, <1>3 DEF LoadCheck
  <2>3. QED
    BY <2>1, <2>2
<1>4. ASSUME NEW p \in Calls, LoadBackend(p) PROVE TypesButQueue' /\ CallsOK'
  <2>1. TypesButQueue'
    BY <1>1, <1>4 DEF LoadBackend
  <2>2. CallsOK'
    BY <1>1, <1>4 DEF LoadBackend
  <2>3. QED
    BY <2>1, <2>2
<1>5. ASSUME NEW p \in Calls, LoadInsert(p) PROVE TypesButQueue' /\ CallsOK'
  <2>1. TypesButQueue'
    BY <1>1, <1>5 DEF LoadInsert
  <2>2. CallsOK'
    BY <1>1, <1>5 DEF LoadInsert
  <2>3. QED
    BY <2>1, <2>2
<1>6. ASSUME NEW p \in Calls, Remove(p) PROVE TypesButQueue' /\ CallsOK'
  <2>1. TypesButQueue'
    BY <1>1, <1>6 DEF Remove
  <2>2. CallsOK'
    BY <1>1, <1>6 DEF Remove
  <2>3. QED
    BY <2>1, <2>2
<1>7. ASSUME NEW p \in Calls, UnloadBackend(p) PROVE TypesButQueue' /\ CallsOK'
  <2>1. TypesButQueue'
    BY <1>1, <1>7, AnswersType DEF UnloadBackend
  <2>2. CallsOK'
    BY <1>1, <1>7, AnswersType DEF UnloadBackend
  <2>3. QED
    BY <2>1, <2>2
<1>8. ASSUME NEW p \in Calls, Snapshot(p) PROVE TypesButQueue' /\ CallsOK'
  <2>1. TypesButQueue'
    BY <1>1, <1>8 DEF Snapshot, Registered
  <2>2. CallsOK'
    BY <1>1, <1>8 DEF Snapshot, Registered
  <2>3. QED
    BY <2>1, <2>2
<1>9. ASSUME NEW p \in Calls, DispatchDone(p) PROVE TypesButQueue' /\ CallsOK'
  <2>1. TypesButQueue'
    BY <1>1, <1>9 DEF DispatchDone
  <2>2. CallsOK'
    BY <1>1, <1>9 DEF DispatchDone
  <2>3. QED
    BY <2>1, <2>2
<1>10. ASSUME NEW p \in Calls, Read(p) PROVE TypesButQueue' /\ CallsOK'
  <2>1. TypesButQueue'
    BY <1>1, <1>10 DEF Read
  <2>2. CallsOK'
    BY <1>1, <1>10 DEF Read
  <2>3. QED
    BY <2>1, <2>2
<1>11. ASSUME NEW p \in Calls, CallDropped(p) PROVE TypesButQueue' /\ CallsOK'
  <2>1. TypesButQueue'
    BY <1>1, <1>11 DEF CallDropped
  <2>2. CallsOK'
    BY <1>1, <1>11 DEF CallDropped
  <2>3. QED
    BY <2>1, <2>2
<1>12. ASSUME NEW p \in Calls, NEW n \in Names, CallPlugin(p, n)
      PROVE  TypesButQueue' /\ CallsOK'
  <2>1. registry[n] \in Calls
    BY <1>1, <1>12 DEF CallPlugin, IInv, DispatchHolds, Registered
  <2>2. PICK answer \in Answers(registry[n], "event") :
          CASE answer = "ok" ->
                 /\ todo' = [todo EXCEPT ![p] = @ \ {n}]
                 /\ reached' = [reached EXCEPT ![p] = @ \cup {registry[n]}]
                 /\ UNCHANGED <<pc, readers>>
            [] answer = "err" ->
                 /\ Goto(p, "err")
                 /\ readers' = readers \ {p}
                 /\ UNCHANGED dispatchVars
            [] answer = "stalled" ->
                 Goto(p, "stalled") /\ UNCHANGED <<readers, dispatchVars>>
    BY <1>12 DEF CallPlugin
  <2>3. answer \in {"ok", "err", "stalled"}
    BY <2>1, AnswersType
  <2>4. CASE answer = "ok"
    BY <1>1, <1>12, <2>1, <2>2, <2>4 DEF CallPlugin
  <2>5. CASE answer = "err"
    BY <1>1, <1>12, <2>2, <2>5 DEF CallPlugin
  <2>6. CASE answer = "stalled"
    BY <1>1, <1>12, <2>2, <2>6 DEF CallPlugin
  <2>7. QED
    BY <2>3, <2>4, <2>5, <2>6
<1>13. CASE UNCHANGED vars
  BY <1>1, <1>13 DEF vars
<1>14. QED
  BY <1>2, <1>3, <1>4, <1>5, <1>6, <1>7, <1>8, <1>9,
     <1>10, <1>11, <1>12, <1>13 DEF Next, CallStep

\* The registry holds the instances that loaded, and each unload its own.
LEMMA RegistryKept ==
  ASSUME IInv, [Next]_vars
  PROVE  RegistryOK'
<1>1. TypeOK /\ TypesButQueue /\ CallsOK /\ RegistryOK
  BY DEF IInv, TypeOK, TypesButQueue
<1> USE NoneIsNoCall DEF TypesButQueue, CallsOK, Goto, Wait, lockVars, dispatchVars
<1>2. ASSUME NEW p \in Calls, Begin(p) PROVE RegistryOK'
  <2>1. LoadsOK'
    BY <1>1, <1>2, BeginStep DEF Drawn, Labels, RegistryOK, LoadsOK
  <2>2. EntriesOwned'
    BY <1>1, <1>2, BeginStep DEF Drawn, Labels, RegistryOK, EntriesOwned, LoadsOK
  <2>3. ActiveRegistered'
    BY <1>1, <1>2, BeginStep DEF Drawn, Labels, RegistryOK, ActiveRegistered
  <2>4. UnloadingOwned'
    BY <1>1, <1>2, BeginStep DEF Drawn, Labels, RegistryOK, UnloadingOwned
  <2>5. LoadsAlone'
    BY <1>1, <1>2, BeginStep DEF Drawn, Labels, RegistryOK, LoadsAlone, Loading
  <2>6. QED
    BY <2>1, <2>2, <2>3, <2>4, <2>5 DEF RegistryOK
<1>3. ASSUME NEW p \in Calls, LoadCheck(p) PROVE RegistryOK'
  <2>1. LoadsOK'
    BY <1>1, <1>3 DEF LoadCheck, RegistryOK, LoadsOK
  <2>2. EntriesOwned'
    BY <1>1, <1>3 DEF LoadCheck, RegistryOK, EntriesOwned
  <2>3. ActiveRegistered'
    BY <1>1, <1>3 DEF LoadCheck, RegistryOK, ActiveRegistered
  <2>4. UnloadingOwned'
    BY <1>1, <1>3 DEF LoadCheck, RegistryOK, UnloadingOwned, LoadsOK
  <2>5. LoadsAlone'
    BY <1>1, <1>3 DEF LoadCheck, RegistryOK, LoadsAlone, Loading
  <2>6. QED
    BY <2>1, <2>2, <2>3, <2>4, <2>5 DEF RegistryOK
<1>4. ASSUME NEW p \in Calls, LoadBackend(p) PROVE RegistryOK'
  <2>1. LoadsOK'
    BY <1>1, <1>4 DEF LoadBackend, RegistryOK, LoadsOK
  <2>2. EntriesOwned'
    BY <1>1, <1>4 DEF LoadBackend, RegistryOK, EntriesOwned, LoadsOK
  <2>3. ActiveRegistered'
    BY <1>1, <1>4 DEF LoadBackend, RegistryOK, ActiveRegistered
  <2>4. UnloadingOwned'
    BY <1>1, <1>4 DEF LoadBackend, RegistryOK, UnloadingOwned, LoadsOK
  <2>5. LoadsAlone'
    BY <1>1, <1>4 DEF LoadBackend, RegistryOK, LoadsAlone, Loading
  <2>6. QED
    BY <2>1, <2>2, <2>3, <2>4, <2>5 DEF RegistryOK
<1>5. ASSUME NEW p \in Calls, LoadInsert(p) PROVE RegistryOK'
  <2>1. LoadsOK'
    BY <1>1, <1>5 DEF LoadInsert, RegistryOK, LoadsOK, EntriesOwned
  <2>2. EntriesOwned'
    BY <1>1, <1>5 DEF LoadInsert, RegistryOK, EntriesOwned
  <2>3. ActiveRegistered'
    BY <1>1, <1>5 DEF LoadInsert, RegistryOK, ActiveRegistered
  <2>4. UnloadingOwned'
    BY <1>1, <1>5 DEF LoadInsert, RegistryOK, UnloadingOwned, LoadsOK, EntriesOwned
  <2>5. LoadsAlone'
    BY <1>1, <1>5 DEF LoadInsert, RegistryOK, LoadsAlone, Loading
  <2>6. QED
    BY <2>1, <2>2, <2>3, <2>4, <2>5 DEF RegistryOK
<1>6. ASSUME NEW p \in Calls, Remove(p) PROVE RegistryOK'
  <2>1. LoadsOK'
    BY <1>1, <1>6 DEF Remove, RegistryOK, LoadsOK, EntriesOwned
  <2>2. EntriesOwned'
    BY <1>1, <1>6 DEF Remove, RegistryOK, EntriesOwned
  <2>3. ActiveRegistered'
    BY <1>1, <1>6 DEF Remove, RegistryOK, ActiveRegistered
  <2>4. UnloadingOwned'
    BY <1>1, <1>6 DEF Remove, RegistryOK, UnloadingOwned, EntriesOwned
  <2>5. LoadsAlone'
    BY <1>1, <1>6 DEF Remove, RegistryOK, LoadsAlone, Loading
  <2>6. QED
    BY <2>1, <2>2, <2>3, <2>4, <2>5 DEF RegistryOK
<1>7. ASSUME NEW p \in Calls, UnloadBackend(p) PROVE RegistryOK'
  <2>1. LoadsOK'
    BY <1>1, <1>7, AnswersType DEF UnloadBackend, RegistryOK, LoadsOK,
       UnloadingOwned
  <2>2. EntriesOwned'
    BY <1>1, <1>7 DEF UnloadBackend, RegistryOK, EntriesOwned,
       UnloadingOwned
  <2>3. ActiveRegistered'
    BY <1>1, <1>7 DEF UnloadBackend, RegistryOK, ActiveRegistered
  <2>4. UnloadingOwned'
    BY <1>1, <1>7, AnswersType DEF UnloadBackend, RegistryOK, UnloadingOwned
  <2>5. LoadsAlone'
    BY <1>1, <1>7, AnswersType DEF UnloadBackend, RegistryOK, LoadsAlone, Loading
  <2>6. QED
    BY <2>1, <2>2, <2>3, <2>4, <2>5 DEF RegistryOK
<1>8. ASSUME NEW p \in Calls, CallDropped(p) PROVE RegistryOK'
  <2>1. LoadsOK'
    BY <1>1, <1>8 DEF CallDropped, RegistryOK, LoadsOK, UnloadingOwned
  <2>2. EntriesOwned'
    BY <1>1, <1>8 DEF CallDropped, RegistryOK, EntriesOwned, ActiveRegistered,
       UnloadingOwned
  <2>3. ActiveRegistered'
    BY <1>1, <1>8 DEF CallDropped, RegistryOK, ActiveRegistered
  <2>4. UnloadingOwned'
    BY <1>1, <1>8 DEF CallDropped, RegistryOK, UnloadingOwned, LoadsOK
  <2>5. LoadsAlone'
    BY <1>1, <1>8 DEF CallDropped, RegistryOK, LoadsAlone, Loading
  <2>6. QED
    BY <2>1, <2>2, <2>3, <2>4, <2>5 DEF RegistryOK
<1>9. ASSUME NEW p \in Calls,
             \/ Snapshot(p) \/ DispatchDone(p) \/ Read(p)
             \/ \E n \in Names : CallPlugin(p, n)
      PROVE  RegistryOK'
  <2>1. UNCHANGED <<loads, registry, instance, nameOf, victim>>
    BY <1>9 DEF Snapshot, DispatchDone, Read, CallPlugin
  <2>2. /\ \A q \in Calls \ {p} : pc'[q] = pc[q]
        /\ pc[p] \notin {"ok", "idle"}
        /\ pc'[p] \in {"ok", "err", "calling", "stalled"}
    <3>1. CASE Snapshot(p)
      BY <1>1, <3>1 DEF Snapshot
    <3>2. CASE DispatchDone(p)
      BY <1>1, <3>2 DEF DispatchDone
    <3>3. CASE Read(p)
      BY <1>1, <3>3 DEF Read
    <3>4. CASE \E n \in Names : CallPlugin(p, n)
      <4>1. PICK n \in Names : CallPlugin(p, n)
        BY <3>4
      <4>2. registry[n] \in Calls
        BY <1>1, <4>1 DEF CallPlugin, IInv, DispatchHolds, Registered
      <4>3. \A answer \in Answers(registry[n], "event") :
              answer \in {"ok", "err", "stalled"}
        BY <4>2, AnswersType
      <4>4. QED
        BY <1>1, <4>1, <4>3 DEF CallPlugin
    <3>5. QED
      BY <1>9, <3>1, <3>2, <3>3, <3>4
  <2>3. QED
    BY <1>1, <2>1, <2>2 DEF RegistryOK, LoadsOK, EntriesOwned, ActiveRegistered,
       UnloadingOwned, LoadsAlone, Loading
<1>10. CASE UNCHANGED vars
  BY <1>1, <1>10 DEF vars, RegistryOK, LoadsOK, EntriesOwned, ActiveRegistered,
     UnloadingOwned, LoadsAlone, Loading
<1>11. QED
  BY <1>2, <1>3, <1>4, <1>5, <1>6, <1>7, <1>8, <1>9, <1>10
     DEF Next, CallStep

\* A dispatch keeps its place among the readers, and the registry stands still
\* while there are any: what has answered is what was registered and called.
LEMMA DispatchKept ==
  ASSUME IInv, [Next]_vars
  PROVE  DispatchHolds' /\ DispatchComplete'
<1>1. TypeOK /\ TypesButQueue /\ CallsOK /\ DispatchHolds /\ DispatchComplete
  BY DEF IInv, TypeOK, TypesButQueue
<1> USE NoneIsNoCall DEF TypesButQueue, CallsOK, Goto, Wait, lockVars, dispatchVars
<1> USE DEF DispatchHolds, DispatchComplete, Registered
<1>2. ASSUME NEW p \in Calls, Begin(p) PROVE DispatchHolds' /\ DispatchComplete'
  BY <1>1, <1>2, BeginStep DEF Drawn, Labels
<1>3. ASSUME NEW p \in Calls, LoadCheck(p) PROVE DispatchHolds' /\ DispatchComplete'
  BY <1>1, <1>3 DEF LoadCheck
<1>4. ASSUME NEW p \in Calls, LoadBackend(p) PROVE DispatchHolds' /\ DispatchComplete'
  BY <1>1, <1>4 DEF LoadBackend
<1>5. ASSUME NEW p \in Calls, LoadInsert(p) \/ Remove(p)
      PROVE  DispatchHolds' /\ DispatchComplete'
  <2>1. readers = {} /\ UNCHANGED <<todo, reached, readers>>
    BY <1>5 DEF LoadInsert, Remove, MayWrite
  <2>2. \A q \in Calls : pc[q] \notin {"calling", "stalled"}
    BY <1>1, <2>1
  <2>3. \A q \in Calls : pc'[q] \notin {"calling", "stalled"}
    BY <1>1, <1>5, <2>2 DEF LoadInsert, Remove
  <2>4. QED
    BY <2>3
<1>6. ASSUME NEW p \in Calls, UnloadBackend(p) PROVE DispatchHolds' /\ DispatchComplete'
  BY <1>1, <1>6, AnswersType DEF UnloadBackend
<1>7. ASSUME NEW p \in Calls, CallDropped(p) PROVE DispatchHolds' /\ DispatchComplete'
  BY <1>1, <1>7 DEF CallDropped
<1>8. ASSUME NEW p \in Calls, Snapshot(p) PROVE DispatchHolds' /\ DispatchComplete'
  BY <1>1, <1>8 DEF Snapshot
<1>9. ASSUME NEW p \in Calls, DispatchDone(p) PROVE DispatchHolds' /\ DispatchComplete'
  BY <1>1, <1>9 DEF DispatchDone
<1>10. ASSUME NEW p \in Calls, Read(p) PROVE DispatchHolds' /\ DispatchComplete'
  BY <1>1, <1>10 DEF Read
<1>11. ASSUME NEW p \in Calls, NEW n \in Names, CallPlugin(p, n)
      PROVE  DispatchHolds' /\ DispatchComplete'
  <2>1. registry[n] \in Calls /\ n \in Registered /\ pc[p] = "calling" /\ n \in todo[p]
    BY <1>1, <1>11 DEF CallPlugin
  <2>2. PICK answer \in Answers(registry[n], "event") :
          CASE answer = "ok" ->
                 /\ todo' = [todo EXCEPT ![p] = @ \ {n}]
                 /\ reached' = [reached EXCEPT ![p] = @ \cup {registry[n]}]
                 /\ UNCHANGED <<pc, readers>>
            [] answer = "err" ->
                 /\ Goto(p, "err")
                 /\ readers' = readers \ {p}
                 /\ UNCHANGED dispatchVars
            [] answer = "stalled" ->
                 Goto(p, "stalled") /\ UNCHANGED <<readers, dispatchVars>>
    BY <1>11 DEF CallPlugin
  <2>3. answer \in {"ok", "err", "stalled"}
    BY <2>1, AnswersType
  <2>4. UNCHANGED registry
    BY <1>11 DEF CallPlugin
  <2>5. CASE answer = "ok"
    <3>1. /\ UNCHANGED <<pc, readers>>
          /\ todo' = [todo EXCEPT ![p] = todo[p] \ {n}]
          /\ reached' = [reached EXCEPT ![p] = reached[p] \cup {registry[n]}]
      BY <1>1, <2>2, <2>5
    <3>2. Registered \ todo'[p] = (Registered \ todo[p]) \cup {n}
      BY <1>1, <2>1, <3>1
    <3>3. reached'[p] = {registry[m] : m \in Registered \ todo'[p]}
      BY <1>1, <2>1, <3>1, <3>2
    <3>4. QED
      BY <1>1, <2>4, <3>1, <3>3
  <2>6. CASE answer = "err"
    BY <1>1, <2>2, <2>4, <2>6
  <2>7. CASE answer = "stalled"
    BY <1>1, <2>1, <2>2, <2>4, <2>7
  <2>8. QED
    BY <2>3, <2>5, <2>6, <2>7
<1>12. CASE UNCHANGED vars
  BY <1>1, <1>12 DEF vars
<1>13. QED
  BY <1>2, <1>3, <1>4, <1>5, <1>6, <1>7, <1>8, <1>9, <1>10, <1>11, <1>12
     DEF Next, CallStep

\* The inductive invariant holds for all constants.
LEMMA Inductive == Spec => []IInv
<1>1. Init => IInv
  <2> SUFFICES ASSUME Init PROVE IInv
    OBVIOUS
  <2>1. TypeOK /\ CallsOK
    BY NoneIsNoCall DEF Init, TypeOK, CallsOK
  <2>2. RegistryOK
    BY NoneIsNoCall DEF Init, RegistryOK, LoadsOK, EntriesOwned, ActiveRegistered,
       UnloadingOwned, LoadsAlone, Loading
  <2>3. DispatchHolds /\ DispatchComplete
    BY DEF Init, DispatchHolds, DispatchComplete
  <2>4. QED
    BY <2>1, <2>2, <2>3 DEF IInv
<1>2. IInv /\ [Next]_vars => IInv'
  <2> SUFFICES ASSUME IInv, [Next]_vars PROVE IInv'
    OBVIOUS
  <2>1. TypeOK'
    BY QueueKept, TypesKept DEF IInv, TypeOK, TypesButQueue
  <2>2. QED
    BY <2>1, TypesKept, RegistryKept, DispatchKept DEF IInv
<1>3. QED
  BY <1>1, <1>2, PTL DEF Spec

\* Every variable keeps its type, for all constants; a dispatch only calls
\* what is registered.
THEOREM TypeCorrect == Spec => []TypeOK
<1>1. IInv => TypeOK
  BY DEF IInv
<1>2. QED
  BY <1>1, Inductive, PTL

\* The registry holds exactly the instances that loaded, were not replaced and
\* are not being unloaded, an instance is unloaded by one call, and loads that
\* do not overlap replace none, for any number of calls, names and plugins.
THEOREM RegistryIsExact == Spec => []RegistryExact
<1>1. IInv => RegistryExact
  <2> SUFFICES ASSUME IInv PROVE RegistryExact
    OBVIOUS
  <2>1. TypeOK /\ RegistryOK
    BY DEF IInv
  <2>2. {i \in Calls : instance[i] = "active"} = {registry[n] : n \in Registered}
    <3>1. ASSUME NEW i \in Calls, instance[i] = "active"
          PROVE  i \in {registry[n] : n \in Registered}
      <4>1. nameOf[i] \in Names /\ registry[nameOf[i]] = i
        BY <2>1, <3>1 DEF RegistryOK, ActiveRegistered
      <4>2. nameOf[i] \in Registered
        BY <4>1, NoneIsNoCall DEF Registered
      <4>3. QED
        BY <4>1, <4>2
    <3>2. ASSUME NEW n \in Registered
          PROVE  registry[n] \in Calls /\ instance[registry[n]] = "active"
      BY <2>1 DEF TypeOK, RegistryOK, EntriesOwned, Registered
    <3>3. QED
      BY <3>1, <3>2
  <2>3. QED
    BY <2>1, <2>2 DEF RegistryOK, UnloadingOwned, LoadsAlone, RegistryExact
<1>2. QED
  BY <1>1, Inductive, PTL

\* While a dispatch runs, the plugins that have answered are exactly those
\* registered and not still to be called: its Ok means each plugin got the
\* event, for any number of calls, names and plugins.
THEOREM DispatchIsComplete == Spec => []DispatchComplete
<1>1. IInv => DispatchComplete
  BY DEF IInv
<1>2. QED
  BY <1>1, Inductive, PTL

=============================================================================
