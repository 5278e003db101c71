------------------------ MODULE EventPipeline_proofs ------------------------
(***************************************************************************)
(* Proofs, for any packets, readers, requests and capacities, that no      *)
(* reader's stream has a gap, that the relay keeps the backend's order and *)
(* skips nothing, and that what a request was answered says what became of *)
(* its event.                                                              *)
(***************************************************************************)
EXTENDS MCEventPipeline, FiniteSetTheorems, TLAPS

\* What is published comes from the two sides of ApiState: the relay's events
\* from the backend, the dispatcher's from the send handlers.
SourcesOK ==
  /\ relay = "publishing" => relayed \in Inbound
  /\ \A i \in DOMAIN dispatchQueue : dispatchQueue[i].from = "api"
  /\ \A q \in Sends :
       request[q] \notin {"idle", "400"} => about[q] \in {"message", "warning"}

\* A reader's cursor is between where it subscribed and the end of the bus, and
\* an open poll has an iteration left.
ReadersOK ==
  \A r \in Readers :
    /\ reader[r] = "idle" => got[r] = <<>> /\ first[r] = 0 /\ cursor[r] = 0
    /\ reader[r] # "idle" => /\ 1 <= first[r] /\ first[r] <= cursor[r]
                             /\ cursor[r] <= Len(bus) + 1
    /\ reader[r] = "open" /\ kind[r] = "poll" => left[r] >= 1

\* The relay has published what it has received, except the event it holds; the
\* plugins have been shown that one too.
RelayOK ==
  /\ relayCursor
       = Cardinality(Relayed) + (IF relay = "publishing" THEN 2 ELSE 1)
  /\ relay = "publishing" => relayed = protocolLog[relayCursor - 1]
  /\ Len(plugged) = Cardinality(RelayedMessages)
       + (IF relay = "publishing" /\ IsMessage(relayed) THEN 1 ELSE 0)
  /\ relay = "publishing" /\ IsMessage(relayed) =>
       plugged[Len(plugged)] = relayed

\* The protocol is asked for messages only, and before the event is emitted.
WireOK ==
  \A q \in Sends :
    /\ request[q] = "sending" => about[q] # "warning"
    /\ request[q] \in {"emitting", "200"} /\ about[q] # "warning" => q \in wire
    /\ request[q] \in {"idle", "sending", "400", "502"} => q \notin wire
    /\ q \in wire => about[q] # "warning"

\* The events of the requests that were answered 200 are those queued or
\* published, and there are as many.
EmittedOnce ==
  /\ {bus[i] : i \in Published} \cup ToSet(dispatchQueue)
       = {Sent(q, about[q]) : q \in Answered}
  /\ Cardinality(Published) + Len(dispatchQueue) = Cardinality(Answered)

IInv == /\ TypeOK /\ SourcesOK /\ ReadersOK
        /\ NoGapsInStream
        /\ RelayOK /\ RelayInOrder
        /\ WireOK /\ EmittedOnce

-----------------------------------------------------------------------------
\* Positions up to n, and what a position more does to their ranks.
LEMMA Positions ==
  ASSUME NEW n \in Nat, NEW S \in SUBSET (1..n)
  PROVE  /\ IsFiniteSet(S) /\ Cardinality(S) \in Nat
         /\ \A i \in S : Rank(S, i) \in 1..Cardinality(S)
<1>1. IsFiniteSet(S) /\ Cardinality(S) \in Nat
  <2>1. IsFiniteSet(1..n)
    BY FS_Interval
  <2>2. IsFiniteSet(S)
    BY <2>1, FS_Subset
  <2>3. QED
    BY <2>2, FS_CardinalityType
<1>2. ASSUME NEW i \in S PROVE Rank(S, i) \in 1..Cardinality(S)
  <2> DEFINE T == {j \in S : j <= i}
  <2>1. T \in SUBSET S /\ i \in T
    OBVIOUS
  <2>2. IsFiniteSet(T) /\ Cardinality(T) <= Cardinality(S)
    BY <1>1, <2>1, FS_Subset
  <2>3. Cardinality(T) \in Nat /\ Cardinality(T) # 0
    BY <2>1, <2>2, FS_CardinalityType, FS_EmptySet
  <2>4. QED
    BY <1>1, <2>2, <2>3 DEF Rank
<1>3. QED
  BY <1>1, <1>2

LEMMA PositionMore ==
  ASSUME NEW n \in Nat, NEW S \in SUBSET (1..n), n \notin S
  PROVE  /\ Cardinality(S \cup {n}) = Cardinality(S) + 1
         /\ \A i \in S : Rank(S \cup {n}, i) = Rank(S, i)
         /\ Rank(S \cup {n}, n) = Cardinality(S) + 1
<1>1. Cardinality(S \cup {n}) = Cardinality(S) + 1
  <2>1. IsFiniteSet(S)
    BY Positions
  <2>2. QED
    BY <2>1, FS_AddElement
<1>2. \A i \in S : i < n
  OBVIOUS
<1>3. ASSUME NEW i \in S
      PROVE  {j \in S \cup {n} : j <= i} = {j \in S : j <= i}
  BY <1>2
<1>4. {j \in S \cup {n} : j <= n} = S \cup {n}
  <2>1. \A j \in S \cup {n} : j <= n
    BY <1>2
  <2>2. QED
    BY <2>1
<1>5. QED
  BY <1>1, <1>3, <1>4 DEF Rank

\* Where the events come from.
LEMMA Origins ==
  /\ Inbound \subseteq Events
  /\ \A e \in Inbound : e.from = "backend"
  /\ Stopped \in Inbound
  /\ \A n \in 1..Len(Packets) :
       Decode[Packets[n]] # "nothing" => Received(n) \in Inbound
  /\ \A q \in Sends, k \in {"message", "warning"} :
       Sent(q, k) \in Events /\ Sent(q, k).from = "api"
<1>1. Inbound \subseteq Events
  BY DEF Events
<1>2. Stopped \in Inbound /\ Stopped.from = "backend"
  BY DEF Inbound, Stopped
<1>3. ASSUME NEW n \in 1..Len(Packets), Decode[Packets[n]] # "nothing"
      PROVE  Received(n) \in Inbound
  BY <1>3 DEF Inbound
<1>4. ASSUME NEW e \in Inbound PROVE e.from = "backend"
  BY <1>2 DEF Inbound, Received
<1>5. ASSUME NEW q \in Sends, NEW k \in {"message", "warning"}
      PROVE  Sent(q, k) \in Events /\ Sent(q, k).from = "api"
  BY DEF Events, Sent
<1>6. QED
  BY <1>1, <1>2, <1>3, <1>4, <1>5

\* What an event more on the bus changes.
LEMMA BusGrows ==
  ASSUME bus \in Seq(Events), NEW e \in Events, bus' = Append(bus, e)
  PROVE  /\ bus' \in Seq(Events) /\ Len(bus') = Len(bus) + 1
         /\ \A i \in 1..Len(bus) : bus'[i] = bus[i]
         /\ bus'[Len(bus) + 1] = e
         /\ {Relayed, RelayedMessages, Published} \subseteq SUBSET (1..Len(bus))
         /\ Relayed' = IF e.from = "backend" THEN Relayed \cup {Len(bus) + 1}
                       ELSE Relayed
         /\ RelayedMessages' = IF e.from = "backend" /\ IsMessage(e)
                                 THEN RelayedMessages \cup {Len(bus) + 1}
                                 ELSE RelayedMessages
         /\ Published' = IF e.from = "api" THEN Published \cup {Len(bus) + 1}
                         ELSE Published
<1>1. /\ bus' \in Seq(Events) /\ Len(bus') = Len(bus) + 1 /\ Len(bus) \in Nat
      /\ \A i \in 1..Len(bus) : bus'[i] = bus[i]
      /\ bus'[Len(bus) + 1] = e
      /\ DOMAIN bus = 1..Len(bus) /\ DOMAIN bus' = 1 .. Len(bus) + 1
  OBVIOUS
<1>2. DOMAIN bus' = DOMAIN bus \cup {Len(bus) + 1} /\ Len(bus) + 1 \notin DOMAIN bus
  BY <1>1
<1>3. Relayed' = IF e.from = "backend" THEN Relayed \cup {Len(bus) + 1} ELSE Relayed
  BY <1>1, <1>2 DEF Relayed
<1>4. Published' = IF e.from = "api" THEN Published \cup {Len(bus) + 1} ELSE Published
  BY <1>1, <1>2 DEF Published
<1>5. RelayedMessages' = IF e.from = "backend" /\ IsMessage(e)
                           THEN RelayedMessages \cup {Len(bus) + 1}
                           ELSE RelayedMessages
  BY <1>1, <1>2, <1>3 DEF RelayedMessages, Relayed
<1>6. {Relayed, RelayedMessages, Published} \subseteq SUBSET (1..Len(bus))
  BY <1>1 DEF Relayed, RelayedMessages, Published
<1>7. QED
  BY <1>1, <1>3, <1>4, <1>5, <1>6

\* What stands still when the bus does.
LEMMA BusStands ==
  ASSUME UNCHANGED bus
  PROVE  /\ Relayed' = Relayed /\ RelayedMessages' = RelayedMessages
         /\ Published' = Published
BY DEF Relayed, RelayedMessages, Published

\* A poll asks for one event at least, and a filter takes kinds of events.
LEMMA PollsAndFilters == /\ PollLengths \subseteq 1..MaxEvents
                         /\ Filters \subseteq SUBSET PostTypes
BY PipelineAssumption DEF PollLengths, Clamp, Filters

\* The variables keep their types, and the events their sources.
LEMMA TypesKept ==
  ASSUME TypeOK, SourcesOK, ReadersOK, [Next]_vars
  PROVE  TypeOK' /\ SourcesOK'
<1> USE PipelineAssumption, PacketsAssumption DEF TypeOK, SourcesOK, ReadersOK,
        backendVars, relayVars, sendVars, readerVars
<1>1. CASE BackendEvent
  <2>1. /\ taken' \in 1..Len(Packets)
        /\ UNCHANGED <<relayVars, dispatchQueue, bus, sendVars, readerVars>>
    BY <1>1 DEF BackendEvent
  <2>2. /\ protocolLog' \in Seq(Inbound) /\ Len(protocolLog) <= Len(protocolLog')
        /\ backend' \in {"listening", "ended"}
    <3>1. CASE UNCHANGED protocolLog
      BY <1>1, <3>1 DEF BackendEvent
    <3>2. CASE /\ Decode[Packets[taken']] # "nothing"
               /\ protocolLog' = Append(protocolLog, Received(taken'))
               /\ UNCHANGED backend
      <4>1. Received(taken') \in Inbound
        BY <2>1, <3>2, Origins
      <4>2. QED
        BY <3>2, <4>1
    <3>3. QED
      BY <1>1, <3>1, <3>2 DEF BackendEvent
  <2>3. relayCursor' \in 1 .. Len(protocolLog') + 1
    <3>1. Len(protocolLog) \in Nat /\ Len(protocolLog') \in Nat
      BY <2>2
    <3>2. QED
      BY <2>1, <2>2, <3>1
  <2>4. taken' \in 0..Len(Packets)
    BY <2>1
  <2>5. QED
    BY <2>1, <2>2, <2>3, <2>4
<1>2. CASE ListenerStops
  <2>1. Stopped \in Inbound
    BY Origins
  <2>2. /\ protocolLog' \in Seq(Inbound) /\ Len(protocolLog) <= Len(protocolLog')
        /\ backend' = "ended"
        /\ UNCHANGED <<taken, relayVars, dispatchQueue, bus, sendVars, readerVars>>
    BY <1>2, <2>1 DEF ListenerStops
  <2>3. relayCursor' \in 1 .. Len(protocolLog') + 1
    <3>1. Len(protocolLog) \in Nat /\ Len(protocolLog') \in Nat
      BY <2>2
    <3>2. QED
      BY <2>2, <3>1
  <2>4. QED
    BY <2>2, <2>3
<1>3. CASE RelayReceive
  <2>1. relayCursor \in 1..Len(protocolLog) /\ protocolLog[relayCursor] \in Inbound
    BY <1>3 DEF RelayReceive, CanRead, HasNext
  <2>2. plugged' \in Seq(Inbound)
    BY <1>3, <2>1 DEF RelayReceive, ShownToPlugins
  <2>3. relayCursor' \in 1 .. Len(protocolLog') + 1
    BY <1>3, <2>1 DEF RelayReceive
  <2>4. /\ relay' = "publishing" /\ relayed' \in Inbound
        /\ UNCHANGED <<backendVars, dispatchQueue, bus, sendVars, readerVars>>
    BY <1>3, <2>1 DEF RelayReceive
  <2>5. QED
    BY <2>2, <2>3, <2>4
<1>4. CASE RelayLagged
  BY <1>4 DEF RelayLagged
<1>5. CASE RelayPublish
  <2>1. relayed \in Events
    BY <1>5, Origins DEF RelayPublish
  <2>2. bus' \in Seq(Events)
    BY <1>5, <2>1 DEF RelayPublish
  <2>3. QED
    BY <1>5, <2>2 DEF RelayPublish
<1>6. CASE DispatcherPublish
  <2>1. /\ Head(dispatchQueue) \in Events
        /\ Tail(dispatchQueue) \in Seq(Events)
        /\ Len(Tail(dispatchQueue)) = Len(dispatchQueue) - 1
        /\ \A i \in DOMAIN Tail(dispatchQueue) :
             /\ i + 1 \in DOMAIN dispatchQueue
             /\ Tail(dispatchQueue)[i] = dispatchQueue[i + 1]
    BY <1>6, SMTT(20) DEF DispatcherPublish
  <2>2. Len(dispatchQueue') <= DispatchCapacity /\ dispatchQueue' \in Seq(Events)
    BY <1>6, <2>1 DEF DispatcherPublish
  <2>3. \A i \in DOMAIN dispatchQueue' : dispatchQueue'[i].from = "api"
    BY <1>6, <2>1 DEF DispatcherPublish
  <2>4. bus' \in Seq(Events)
    BY <1>6, <2>1 DEF DispatcherPublish
  <2>5. QED
    BY <1>6, <2>2, <2>3, <2>4 DEF DispatcherPublish
<1>7. ASSUME NEW q \in Sends, Accept(q) PROVE TypeOK' /\ SourcesOK'
  <2>1. PICK k \in Requests :
          /\ about' = [about EXCEPT ![q] = k]
          /\ Respond(q, CASE k = None -> "400"
                          [] k = "warning" -> "emitting"
                          [] OTHER -> "sending")
    BY <1>7 DEF Accept
  <2>2. k \in {None, "message", "warning"}
    BY DEF Requests, Asked
  <2>3. UNCHANGED <<backendVars, relayVars, dispatchQueue, bus, wire, readerVars>>
    BY <1>7 DEF Accept
  <2>4. CASE k = None
    BY <2>1, <2>3, <2>4 DEF Respond
  <2>5. CASE k # None
    BY <2>1, <2>2, <2>3, <2>5 DEF Respond
  <2>6. QED
    BY <2>4, <2>5
<1>8. ASSUME NEW q \in Sends, SendProtocol(q) PROVE TypeOK' /\ SourcesOK'
  BY <1>8 DEF SendProtocol, Respond
<1>9. ASSUME NEW q \in Sends, Emit(q) PROVE TypeOK' /\ SourcesOK'
  <2>1. about[q] \in {"message", "warning"}
    BY <1>9 DEF Emit
  <2>2. Sent(q, about[q]) \in Events /\ Sent(q, about[q]).from = "api"
    BY <2>1, Origins
  <2>3. /\ dispatchQueue' \in Seq(Events) /\ Len(dispatchQueue') <= DispatchCapacity
        /\ \A i \in DOMAIN dispatchQueue' : dispatchQueue'[i].from = "api"
    BY <1>9, <2>2, SMTT(20) DEF Emit
  <2>4. QED
    BY <1>9, <2>1, <2>3 DEF Emit, Respond
<1>10. ASSUME NEW q \in Sends, EmitTimeout(q) PROVE TypeOK' /\ SourcesOK'
  BY <1>10 DEF EmitTimeout, Respond
<1>11. ASSUME NEW q \in Sends, RequestDropped(q) PROVE TypeOK' /\ SourcesOK'
  BY <1>11 DEF RequestDropped, Respond
<1>12. ASSUME NEW r \in Readers, Subscribe(r) PROVE TypeOK' /\ SourcesOK'
  <2>1. PollLengths \subseteq 1..MaxEvents
    BY PollsAndFilters
  <2>2. Filters \subseteq SUBSET PostTypes
    BY PollsAndFilters
  <2>3. kind' \in [Readers -> {"none", "socket", "poll"}]
    BY <1>12 DEF Subscribe
  <2>4. left' \in [Readers -> 0..MaxEvents]
    <3>1. CASE UNCHANGED left
      BY <3>1
    <3>2. ASSUME NEW n \in PollLengths, left' = [left EXCEPT ![r] = n]
          PROVE  left' \in [Readers -> 0..MaxEvents]
      BY <2>1, <3>2
    <3>3. QED
      BY <1>12, <3>1, <3>2 DEF Subscribe
  <2>5. accepts' \in [Readers -> SUBSET PostTypes]
    <3>1. CASE UNCHANGED accepts
      BY <3>1
    <3>2. ASSUME NEW types \in Filters, accepts' = [accepts EXCEPT ![r] = types]
          PROVE  accepts' \in [Readers -> SUBSET PostTypes]
      BY <2>2, <3>2
    <3>3. QED
      BY <1>12, <3>1, <3>2 DEF Subscribe
  <2>6. /\ reader' = [reader EXCEPT ![r] = "open"]
        /\ cursor' = [cursor EXCEPT ![r] = Len(bus) + 1]
        /\ first' = [first EXCEPT ![r] = Len(bus) + 1]
        /\ UNCHANGED <<backendVars, relayVars, dispatchQueue, bus, sendVars, got>>
    BY <1>12 DEF Subscribe, Subscribed
  <2>7. Len(bus) + 1 \in Nat
    OBVIOUS
  <2>8. QED
    BY <2>3, <2>4, <2>5, <2>6, <2>7
<1>13. ASSUME NEW r \in Readers, Deliver(r) PROVE TypeOK' /\ SourcesOK'
  <2>1. reader[r] = "open" /\ cursor[r] <= Len(bus)
    BY <1>13 DEF Deliver, CanRead, HasNext
  <2>2. cursor[r] \in 1..Len(bus)
    BY <2>1, SMTT(20)
  <2>3. bus[cursor[r]] \in Events
    BY <2>2
  <2>4. got' = [got EXCEPT ![r] = Filtered(r, got[r], bus[cursor[r]])]
    BY <1>13 DEF Deliver
  <2>5. Filtered(r, got[r], bus[cursor[r]]) \in Seq({Payload(e) : e \in Events})
    <3>1. Payload(bus[cursor[r]]) \in {Payload(e) : e \in Events}
      BY <2>3
    <3> DEFINE P == {Payload(e) : e \in Events}
    <3>2. got[r] \in Seq(P)
      OBVIOUS
    <3> HIDE DEF P
    <3>3. Payload(bus[cursor[r]]) \in P
      BY <3>1 DEF P
    <3>4. Append(got[r], Payload(bus[cursor[r]])) \in Seq(P)
      BY <3>2, <3>3
    <3>5. QED
      BY <3>2, <3>4 DEF Filtered, P
  <2>6. got' \in [Readers -> Seq({Payload(e) : e \in Events})]
    BY <2>4, <2>5
  <2>7. /\ left' = [left EXCEPT ![r] = IF kind[r] = "poll" THEN left[r] - 1 ELSE left[r]]
        /\ cursor' = [cursor EXCEPT ![r] = cursor[r] + 1]
        /\ reader' = [reader EXCEPT ![r] = IF left[r] = 1 THEN "done" ELSE reader[r]]
        /\ UNCHANGED <<backendVars, relayVars, dispatchQueue, bus, sendVars, kind,
                       accepts, first>>
    BY <1>13 DEF Deliver
  <2>8. /\ left \in [Readers -> 0..MaxEvents] /\ cursor \in [Readers -> Nat]
        /\ kind[r] = "poll" => left[r] >= 1
    BY <2>1
  <2>9. left' \in [Readers -> 0..MaxEvents] /\ cursor' \in [Readers -> Nat]
    <3> HIDE DEF TypeOK, SourcesOK, ReadersOK
    <3>1. MaxEvents \in Nat
      OBVIOUS
    <3>2. (IF kind[r] = "poll" THEN left[r] - 1 ELSE left[r]) \in 0..MaxEvents
      BY <2>8, <3>1
    <3>3. cursor[r] + 1 \in Nat
      BY <2>8
    <3>4. QED
      BY <2>7, <2>8, <3>2, <3>3
  <2>10. QED
    BY <2>1, <2>6, <2>7, <2>9
<1>14. ASSUME NEW r \in Readers, ReaderLagged(r) PROVE TypeOK' /\ SourcesOK'
  BY <1>14 DEF ReaderLagged, CloseReader
<1>15. ASSUME NEW r \in Readers, PollTimeout(r) PROVE TypeOK' /\ SourcesOK'
  BY <1>15 DEF PollTimeout, CloseReader
<1>16. ASSUME NEW r \in Readers, ClientLeaves(r) PROVE TypeOK' /\ SourcesOK'
  BY <1>16 DEF ClientLeaves, CloseReader
<1>17. CASE UNCHANGED vars
  BY <1>17 DEF vars
<1>18. QED
  BY <1>1, <1>2, <1>3, <1>4, <1>5, <1>6, <1>7, <1>8, <1>9, <1>10, <1>11, <1>12, <1>13, <1>14, <1>15, <1>16, <1>17
     DEF Next

\* A cursor moves forward, and never past the end of the bus.
LEMMA ReadersKept ==
  ASSUME TypeOK, SourcesOK, ReadersOK, [Next]_vars
  PROVE  ReadersOK'
<1> USE DEF TypeOK, ReadersOK, backendVars, relayVars, sendVars, readerVars
<1>1. CASE BackendEvent
  BY <1>1 DEF BackendEvent
<1>2. CASE ListenerStops
  BY <1>2 DEF ListenerStops
<1>3. CASE RelayReceive
  BY <1>3 DEF RelayReceive
<1>4. CASE RelayLagged
  BY <1>4 DEF RelayLagged
<1>5. CASE RelayPublish
  BY <1>5 DEF RelayPublish
<1>6. CASE DispatcherPublish
  BY <1>6 DEF DispatcherPublish
<1>7. ASSUME NEW q \in Sends, Accept(q) PROVE ReadersOK'
  BY <1>7 DEF Accept, Respond
<1>8. ASSUME NEW q \in Sends, SendProtocol(q) PROVE ReadersOK'
  BY <1>8 DEF SendProtocol, Respond
<1>9. ASSUME NEW q \in Sends, Emit(q) PROVE ReadersOK'
  BY <1>9 DEF Emit, Respond
<1>10. ASSUME NEW q \in Sends, EmitTimeout(q) PROVE ReadersOK'
  BY <1>10 DEF EmitTimeout, Respond
<1>11. ASSUME NEW q \in Sends, RequestDropped(q) PROVE ReadersOK'
  BY <1>11 DEF RequestDropped, Respond
<1>12. ASSUME NEW r \in Readers, Subscribe(r) PROVE ReadersOK'
  <2>1. PollLengths \subseteq 1..MaxEvents
    BY PollsAndFilters
  <2>2. /\ cursor' = [cursor EXCEPT ![r] = Len(bus) + 1]
        /\ first' = [first EXCEPT ![r] = Len(bus) + 1]
        /\ reader' = [reader EXCEPT ![r] = "open"]
        /\ UNCHANGED <<bus, got>>
    BY <1>12 DEF Subscribe, Subscribed
  <2>3. kind'[r] = "poll" => left'[r] >= 1
    BY <1>12, <2>1 DEF Subscribe
  <2>4. \A x \in Readers \ {r} : kind'[x] = kind[x] /\ left'[x] = left[x]
    BY <1>12 DEF Subscribe
  <2>5. Len(bus) \in Nat
    OBVIOUS
  <2>6. /\ reader'[r] = "open" /\ first'[r] = Len(bus) + 1
        /\ cursor'[r] = Len(bus) + 1
    BY <2>2
  <2>7. \A x \in Readers \ {r} :
          /\ cursor'[x] = cursor[x] /\ first'[x] = first[x]
          /\ reader'[x] = reader[x] /\ got'[x] = got[x]
    BY <2>2
  <2>8. QED
    BY <2>2, <2>3, <2>4, <2>5, <2>6, <2>7, SMTT(20)
<1>13. ASSUME NEW r \in Readers, Deliver(r) PROVE ReadersOK'
  <2>1. cursor[r] <= Len(bus) /\ reader[r] = "open"
    BY <1>13 DEF Deliver, CanRead, HasNext
  <2>2. /\ cursor' = [cursor EXCEPT ![r] = cursor[r] + 1]
        /\ left' = [left EXCEPT ![r] = IF kind[r] = "poll" THEN left[r] - 1 ELSE left[r]]
        /\ reader' = [reader EXCEPT ![r] = IF left[r] = 1 THEN "done" ELSE reader[r]]
        /\ UNCHANGED <<bus, kind, first>>
        /\ \A x \in Readers \ {r} : got'[x] = got[x]
    BY <1>13 DEF Deliver
  <2>3. kind[r] = "poll" => left[r] >= 1 /\ left[r] \in Nat
    BY <2>1
  <2>4. reader'[r] \in {"open", "done"} /\ cursor'[r] = cursor[r] + 1
    BY <2>1, <2>2
  <2>5. reader'[r] = "open" /\ kind'[r] = "poll" => left'[r] >= 1
    BY <2>2, <2>3
  <2>6. \A x \in Readers \ {r} :
          cursor'[x] = cursor[x] /\ left'[x] = left[x] /\ reader'[x] = reader[x]
    BY <2>2
  <2>7. QED
    BY <2>1, <2>2, <2>4, <2>5, <2>6, SMTT(20)
<1>14. ASSUME NEW r \in Readers, ReaderLagged(r) PROVE ReadersOK'
  BY <1>14 DEF ReaderLagged, CloseReader
<1>15. ASSUME NEW r \in Readers, PollTimeout(r) PROVE ReadersOK'
  BY <1>15 DEF PollTimeout, CloseReader
<1>16. ASSUME NEW r \in Readers, ClientLeaves(r) PROVE ReadersOK'
  BY <1>16 DEF ClientLeaves, CloseReader
<1>17. CASE UNCHANGED vars
  BY <1>17 DEF vars
<1>18. QED
  BY <1>1, <1>2, <1>3, <1>4, <1>5, <1>6, <1>7, <1>8, <1>9, <1>10, <1>11, <1>12, <1>13, <1>14, <1>15, <1>16, <1>17
     DEF Next

\* What a reader was given stays right when more is published.
LEMMA StreamStands ==
  ASSUME TypeOK, ReadersOK, NEW r \in Readers, GivenWhatIsDue(r),
         got'[r] = got[r], first'[r] = first[r], cursor'[r] = cursor[r],
         accepts'[r] = accepts[r],
         \A i \in 1..Len(bus) : bus'[i] = bus[i]
  PROVE  GivenWhatIsDue(r)'
<1>1. first[r] .. cursor[r] - 1 \subseteq 1..Len(bus)
  <2>1. Len(bus) \in Nat /\ first[r] \in Nat /\ cursor[r] \in Nat
    BY DEF TypeOK
  <2>2. CASE reader[r] = "idle"
    BY <2>1, <2>2 DEF ReadersOK
  <2>3. CASE reader[r] # "idle"
    BY <2>1, <2>3 DEF ReadersOK
  <2>4. QED
    BY <2>2, <2>3
<1>2. \A i \in first[r] .. cursor[r] - 1 : bus'[i] = bus[i]
  BY <1>1
<1>3. Due(r)' = Due(r)
  BY <1>2 DEF Due
<1>4. \A i \in Due(r) : bus'[i] = bus[i]
  BY <1>2 DEF Due
<1>5. QED
  BY <1>3, <1>4 DEF GivenWhatIsDue, Rank

\* What is read next is appended to what was given, or rejected.
LEMMA StreamKept ==
  ASSUME TypeOK, SourcesOK, ReadersOK, NoGapsInStream, [Next]_vars
  PROVE  NoGapsInStream'
<1>0. ASSUME UNCHANGED <<got, first, cursor, accepts>>,
             \A i \in 1..Len(bus) : bus'[i] = bus[i]
      PROVE  NoGapsInStream'
  BY <1>0, StreamStands DEF NoGapsInStream
<1>1. CASE BackendEvent
  BY <1>1, <1>0 DEF BackendEvent, readerVars
<1>2. CASE ListenerStops
  BY <1>2, <1>0 DEF ListenerStops, readerVars
<1>3. CASE RelayReceive
  BY <1>3, <1>0 DEF RelayReceive, readerVars
<1>4. CASE RelayLagged
  BY <1>4, <1>0 DEF RelayLagged, readerVars
<1>5. CASE RelayPublish
  <2>1. relayed \in Events
    BY <1>5, Origins DEF RelayPublish, SourcesOK
  <2>2. QED
    BY <1>5, <1>0, <2>1, BusGrows DEF RelayPublish, TypeOK, readerVars
<1>6. CASE DispatcherPublish
  <2>1. Head(dispatchQueue) \in Events
    BY <1>6 DEF DispatcherPublish, TypeOK
  <2>2. QED
    BY <1>6, <1>0, <2>1, BusGrows DEF DispatcherPublish, TypeOK, readerVars
<1>7. ASSUME NEW q \in Sends, Accept(q) PROVE NoGapsInStream'
  BY <1>7, <1>0 DEF Accept, readerVars
<1>8. ASSUME NEW q \in Sends, SendProtocol(q) PROVE NoGapsInStream'
  BY <1>8, <1>0 DEF SendProtocol, readerVars
<1>9. ASSUME NEW q \in Sends, Emit(q) PROVE NoGapsInStream'
  BY <1>9, <1>0 DEF Emit, readerVars
<1>10. ASSUME NEW q \in Sends, EmitTimeout(q) PROVE NoGapsInStream'
  BY <1>10, <1>0 DEF EmitTimeout, readerVars
<1>11. ASSUME NEW q \in Sends, RequestDropped(q) PROVE NoGapsInStream'
  BY <1>11, <1>0 DEF RequestDropped, readerVars
<1>12. ASSUME NEW r \in Readers, Subscribe(r) PROVE NoGapsInStream'
  <2>1. /\ \A x \in Readers \ {r} : /\ first'[x] = first[x] /\ cursor'[x] = cursor[x]
                                   /\ accepts'[x] = accepts[x] /\ got'[x] = got[x]
        /\ bus' = bus /\ got' = got /\ reader[r] = "idle"
        /\ first'[r] = Len(bus) + 1 /\ cursor'[r] = Len(bus) + 1
    BY <1>12 DEF Subscribe, Subscribed, TypeOK
  <2>2. \A x \in Readers \ {r} : GivenWhatIsDue(x)'
    BY <2>1, StreamStands DEF NoGapsInStream
  <2>3. got'[r] = <<>>
    BY <2>1 DEF ReadersOK
  <2>4. Due(r)' = {}
    <3>1. Len(bus) + 1 \in Nat
      BY DEF TypeOK
    <3>2. first'[r] .. cursor'[r] - 1 = {}
      BY <2>1, <3>1
    <3>3. QED
      BY <3>2 DEF Due
  <2>5. GivenWhatIsDue(r)'
    BY <2>3, <2>4, FS_EmptySet DEF GivenWhatIsDue
  <2>6. QED
    BY <2>2, <2>5 DEF NoGapsInStream
<1>13. ASSUME NEW r \in Readers, Deliver(r) PROVE NoGapsInStream'
  <2> DEFINE c == cursor[r]
             e == bus[c]
  <2>1. /\ bus' = bus /\ first' = first /\ accepts' = accepts
        /\ cursor' = [cursor EXCEPT ![r] = c + 1]
        /\ got' = [got EXCEPT ![r] = Filtered(r, got[r], e)]
        /\ reader[r] = "open" /\ c <= Len(bus)
    BY <1>13 DEF Deliver, CanRead, HasNext
  <2>2. \A x \in Readers \ {r} : GivenWhatIsDue(x)'
    BY <2>1, StreamStands DEF NoGapsInStream, TypeOK
  <2>3. /\ c \in Nat /\ first[r] \in Nat /\ 1 <= first[r] /\ first[r] <= c
        /\ c - 1 \in Nat /\ (c - 1) + 1 = c
    <3>1. c \in Nat /\ first[r] \in Nat
      BY DEF TypeOK
    <3>2. 1 <= first[r] /\ first[r] <= c
      BY <2>1 DEF ReadersOK
    <3>3. QED
      BY <3>1, <3>2
  <2>4. Due(r) \in SUBSET (1..c) /\ c \notin Due(r)
    BY <2>3 DEF Due
  <2>5. first'[r] = first[r] /\ cursor'[r] = c + 1
    BY <2>1 DEF TypeOK
  <2>6. first'[r] .. cursor'[r] - 1 = (first[r] .. c - 1) \cup {c}
    BY <2>3, <2>5
  <2>7. Due(r)' = IF PostType(e) \in accepts[r] THEN Due(r) \cup {c} ELSE Due(r)
    BY <2>1, <2>6 DEF Due
  <2>8. got'[r] = Filtered(r, got[r], e)
    BY <2>1 DEF TypeOK
  <2>9. ASSUME PostType(e) \in accepts[r] PROVE GivenWhatIsDue(r)'
    <3>1. got'[r] = Append(got[r], Payload(e)) /\ Due(r)' = Due(r) \cup {c}
      BY <2>7, <2>8, <2>9 DEF Filtered
    <3>2. /\ Cardinality(Due(r) \cup {c}) = Cardinality(Due(r)) + 1
          /\ \A i \in Due(r) : Rank(Due(r) \cup {c}, i) = Rank(Due(r), i)
          /\ Rank(Due(r) \cup {c}, c) = Cardinality(Due(r)) + 1
      BY <2>3, <2>4, PositionMore
    <3>3. /\ Cardinality(Due(r)) \in Nat
          /\ \A i \in Due(r) : Rank(Due(r), i) \in 1..Cardinality(Due(r))
      BY <2>3, <2>4, Positions
    <3>4. /\ Len(got[r]) = Cardinality(Due(r))
          /\ \A i \in Due(r) : got[r][Rank(Due(r), i)] = Payload(bus[i])
      BY DEF NoGapsInStream, GivenWhatIsDue
    <3>5. /\ Len(got'[r]) = Len(got[r]) + 1
          /\ \A n \in 1..Len(got[r]) : got'[r][n] = got[r][n]
          /\ got'[r][Len(got[r]) + 1] = Payload(e)
      <4>1. got[r] \in Seq({Payload(x) : x \in Events})
        BY DEF TypeOK
      <4> HIDE DEF e
      <4>2. QED
        BY <3>1, <4>1
    <3>6. Len(got'[r]) = Cardinality(Due(r)')
      BY <3>1, <3>2, <3>4, <3>5
    <3>7. ASSUME NEW i \in Due(r)'
          PROVE  got'[r][Rank(Due(r)', i)] = Payload(bus'[i])
      <4>1. CASE i = c
        BY <2>1, <3>1, <3>2, <3>4, <3>5, <4>1
      <4>2. CASE i \in Due(r)
        <5>1. /\ Rank(Due(r)', i) = Rank(Due(r), i)
              /\ Rank(Due(r), i) \in 1..Len(got[r])
          BY <3>1, <3>2, <3>3, <3>4, <4>2
        <5>2. got'[r][Rank(Due(r)', i)] = got[r][Rank(Due(r), i)]
          BY <3>5, <5>1
        <5>3. QED
          BY <2>1, <3>4, <4>2, <5>2
      <4>3. QED
        BY <3>1, <4>1, <4>2
    <3>8. QED
      BY <3>6, <3>7 DEF GivenWhatIsDue, Rank
  <2>10. ASSUME PostType(e) \notin accepts[r] PROVE GivenWhatIsDue(r)'
    <3>1. got'[r] = got[r] /\ Due(r)' = Due(r) /\ GivenWhatIsDue(r)
      BY <2>7, <2>8, <2>10 DEF Filtered, NoGapsInStream
    <3>2. QED
      BY <2>1, <3>1 DEF GivenWhatIsDue, Rank
  <2>11. QED
    BY <2>2, <2>9, <2>10 DEF NoGapsInStream
<1>14. ASSUME NEW r \in Readers, ReaderLagged(r) PROVE NoGapsInStream'
  BY <1>14, <1>0 DEF ReaderLagged, CloseReader
<1>15. ASSUME NEW r \in Readers, PollTimeout(r) PROVE NoGapsInStream'
  BY <1>15, <1>0 DEF PollTimeout, CloseReader
<1>16. ASSUME NEW r \in Readers, ClientLeaves(r) PROVE NoGapsInStream'
  BY <1>16, <1>0 DEF ClientLeaves, CloseReader
<1>17. CASE UNCHANGED vars
  BY <1>17, <1>0 DEF vars, readerVars
<1>18. QED
  BY <1>1, <1>2, <1>3, <1>4, <1>5, <1>6, <1>7, <1>8, <1>9, <1>10, <1>11, <1>12, <1>13, <1>14, <1>15, <1>16, <1>17
     DEF Next

\* Positions on the bus, and their ranks.
LEMMA BusPositions ==
  ASSUME TypeOK
  PROVE  /\ Len(bus) \in Nat /\ Len(protocolLog) \in Nat /\ Len(plugged) \in Nat
         /\ Relayed \subseteq 1..Len(bus) /\ RelayedMessages \subseteq Relayed
         /\ Published \subseteq 1..Len(bus)
         /\ Cardinality(Relayed) \in Nat /\ Cardinality(RelayedMessages) \in Nat
         /\ Cardinality(Published) \in Nat
         /\ \A i \in Relayed : Rank(Relayed, i) \in 1..Cardinality(Relayed)
         /\ \A i \in RelayedMessages :
              Rank(RelayedMessages, i) \in 1..Cardinality(RelayedMessages)
<1>1. Len(bus) \in Nat /\ Len(protocolLog) \in Nat /\ Len(plugged) \in Nat
  BY DEF TypeOK
<1>2. DOMAIN bus = 1..Len(bus)
  BY DEF TypeOK
<1>3. /\ Relayed \subseteq 1..Len(bus) /\ RelayedMessages \subseteq Relayed
      /\ Published \subseteq 1..Len(bus)
  BY <1>2 DEF Relayed, RelayedMessages, Published
<1>4. RelayedMessages \subseteq 1..Len(bus)
  BY <1>3
<1>5. QED
  BY <1>1, <1>3, <1>4, Positions

\* What is relayed stays in order when the backend sends more, and when nothing
\* of it changes.
LEMMA RelayStands ==
  ASSUME TypeOK, RelayOK, RelayInOrder, UNCHANGED <<relayVars, bus>>,
         Len(protocolLog) <= Len(protocolLog'),
         \A n \in 1..Len(protocolLog) : protocolLog'[n] = protocolLog[n]
  PROVE  RelayOK' /\ RelayInOrder'
<1>1. UNCHANGED <<relay, relayCursor, relayed, plugged, bus>>
  BY DEF relayVars
<1>2. Relayed' = Relayed /\ RelayedMessages' = RelayedMessages
  BY BusStands
<1>3. relay = "publishing" => relayCursor - 1 \in 1..Len(protocolLog)
  <2> SUFFICES ASSUME relay = "publishing"
               PROVE  relayCursor - 1 \in 1..Len(protocolLog)
    OBVIOUS
  <2>1. relayCursor = Cardinality(Relayed) + 2
    BY DEF RelayOK
  <2>2. relayCursor \in Nat /\ relayCursor <= Len(protocolLog) + 1
    BY BusPositions DEF TypeOK
  <2>3. QED
    BY <2>1, <2>2, BusPositions
<1>4. RelayOK'
  BY <1>1, <1>2, <1>3 DEF RelayOK
<1>5. Cardinality(Relayed) <= Len(protocolLog')
  <2>1. Len(protocolLog') \in Nat \/ Len(protocolLog) <= Len(protocolLog')
    OBVIOUS
  <2>2. QED
    BY BusPositions DEF RelayInOrder
<1>6. \A i \in Relayed : protocolLog'[Rank(Relayed, i)] = bus[i]
  <2>1. ASSUME NEW i \in Relayed
        PROVE  protocolLog'[Rank(Relayed, i)] = bus[i]
    <3>1. Rank(Relayed, i) \in 1..Len(protocolLog)
      BY BusPositions DEF RelayInOrder
    <3>2. QED
      BY <3>1 DEF RelayInOrder
  <2>2. QED
    BY <2>1
<1>7. RelayInOrder'
  BY <1>1, <1>2, <1>5, <1>6 DEF RelayInOrder, Rank
<1>8. QED
  BY <1>4, <1>7

\* The relay holds one event at most, and publishes it before the next.
LEMMA RelayKept ==
  ASSUME TypeOK, SourcesOK, RelayOK, RelayInOrder, [Next]_vars
  PROVE  RelayOK' /\ RelayInOrder'
<1>0. ASSUME UNCHANGED <<protocolLog, relay, relayCursor, relayed, plugged, bus>>
      PROVE  RelayOK' /\ RelayInOrder'
  BY <1>0, RelayStands, BusPositions DEF relayVars
<1>1. CASE BackendEvent
  <2>1. UNCHANGED <<relayVars, bus>>
    BY <1>1 DEF BackendEvent
  <2>2. CASE UNCHANGED protocolLog
    BY <1>0, <2>1, <2>2 DEF relayVars
  <2>3. CASE protocolLog' = Append(protocolLog, Received(taken'))
    <3>1. /\ Len(protocolLog) <= Len(protocolLog')
          /\ \A n \in 1..Len(protocolLog) : protocolLog'[n] = protocolLog[n]
      BY <2>3 DEF TypeOK
    <3>2. QED
      BY <2>1, <3>1, RelayStands
  <2>4. QED
    BY <1>1, <2>2, <2>3 DEF BackendEvent
<1>2. CASE ListenerStops
  <2>1. UNCHANGED <<relayVars, bus>>
    BY <1>2 DEF ListenerStops
  <2>2. /\ Len(protocolLog) <= Len(protocolLog')
        /\ \A n \in 1..Len(protocolLog) : protocolLog'[n] = protocolLog[n]
    BY <1>2 DEF ListenerStops, TypeOK
  <2>3. QED
    BY <2>1, <2>2, RelayStands
<1>3. CASE RelayReceive
  <2>1. /\ relay = "waiting" /\ relay' = "publishing"
        /\ relayed' = protocolLog[relayCursor] /\ relayCursor' = relayCursor + 1
        /\ plugged' = ShownToPlugins(relayed')
        /\ UNCHANGED <<protocolLog, bus>>
        /\ relayCursor <= Len(protocolLog)
    BY <1>3 DEF RelayReceive, CanRead, HasNext, backendVars
  <2>2. Relayed' = Relayed /\ RelayedMessages' = RelayedMessages
    BY <2>1, BusStands
  <2>3. /\ relayCursor = Cardinality(Relayed) + 1
        /\ Len(plugged) = Cardinality(RelayedMessages)
    BY <2>1, BusPositions DEF RelayOK
  <2>4. relayCursor \in Nat /\ relayCursor' - 1 = relayCursor
    BY <2>1 DEF TypeOK
  <2>5. relayed' \in Inbound
    BY <2>1, <2>4 DEF TypeOK
  <2>6. /\ Len(plugged') = Cardinality(RelayedMessages)
             + (IF IsMessage(relayed') THEN 1 ELSE 0)
        /\ IsMessage(relayed') => plugged'[Len(plugged')] = relayed'
        /\ \A n \in 1..Cardinality(RelayedMessages) : plugged'[n] = plugged[n]
    BY <2>1, <2>3, <2>5, SMTT(20) DEF ShownToPlugins, TypeOK
  <2>7. RelayOK'
    BY <2>1, <2>2, <2>3, <2>4, <2>6, BusPositions DEF RelayOK, IsMessage
  <2>8. \A i \in RelayedMessages : plugged'[Rank(RelayedMessages, i)] = bus[i]
    BY <2>6, BusPositions DEF RelayInOrder
  <2>9. /\ Cardinality(RelayedMessages) <= Len(plugged')
        /\ Len(plugged') <= Cardinality(RelayedMessages) + 1
    BY <2>6, BusPositions
  <2>10. RelayInOrder'
    BY <2>1, <2>2, <2>8, <2>9 DEF RelayInOrder, Rank
  <2>11. QED
    BY <2>7, <2>10
<1>4. CASE RelayLagged
  <2>1. /\ relay = "waiting" /\ relay' = "ended"
        /\ UNCHANGED <<protocolLog, relayCursor, relayed, plugged, bus>>
    BY <1>4 DEF RelayLagged, backendVars
  <2>2. Relayed' = Relayed /\ RelayedMessages' = RelayedMessages
    BY <2>1, BusStands
  <2>3. RelayOK'
    BY <2>1, <2>2 DEF RelayOK
  <2>4. RelayInOrder'
    BY <2>1, <2>2 DEF RelayInOrder, Rank
  <2>5. QED
    BY <2>3, <2>4
<1>5. CASE RelayPublish
  <2> DEFINE n == Len(bus) + 1
  <2>1. /\ relay = "publishing" /\ relay' = "waiting"
        /\ bus' = Append(bus, relayed)
        /\ UNCHANGED <<protocolLog, relayCursor, plugged>>
    BY <1>5 DEF RelayPublish, backendVars
  <2>2. relayed \in Events /\ relayed.from = "backend"
    BY <2>1, Origins DEF SourcesOK
  <2>3. /\ \A i \in 1..Len(bus) : bus'[i] = bus[i]
        /\ bus'[n] = relayed
        /\ Relayed' = Relayed \cup {n}
        /\ RelayedMessages' = IF IsMessage(relayed) THEN RelayedMessages \cup {n}
                              ELSE RelayedMessages
    BY <2>1, <2>2, BusGrows DEF TypeOK
  <2>4. /\ n \in Nat /\ Relayed \in SUBSET (1..n) /\ n \notin Relayed
        /\ RelayedMessages \in SUBSET (1..n) /\ n \notin RelayedMessages
    BY BusPositions
  <2> HIDE DEF n
  <2>5. /\ Cardinality(Relayed') = Cardinality(Relayed) + 1
        /\ \A i \in Relayed : Rank(Relayed', i) = Rank(Relayed, i)
        /\ Rank(Relayed', n) = Cardinality(Relayed) + 1
    BY <2>3, <2>4, PositionMore
  <2>6. /\ relayCursor = Cardinality(Relayed) + 2
        /\ relayed = protocolLog[Cardinality(Relayed) + 1]
        /\ Cardinality(Relayed) + 1 <= Len(protocolLog)
    <3>1. relayCursor = Cardinality(Relayed) + 2
      BY <2>1 DEF RelayOK
    <3>2. relayCursor - 1 = Cardinality(Relayed) + 1
      BY <3>1, BusPositions
    <3>3. relayCursor - 1 <= Len(protocolLog)
      BY BusPositions DEF TypeOK
    <3>4. QED
      BY <2>1, <3>1, <3>2, <3>3 DEF RelayOK
  <2>7. relayCursor' = Cardinality(Relayed') + 1
    BY <2>1, <2>5, <2>6, BusPositions
  <2>8. ASSUME NEW i \in Relayed'
        PROVE  protocolLog'[Rank(Relayed', i)] = bus'[i]
    <3>1. CASE i = n
      BY <2>1, <2>3, <2>5, <2>6, <3>1
    <3>2. CASE i \in Relayed
      <4>1. bus'[i] = bus[i]
        BY <2>3, <3>2, BusPositions
      <4>2. QED
        BY <2>1, <2>5, <3>2, <4>1 DEF RelayInOrder
    <3>3. QED
      BY <2>3, <3>1, <3>2
  <2>9. \A i \in RelayedMessages : bus'[i] = bus[i]
    BY <2>3, BusPositions
  <2>10. ASSUME IsMessage(relayed)
         PROVE  /\ Len(plugged') = Cardinality(RelayedMessages')
                /\ \A i \in RelayedMessages' :
                     plugged'[Rank(RelayedMessages', i)] = bus'[i]
    <3>1. RelayedMessages' = RelayedMessages \cup {n}
      BY <2>3, <2>10
    <3>2. /\ Cardinality(RelayedMessages') = Cardinality(RelayedMessages) + 1
          /\ \A i \in RelayedMessages :
               Rank(RelayedMessages', i) = Rank(RelayedMessages, i)
          /\ Rank(RelayedMessages', n) = Cardinality(RelayedMessages) + 1
      BY <2>4, <3>1, PositionMore
    <3>3. /\ Len(plugged) = Cardinality(RelayedMessages) + 1
          /\ plugged[Len(plugged)] = relayed
      BY <2>1, <2>10 DEF RelayOK
    <3>4. ASSUME NEW i \in RelayedMessages'
          PROVE  plugged'[Rank(RelayedMessages', i)] = bus'[i]
      <4>1. CASE i = n
        BY <2>1, <2>3, <3>2, <3>3, <4>1
      <4>2. CASE i \in RelayedMessages
        BY <2>1, <2>9, <3>2, <4>2 DEF RelayInOrder
      <4>3. QED
        BY <3>1, <4>1, <4>2
    <3>5. QED
      BY <2>1, <3>2, <3>3, <3>4
  <2>11. ASSUME ~IsMessage(relayed)
         PROVE  /\ Len(plugged') = Cardinality(RelayedMessages')
                /\ \A i \in RelayedMessages' :
                     plugged'[Rank(RelayedMessages', i)] = bus'[i]
    <3>1. RelayedMessages' = RelayedMessages
      BY <2>3, <2>11
    <3>2. Len(plugged) = Cardinality(RelayedMessages)
      BY <2>1, <2>11, BusPositions DEF RelayOK
    <3>3. \A i \in RelayedMessages : plugged[Rank(RelayedMessages, i)] = bus'[i]
      BY <2>9 DEF RelayInOrder
    <3>4. QED
      BY <2>1, <3>1, <3>2, <3>3
  <2>12. Cardinality(RelayedMessages') \in Nat
    BY <2>10, <2>11, <2>1, BusPositions
  <2>13. RelayOK'
    BY <2>1, <2>7, <2>10, <2>11, <2>12 DEF RelayOK
  <2>14. Cardinality(Relayed') <= Len(protocolLog')
    BY <2>1, <2>5, <2>6
  <2>15. /\ Cardinality(RelayedMessages') <= Len(plugged')
         /\ Len(plugged') <= Cardinality(RelayedMessages') + 1
    BY <2>10, <2>11, <2>12
  <2>16. RelayInOrder'
    BY <2>8, <2>10, <2>11, <2>14, <2>15 DEF RelayInOrder, Rank
  <2>17. QED
    BY <2>13, <2>16
<1>6. CASE DispatcherPublish
  <2> DEFINE e == Head(dispatchQueue)
  <2>1. /\ bus' = Append(bus, e)
        /\ UNCHANGED <<protocolLog, relay, relayCursor, relayed, plugged>>
    BY <1>6 DEF DispatcherPublish, backendVars, relayVars
  <2>2. e \in Events /\ e.from = "api"
    BY <1>6 DEF DispatcherPublish, TypeOK, SourcesOK
  <2> HIDE DEF e
  <2>3. /\ \A i \in 1..Len(bus) : bus'[i] = bus[i]
        /\ Relayed' = Relayed /\ RelayedMessages' = RelayedMessages
    BY <2>1, <2>2, BusGrows DEF TypeOK
  <2>4. RelayOK'
    BY <2>1, <2>3 DEF RelayOK
  <2>5. /\ \A i \in Relayed : bus'[i] = bus[i]
        /\ \A i \in RelayedMessages : bus'[i] = bus[i]
    BY <2>3, BusPositions
  <2>6. RelayInOrder'
    BY <2>1, <2>3, <2>5 DEF RelayInOrder, Rank
  <2>7. QED
    BY <2>4, <2>6
<1>7. ASSUME NEW q \in Sends, Accept(q) PROVE RelayOK' /\ RelayInOrder'
  BY <1>7, <1>0 DEF Accept, backendVars, relayVars
<1>8. ASSUME NEW q \in Sends, SendProtocol(q) PROVE RelayOK' /\ RelayInOrder'
  BY <1>8, <1>0 DEF SendProtocol, backendVars, relayVars
<1>9. ASSUME NEW q \in Sends, Emit(q) PROVE RelayOK' /\ RelayInOrder'
  BY <1>9, <1>0 DEF Emit, backendVars, relayVars
<1>10. ASSUME NEW q \in Sends, EmitTimeout(q) PROVE RelayOK' /\ RelayInOrder'
  BY <1>10, <1>0 DEF EmitTimeout, backendVars, relayVars
<1>11. ASSUME NEW q \in Sends, RequestDropped(q) PROVE RelayOK' /\ RelayInOrder'
  BY <1>11, <1>0 DEF RequestDropped, backendVars, relayVars
<1>12. ASSUME NEW r \in Readers, Subscribe(r) PROVE RelayOK' /\ RelayInOrder'
  BY <1>12, <1>0 DEF Subscribe, backendVars, relayVars
<1>13. ASSUME NEW r \in Readers, Deliver(r) PROVE RelayOK' /\ RelayInOrder'
  BY <1>13, <1>0 DEF Deliver, backendVars, relayVars
<1>14. ASSUME NEW r \in Readers, ReaderLagged(r) PROVE RelayOK' /\ RelayInOrder'
  BY <1>14, <1>0 DEF ReaderLagged, CloseReader, backendVars, relayVars
<1>15. ASSUME NEW r \in Readers, PollTimeout(r) PROVE RelayOK' /\ RelayInOrder'
  BY <1>15, <1>0 DEF PollTimeout, CloseReader, backendVars, relayVars
<1>16. ASSUME NEW r \in Readers, ClientLeaves(r) PROVE RelayOK' /\ RelayInOrder'
  BY <1>16, <1>0 DEF ClientLeaves, CloseReader, backendVars, relayVars
<1>17. CASE UNCHANGED vars
  BY <1>17, <1>0 DEF vars, backendVars, relayVars
<1>18. QED
  BY <1>1, <1>2, <1>3, <1>4, <1>5, <1>6, <1>7, <1>8, <1>9, <1>10, <1>11, <1>12, <1>13, <1>14, <1>15, <1>16, <1>17
     DEF Next

\* A message is accepted by the protocol before its event is emitted.
LEMMA WireKept ==
  ASSUME TypeOK, SourcesOK, WireOK, [Next]_vars
  PROVE  WireOK'
<1> USE DEF TypeOK, SourcesOK, WireOK, backendVars, relayVars, sendVars, readerVars
<1>1. CASE BackendEvent
  BY <1>1 DEF BackendEvent
<1>2. CASE ListenerStops
  BY <1>2 DEF ListenerStops
<1>3. CASE RelayReceive
  BY <1>3 DEF RelayReceive
<1>4. CASE RelayLagged
  BY <1>4 DEF RelayLagged
<1>5. CASE RelayPublish
  BY <1>5 DEF RelayPublish
<1>6. CASE DispatcherPublish
  BY <1>6 DEF DispatcherPublish
<1>7. ASSUME NEW q \in Sends, Accept(q) PROVE WireOK'
  BY <1>7 DEF Accept, Respond
<1>8. ASSUME NEW q \in Sends, SendProtocol(q) PROVE WireOK'
  BY <1>8 DEF SendProtocol, Respond
<1>9. ASSUME NEW q \in Sends, Emit(q) PROVE WireOK'
  BY <1>9 DEF Emit, Respond
<1>10. ASSUME NEW q \in Sends, EmitTimeout(q) PROVE WireOK'
  BY <1>10 DEF EmitTimeout, Respond
<1>11. ASSUME NEW q \in Sends, RequestDropped(q) PROVE WireOK'
  BY <1>11 DEF RequestDropped, Respond
<1>12. ASSUME NEW r \in Readers, Subscribe(r) PROVE WireOK'
  BY <1>12 DEF Subscribe
<1>13. ASSUME NEW r \in Readers, Deliver(r) PROVE WireOK'
  BY <1>13 DEF Deliver
<1>14. ASSUME NEW r \in Readers, ReaderLagged(r) PROVE WireOK'
  BY <1>14 DEF ReaderLagged, CloseReader
<1>15. ASSUME NEW r \in Readers, PollTimeout(r) PROVE WireOK'
  BY <1>15 DEF PollTimeout, CloseReader
<1>16. ASSUME NEW r \in Readers, ClientLeaves(r) PROVE WireOK'
  BY <1>16 DEF ClientLeaves, CloseReader
<1>17. CASE UNCHANGED vars
  BY <1>17 DEF vars
<1>18. QED
  BY <1>1, <1>2, <1>3, <1>4, <1>5, <1>6, <1>7, <1>8, <1>9, <1>10, <1>11, <1>12, <1>13, <1>14, <1>15, <1>16, <1>17
     DEF Next

\* The answers 200, and their events, when a request's change is not one.
LEMMA AnswersStand ==
  ASSUME TypeOK, NEW q \in Sends, request[q] # "200",
         NEW status, status # "200",
         request' = [request EXCEPT ![q] = status],
         \A p \in Sends \ {q} : about'[p] = about[p],
         EmittedOnce, UNCHANGED <<bus, dispatchQueue>>
  PROVE  EmittedOnce'
<1>1. Answered' = Answered /\ q \notin Answered /\ Answered \subseteq Sends
  BY DEF Answered, TypeOK
<1>2. {Sent(p, about'[p]) : p \in Answered} = {Sent(p, about[p]) : p \in Answered}
  BY <1>1
<1>3. Published' = Published
  BY BusStands
<1>4. QED
  BY <1>1, <1>2, <1>3 DEF EmittedOnce, ToSet

\* An event is queued with the answer 200, and published once.
LEMMA AccountsKept ==
  ASSUME TypeOK, SourcesOK, WireOK, EmittedOnce, [Next]_vars
  PROVE  EmittedOnce'
<1>0. ASSUME UNCHANGED <<bus, dispatchQueue, request, about>>
      PROVE  EmittedOnce'
  BY <1>0, BusStands DEF EmittedOnce, Answered, ToSet
<1>1. CASE BackendEvent
  BY <1>1, <1>0 DEF BackendEvent, sendVars
<1>2. CASE ListenerStops
  BY <1>2, <1>0 DEF ListenerStops, sendVars
<1>3. CASE RelayReceive
  BY <1>3, <1>0 DEF RelayReceive, sendVars
<1>4. CASE RelayLagged
  BY <1>4, <1>0 DEF RelayLagged, sendVars
<1>5. CASE RelayPublish
  <2>1. bus' = Append(bus, relayed) /\ UNCHANGED <<dispatchQueue, request, about>>
    BY <1>5 DEF RelayPublish, sendVars
  <2>2. relayed \in Events /\ relayed.from = "backend"
    BY <1>5, Origins DEF RelayPublish, SourcesOK
  <2>3. Published' = Published /\ \A i \in 1..Len(bus) : bus'[i] = bus[i]
    BY <2>1, <2>2, BusGrows DEF TypeOK
  <2>4. {bus'[i] : i \in Published} = {bus[i] : i \in Published}
    BY <2>3, BusPositions
  <2>5. Answered' = Answered
    BY <2>1 DEF Answered
  <2>6. ToSet(dispatchQueue)' = ToSet(dispatchQueue)
    BY <2>1
  <2>7. {Sent(q, about[q]) : q \in Answered}' = {Sent(q, about[q]) : q \in Answered}
    BY <2>1, <2>5
  <2>8. QED
    BY <2>1, <2>3, <2>4, <2>5, <2>6, <2>7 DEF EmittedOnce
<1>6. CASE DispatcherPublish
  <2> DEFINE e == Head(dispatchQueue)
             n == Len(bus) + 1
  <2>1. /\ bus' = Append(bus, e) /\ dispatchQueue' = Tail(dispatchQueue)
        /\ dispatchQueue # <<>> /\ UNCHANGED <<request, about>>
    BY <1>6 DEF DispatcherPublish, sendVars
  <2>2. e \in Events /\ e.from = "api"
    BY <2>1 DEF TypeOK, SourcesOK
  <2>3. /\ Len(dispatchQueue) = Len(dispatchQueue') + 1
        /\ Len(dispatchQueue') \in Nat
        /\ ToSet(dispatchQueue) = ToSet(dispatchQueue') \cup {e}
    <3>1. dispatchQueue \in Seq(Events)
      BY DEF TypeOK
    <3>2. /\ Len(dispatchQueue) = Len(Tail(dispatchQueue)) + 1
          /\ Len(Tail(dispatchQueue)) \in Nat
          /\ DOMAIN dispatchQueue = 1..Len(dispatchQueue)
          /\ DOMAIN Tail(dispatchQueue) = 1..Len(Tail(dispatchQueue))
          /\ \A i \in DOMAIN Tail(dispatchQueue) :
               Tail(dispatchQueue)[i] = dispatchQueue[i + 1]
          /\ e = dispatchQueue[1]
      BY <2>1, <3>1
    <3>3. \A i \in DOMAIN dispatchQueue :
            \/ i = 1
            \/ i - 1 \in DOMAIN Tail(dispatchQueue) /\ (i - 1) + 1 = i
      BY <3>2
    <3>4. \A i \in DOMAIN Tail(dispatchQueue) : i + 1 \in DOMAIN dispatchQueue
      BY <3>2
    <3>5. 1 \in DOMAIN dispatchQueue
      BY <3>2
    <3> HIDE DEF e
    <3>6. ToSet(dispatchQueue) \subseteq ToSet(dispatchQueue') \cup {e}
      BY <2>1, <3>2, <3>3 DEF ToSet
    <3>7. ToSet(dispatchQueue') \cup {e} \subseteq ToSet(dispatchQueue)
      BY <2>1, <3>2, <3>4, <3>5 DEF ToSet
    <3>8. QED
      BY <2>1, <3>2, <3>6, <3>7
  <2> HIDE DEF e
  <2>4. /\ Published' = Published \cup {n} /\ bus'[n] = e
        /\ \A i \in 1..Len(bus) : bus'[i] = bus[i]
    BY <2>1, <2>2, BusGrows DEF TypeOK
  <2>5. n \in Nat /\ Published \in SUBSET (1..n) /\ n \notin Published
    BY BusPositions
  <2> HIDE DEF n
  <2>6. Cardinality(Published') = Cardinality(Published) + 1
    BY <2>4, <2>5, PositionMore
  <2>7. {bus'[i] : i \in Published'} = {bus[i] : i \in Published} \cup {e}
    BY <2>4, BusPositions
  <2>8. Answered' = Answered
    BY <2>1 DEF Answered
  <2>9. Cardinality(Published') + Len(dispatchQueue') = Cardinality(Answered')
    BY <2>3, <2>6, <2>8, BusPositions DEF EmittedOnce
  <2>10. {Sent(p, about'[p]) : p \in Answered'} = {Sent(p, about[p]) : p \in Answered}
    BY <2>1, <2>8
  <2>11. QED
    BY <2>3, <2>7, <2>9, <2>10 DEF EmittedOnce
<1>7. ASSUME NEW q \in Sends, Accept(q) PROVE EmittedOnce'
  <2>1. PICK k \in Requests :
          /\ about' = [about EXCEPT ![q] = k]
          /\ Respond(q, CASE k = None -> "400"
                          [] k = "warning" -> "emitting"
                          [] OTHER -> "sending")
    BY <1>7 DEF Accept
  <2>2. /\ request[q] = "idle" /\ UNCHANGED <<bus, dispatchQueue>>
        /\ \A p \in Sends \ {q} : about'[p] = about[p]
    BY <1>7, <2>1 DEF Accept, TypeOK
  <2>3. PICK status \in {"400", "emitting", "sending"} :
          request' = [request EXCEPT ![q] = status]
    <3>1. CASE k = None
      BY <2>1, <3>1, PipelineAssumption DEF Respond
    <3>2. CASE k # None
      BY <2>1, <3>2 DEF Respond
    <3>3. QED
      BY <3>1, <3>2
  <2>4. QED
    BY <2>2, <2>3, AnswersStand
<1>8. ASSUME NEW q \in Sends, SendProtocol(q) PROVE EmittedOnce'
  <2>1. /\ request[q] = "sending" /\ UNCHANGED <<bus, dispatchQueue, about>>
        /\ \E status \in {"502", "emitting"} :
             request' = [request EXCEPT ![q] = status]
    BY <1>8 DEF SendProtocol, Respond
  <2>2. QED
    BY <2>1, AnswersStand
<1>9. ASSUME NEW q \in Sends, Emit(q) PROVE EmittedOnce'
  <2> DEFINE e == Sent(q, about[q])
  <2>1. /\ request[q] = "emitting" /\ UNCHANGED <<bus, about>>
        /\ dispatchQueue' = Append(dispatchQueue, e)
        /\ request' = [request EXCEPT ![q] = "200"]
    BY <1>9 DEF Emit, Respond
  <2>2. Published' = Published
    BY <2>1, BusStands
  <2>3. Answered' = Answered \cup {q} /\ q \notin Answered
    BY <2>1 DEF Answered, TypeOK
  <2>4. IsFiniteSet(Answered) /\ Cardinality(Answered) \in Nat
    <3>1. Answered \in SUBSET (1..MaxSends) /\ MaxSends \in Nat
      BY PipelineAssumption DEF Answered, Sends
    <3>2. QED
      BY <3>1, Positions
  <2>5. Cardinality(Answered') = Cardinality(Answered) + 1
    BY <2>3, <2>4, FS_AddElement
  <2>6. {Sent(p, about'[p]) : p \in Answered'}
          = {Sent(p, about[p]) : p \in Answered} \cup {e}
    BY <2>1, <2>3
  <2> HIDE DEF e
  <2>7. /\ Len(dispatchQueue') = Len(dispatchQueue) + 1
        /\ Len(dispatchQueue) \in Nat
        /\ DOMAIN dispatchQueue' = DOMAIN dispatchQueue \cup {Len(dispatchQueue) + 1}
        /\ dispatchQueue'[Len(dispatchQueue) + 1] = e
        /\ \A i \in DOMAIN dispatchQueue : dispatchQueue'[i] = dispatchQueue[i]
    <3>1. dispatchQueue \in Seq(Events)
      BY DEF TypeOK
    <3>2. QED
      BY <2>1, <3>1
  <2>8. ToSet(dispatchQueue') = ToSet(dispatchQueue) \cup {e}
    BY <2>7 DEF ToSet
  <2>9. Cardinality(Published') + Len(dispatchQueue') = Cardinality(Answered')
    BY <2>2, <2>4, <2>5, <2>7, BusPositions DEF EmittedOnce
  <2>10. QED
    BY <2>1, <2>2, <2>6, <2>8, <2>9 DEF EmittedOnce
<1>10. ASSUME NEW q \in Sends, EmitTimeout(q) PROVE EmittedOnce'
  <2>1. /\ request[q] = "emitting" /\ UNCHANGED <<bus, dispatchQueue, about>>
        /\ request' = [request EXCEPT ![q] = "503"]
    BY <1>10 DEF EmitTimeout, Respond
  <2>2. QED
    BY <2>1, AnswersStand
<1>11. ASSUME NEW q \in Sends, RequestDropped(q) PROVE EmittedOnce'
  <2>1. /\ request[q] # "200" /\ UNCHANGED <<bus, dispatchQueue, about>>
        /\ request' = [request EXCEPT ![q] = "dropped"]
    BY <1>11 DEF RequestDropped, Respond
  <2>2. QED
    BY <2>1, AnswersStand
<1>12. ASSUME NEW r \in Readers, Subscribe(r) PROVE EmittedOnce'
  BY <1>12, <1>0 DEF Subscribe, sendVars
<1>13. ASSUME NEW r \in Readers, Deliver(r) PROVE EmittedOnce'
  BY <1>13, <1>0 DEF Deliver, sendVars
<1>14. ASSUME NEW r \in Readers, ReaderLagged(r) PROVE EmittedOnce'
  BY <1>14, <1>0 DEF ReaderLagged, CloseReader, sendVars
<1>15. ASSUME NEW r \in Readers, PollTimeout(r) PROVE EmittedOnce'
  BY <1>15, <1>0 DEF PollTimeout, CloseReader, sendVars
<1>16. ASSUME NEW r \in Readers, ClientLeaves(r) PROVE EmittedOnce'
  BY <1>16, <1>0 DEF ClientLeaves, CloseReader, sendVars
<1>17. CASE UNCHANGED vars
  BY <1>17, <1>0 DEF vars, sendVars
<1>18. QED
  BY <1>1, <1>2, <1>3, <1>4, <1>5, <1>6, <1>7, <1>8, <1>9, <1>10, <1>11, <1>12, <1>13, <1>14, <1>15, <1>16, <1>17
     DEF Next

\* The inductive invariant holds for all constants.
LEMMA Inductive == Spec => []IInv
<1>1. Init => IInv
  <2> SUFFICES ASSUME Init PROVE IInv
    OBVIOUS
  <2>1. TypeOK
    BY PipelineAssumption, PacketsAssumption DEF Init, TypeOK
  <2>2. SourcesOK /\ ReadersOK /\ WireOK
    BY DEF Init, SourcesOK, ReadersOK, WireOK
  <2>3. Relayed = {} /\ RelayedMessages = {} /\ Published = {} /\ Answered = {}
    BY DEF Init, Relayed, RelayedMessages, Published, Answered
  <2>4. RelayOK /\ RelayInOrder
    BY <2>3, FS_EmptySet DEF Init, RelayOK, RelayInOrder
  <2>5. ASSUME NEW r \in Readers PROVE GivenWhatIsDue(r)
    <3>1. Due(r) = {} /\ got[r] = <<>>
      BY DEF Init, Due
    <3>2. QED
      BY <3>1, FS_EmptySet DEF GivenWhatIsDue
  <2>6. EmittedOnce
    <3>1. ToSet(dispatchQueue) = {} /\ Len(dispatchQueue) = 0
      BY DEF Init, ToSet
    <3>2. QED
      BY <2>3, <3>1, FS_EmptySet DEF EmittedOnce
  <2>7. QED
    BY <2>1, <2>2, <2>4, <2>5, <2>6 DEF IInv, NoGapsInStream
<1>2. IInv /\ [Next]_vars => IInv'
  BY TypesKept, ReadersKept, StreamKept, RelayKept, WireKept, AccountsKept
     DEF IInv
<1>3. QED
  BY <1>1, <1>2, PTL DEF Spec

\* Every variable keeps its type, and the dispatch queue its bound.
THEOREM TypeCorrect == Spec => []TypeOK
<1>1. IInv => TypeOK
  BY DEF IInv
<1>2. QED
  BY <1>1, Inductive, PTL

\* Whatever is published while it reads and however far it falls behind, a
\* reader is given the accepted events of the stretch it has read, each once
\* and in order.
THEOREM StreamsHaveNoGaps == Spec => []NoGapsInStream
<1>1. IInv => NoGapsInStream
  BY DEF IInv
<1>2. QED
  BY <1>1, Inductive, PTL

\* The relay publishes the backend's events in their order, skips none, and
\* shows the plugins each message first.
THEOREM RelayKeepsOrder == Spec => []RelayInOrder
<1>1. IInv => RelayInOrder
  BY DEF IInv
<1>2. QED
  BY <1>1, Inductive, PTL

\* A request's answer says what became of its event, and of its message.
THEOREM AnswersAreTrue == Spec => []SendAccounting
<1>1. IInv => SendAccounting
  BY DEF IInv, WireOK, EmittedOnce, SendAccounting, Answered, TypeOK
<1>2. QED
  BY <1>1, Inductive, PTL

=============================================================================
