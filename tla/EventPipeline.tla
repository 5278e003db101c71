--------------------------- MODULE EventPipeline ----------------------------
(***************************************************************************)
(* The event paths of crates/api around one ApiState:                      *)
(*                                                                         *)
(*   backend listener --protocol_events--> relay task --+                  *)
(*                                         (plugins)    +--> events bus    *)
(*   send handlers ----dispatch_tx-------> dispatcher --+     |            *)
(*                                                   /ws, /message/listen  *)
(*                                                                         *)
(* protocol_events and the bus are broadcast channels, dispatch_tx is a    *)
(* bounded mpsc.  The log of a broadcast channel keeps everything sent.    *)
(***************************************************************************)
EXTENDS Broadcast, SequencesExt

CONSTANTS
  Packets,           \* what the backend receives, in order: routes
  MaxSends,          \* bound on the requests to the send and delete routes
  Readers,           \* /ws connections and /message/listen requests
  Capacity,          \* EVENT_BROADCAST_CAPACITY
  DispatchCapacity,  \* EVENT_DISPATCH_CAPACITY
  Types,             \* the event types that queries name
  MaxEvents,         \* the most events a poll may ask for (32)
  None               \* no event

ASSUME PipelineAssumption ==
  /\ MaxSends \in Nat
  /\ {Capacity, DispatchCapacity, MaxEvents} \subseteq Nat \ {0}
  /\ None \notin {"message", "warning"}

\* What decode_inbound_packet makes of a packet's route; a message.received
\* without a readable message is a warning, as is a receive that fails, and
\* other routes say nothing.
Decode == [r \in {"message.received", "unreadable", "client.connected",
                  "client.session", "system.error", "other"} |->
  CASE r = "message.received" -> "message"
    [] r \in {"client.connected", "client.session"} -> "connected"
    [] r \in {"unreadable", "system.error"} -> "warning"
    [] r = "other" -> "nothing"]

ASSUME PacketsAssumption == Packets \in Seq(DOMAIN Decode)

\* Packets and requests are numbered in the order they come.
Sends == 1..MaxSends
Received(n) == [from |-> "backend", id |-> n, kind |-> Decode[Packets[n]]]
Stopped == [from |-> "backend", id |-> 0, kind |-> "disconnected"]
Inbound == {Received(n) : n \in {m \in 1..Len(Packets) :
                                   Decode[Packets[m]] # "nothing"}}
             \cup {Stopped}
Sent(q, k) == [from |-> "api", id |-> q, kind |-> k]
Events == Inbound \cup {Sent(q, k) : q \in Sends,
                                     k \in {"message", "warning"}}

IsMessage(e) == e.kind = "message"
PostTypes == {"message", "meta_event"}
PostType(e) == IF IsMessage(e) THEN "message" ELSE "meta_event"

\* The OneBot-shaped JSON a client is given.
Payload(e) ==
  [id |-> e.id, from |-> e.from, post_type |-> PostType(e),
   sub_type |-> CASE e.kind = "message" -> "friend or normal"
                  [] e.kind \in {"connected", "disconnected"} -> e.kind
                  [] e.kind = "warning" -> "protocol_warning"]

VARIABLES
  taken,         \* how many packets the backend's listener has received
  protocolLog,   \* protocol_events
  backend,       \* is the backend's listener still in its loop
  relay,         \* the relay task: waiting, publishing or ended
  relayCursor,   \* where its receiver stands
  relayed,       \* the event it holds
  plugged,       \* messages PluginManager.dispatch was called with, in order
  dispatchQueue, \* dispatch_tx / dispatch_rx
  bus,           \* ApiState.events
  request,       \* where each request stands
  about,         \* the event it is to emit
  wire,          \* messages protocol.send_message was accepted for
  reader,        \* where each reader stands
  kind,          \* whether it is a socket or a poll
  accepts,       \* the post types its filter accepts
  cursor,        \* its position on the bus
  first,         \* the position it subscribed at
  left,          \* iterations a poll has left
  got            \* the events it was given

relayVars == <<relay, relayCursor, relayed, plugged>>
sendVars == <<request, about, wire>>
backendVars == <<taken, protocolLog, backend>>
readerVars == <<reader, kind, accepts, cursor, first, left, got>>
vars == <<backendVars, relayVars, dispatchQueue, bus, sendVars,
          readerVars>>

Init ==
  /\ taken = 0 /\ protocolLog = <<>>
  /\ backend = "listening"
  /\ relay = "waiting" /\ relayCursor = 1 /\ relayed = None
  /\ plugged = <<>>
  /\ dispatchQueue = <<>>
  /\ bus = <<>>
  /\ request = [q \in Sends |-> "idle"]
  /\ about = [q \in Sends |-> None]
  /\ wire = {}
  /\ reader = [r \in Readers |-> "idle"]
  /\ kind = [r \in Readers |-> "none"]
  /\ accepts = [r \in Readers |-> {}]
  /\ cursor = [r \in Readers |-> 0]
  /\ first = [r \in Readers |-> 0]
  /\ left = [r \in Readers |-> 0]
  /\ got = [r \in Readers |-> <<>>]

-----------------------------------------------------------------------------
\* The backend's listener receives a packet, and notify.send(event)s what it
\* makes of it.  The relay holds the only receiver: when it has ended the send
\* fails, and the listener leaves its loop or, with a warning of its own and in
\* OneBotHttpBackend, goes on without the event.
BackendEvent ==
  /\ backend = "listening"
  /\ taken < Len(Packets)
  /\ taken' = taken + 1
  /\ \/ /\ Decode[Packets[taken']] = "nothing"
        /\ UNCHANGED <<protocolLog, backend>>
     \/ /\ Decode[Packets[taken']] # "nothing" /\ relay # "ended"
        /\ protocolLog' = Append(protocolLog, Received(taken'))
        /\ UNCHANGED backend
     \/ /\ Decode[Packets[taken']] # "nothing" /\ relay = "ended"
        /\ \/ UNCHANGED backend
           \/ Packets[taken'] # "unreadable" /\ backend' = "ended"
        /\ UNCHANGED protocolLog
  /\ UNCHANGED <<relayVars, dispatchQueue, bus, sendVars, readerVars>>

\* It is stopped or gives up after the last packet, and says so as it ends.
ListenerStops ==
  /\ backend = "listening"
  /\ taken = Len(Packets)
  /\ backend' = "ended"
  /\ protocolLog' = IF relay = "ended" THEN protocolLog
                    ELSE Append(protocolLog, Stopped)
  /\ UNCHANGED <<taken, relayVars, dispatchQueue, bus, sendVars, readerVars>>

\* What the plugins are shown after event e: messages only.
ShownToPlugins(e) ==
  IF IsMessage(e) THEN Append(plugged, e) ELSE plugged

\* (mutant) a plugin error ends the task
RelayReceiveFragile ==
  /\ relay = "waiting"
  /\ CanRead(protocolLog, relayCursor, Capacity)
  /\ relayed' = protocolLog[relayCursor]
  /\ relay' \in IF IsMessage(relayed') THEN {"publishing", "ended"}
                                                  ELSE {"publishing"}
  /\ relayCursor' = relayCursor + 1
  /\ plugged' = ShownToPlugins(relayed')
  /\ UNCHANGED <<backendVars, dispatchQueue, bus, sendVars, readerVars>>

\* (mutant) Lagged is skipped: go on with the oldest event still there
RelayReceiveSkipping ==
  LET at == IF HasLagged(protocolLog, relayCursor, Capacity)
              THEN Len(protocolLog) - Capacity + 1 ELSE relayCursor
  IN  /\ relay = "waiting"
      /\ HasNext(protocolLog, relayCursor)
      /\ relay' = "publishing"
      /\ relayed' = protocolLog[at]
      /\ relayCursor' = at + 1
      /\ plugged' = ShownToPlugins(relayed')
      /\ UNCHANGED <<backendVars, dispatchQueue, bus, sendVars,
                     readerVars>>

\* protocol_rx.recv(): any error ends the task, Lagged included.  A message
\* goes to the plugins first, and their errors are ignored.
RelayReceive ==
  /\ relay = "waiting"
  /\ CanRead(protocolLog, relayCursor, Capacity)
  /\ relay' = "publishing"
  /\ relayed' = protocolLog[relayCursor]
  /\ relayCursor' = relayCursor + 1
  /\ plugged' = ShownToPlugins(relayed')
  /\ UNCHANGED <<backendVars, dispatchQueue, bus, sendVars, readerVars>>

RelayLagged ==
  /\ relay = "waiting"
  /\ HasLagged(protocolLog, relayCursor, Capacity)
  /\ relay' = "ended"
  /\ UNCHANGED <<backendVars, relayCursor, relayed, plugged,
                 dispatchQueue, bus, sendVars, readerVars>>

\* The plugins have answered or timed out; publish.  (They may also never end,
\* see PluginManager's stalled dispatch: no fairness is assumed here.)
RelayPublish ==
  /\ relay = "publishing"
  /\ relay' = "waiting"
  /\ bus' = Append(bus, relayed)
  /\ relayed' = None
  /\ UNCHANGED <<backendVars, relayCursor, plugged, dispatchQueue,
                 sendVars, readerVars>>

DispatcherPublish ==
  /\ dispatchQueue # <<>>
  /\ bus' = Append(bus, Head(dispatchQueue))
  /\ dispatchQueue' = Tail(dispatchQueue)
  /\ UNCHANGED <<backendVars, relayVars, sendVars, readerVars>>

-----------------------------------------------------------------------------
Respond(q, status) == request' = [request EXCEPT ![q] = status]

\* The fields of each route's request that may not be blank.  The compat
\* routes make a NapMessage of an id, a sender and an element of their own.
Required ==
  [route \in {"/message/send", "/send_msg", "/send_private_msg",
              "/send_group_msg", "/delete_msg"} |->
     CASE route = "/message/send" -> {"id", "sender_id", "elements", "target"}
       [] route = "/delete_msg" -> {"id"}
       [] OTHER -> {"message", "target"}]

\* The event a request asks for, or None (400).
Asked(route, blank) ==
  IF Required[route] \cap blank # {} THEN None
  ELSE IF route = "/delete_msg" THEN "warning" ELSE "message"

Requests ==
  {Asked(route, blank) :
     route \in DOMAIN Required,
     blank \in SUBSET {"id", "sender_id", "elements", "target", "message"}}

\* (mutant) a deletion goes to the protocol too, which knows none
AcceptAlike(q) ==
  /\ request[q] = "idle"
  /\ \A p \in 1..(q - 1) : request[p] # "idle"
  /\ \E k \in Requests :
       /\ about' = [about EXCEPT ![q] = k]
       /\ Respond(q, IF k = None THEN "400" ELSE "sending")
  /\ UNCHANGED <<backendVars, relayVars, dispatchQueue, bus, wire, readerVars>>

\* A handler validates its body; a deletion does not go to the protocol.
Accept(q) ==
  /\ request[q] = "idle"
  /\ \A p \in 1..(q - 1) : request[p] # "idle"
  /\ \E k \in Requests :
       /\ about' = [about EXCEPT ![q] = k]
       /\ Respond(q, CASE k = None -> "400"
                       [] k = "warning" -> "emitting"
                       [] OTHER -> "sending")
  /\ UNCHANGED <<backendVars, relayVars, dispatchQueue, bus, wire, readerVars>>

\* protocol.send_message (there is a protocol backend; without one the wire is
\* left out): on error 502 and nothing more.
SendProtocol(q) ==
  /\ request[q] = "sending"
  /\ \/ Respond(q, "502") /\ UNCHANGED wire
     \/ Respond(q, "emitting") /\ wire' = wire \cup {q}
  /\ UNCHANGED <<backendVars, relayVars, dispatchQueue, bus, about, readerVars>>

\* (mutant) an unbounded dispatch queue
EmitUnbounded(q) ==
  /\ request[q] = "emitting"
  /\ dispatchQueue' = Append(dispatchQueue, Sent(q, about[q]))
  /\ Respond(q, "200")
  /\ UNCHANGED <<backendVars, relayVars, bus, about, wire, readerVars>>

\* emit_event: 503 when the queue stays full for EVENT_DISPATCH_TIMEOUT_MS.
\* (Of several requests that wait for room any may be the next.)
Emit(q) ==
  /\ request[q] = "emitting"
  /\ Len(dispatchQueue) < DispatchCapacity
  /\ dispatchQueue' = Append(dispatchQueue, Sent(q, about[q]))
  /\ Respond(q, "200")
  /\ UNCHANGED <<backendVars, relayVars, bus, about, wire, readerVars>>

EmitTimeout(q) ==
  /\ request[q] = "emitting"
  /\ Len(dispatchQueue) = DispatchCapacity
  /\ Respond(q, "503")
  /\ UNCHANGED <<backendVars, relayVars, dispatchQueue, bus, about, wire,
                 readerVars>>

\* The HTTP client goes away: the handler is dropped at its await.
RequestDropped(q) ==
  /\ request[q] \in {"sending", "emitting"}
  /\ Respond(q, "dropped")
  /\ UNCHANGED <<backendVars, relayVars, dispatchQueue, bus, about, wire,
                 readerVars>>

-----------------------------------------------------------------------------
\* Three fields of the query name event types; the first that names any is the
\* filter, and without one every event is accepted.  It may name types that no
\* event has.
Queries == [{"type", "types", "post_type"} -> SUBSET Types]

EventTypes(query) ==
  CASE query["type"] # {} -> query["type"]
    [] query["type"] = {} /\ query["types"] # {} -> query["types"]
    [] query["type"] = {} /\ query["types"] = {} ->
         IF query["post_type"] # {} THEN query["post_type"] ELSE PostTypes

Filters == {EventTypes(query) \cap PostTypes : query \in Queries}

\* max_events, clamped.
Clamp(asked) == IF asked = 0 THEN 1 ELSE IF asked > MaxEvents THEN MaxEvents
                                         ELSE asked
PollLengths == {Clamp(asked) : asked \in 0 .. MaxEvents + 1}

Subscribe(r) ==
  /\ reader[r] = "idle"
  /\ \/ /\ kind' = [kind EXCEPT ![r] = "socket"]
        /\ UNCHANGED left
     \/ /\ kind' = [kind EXCEPT ![r] = "poll"]
        /\ \E n \in PollLengths : left' = [left EXCEPT ![r] = n]
  /\ \E types \in Filters : accepts' = [accepts EXCEPT ![r] = types]
  /\ reader' = [reader EXCEPT ![r] = "open"]
  /\ cursor' = [cursor EXCEPT ![r] = Subscribed(bus)]
  /\ first' = [first EXCEPT ![r] = Subscribed(bus)]
  /\ UNCHANGED <<backendVars, relayVars, dispatchQueue, bus, sendVars, got>>

\* What a reader has been given after event e came up.
Filtered(r, given, e) ==
  IF PostType(e) \in accepts[r] THEN Append(given, Payload(e)) ELSE given

\* (mutant) Lagged is skipped: go on with the oldest event still there
DeliverSkipping(r) ==
  LET at == IF HasLagged(bus, cursor[r], Capacity)
              THEN Len(bus) - Capacity + 1 ELSE cursor[r]
  IN  /\ reader[r] = "open"
      /\ HasNext(bus, cursor[r])
      /\ cursor' = [cursor EXCEPT ![r] = at + 1]
      /\ left' = [left EXCEPT ![r] = IF kind[r] = "poll" THEN @ - 1 ELSE @]
      /\ reader' = [reader EXCEPT ![r] = IF left[r] = 1 THEN "done" ELSE @]
      /\ got' = [got EXCEPT ![r] = Filtered(r, @, bus[at])]
      /\ UNCHANGED <<backendVars, relayVars, dispatchQueue, bus,
                     sendVars, kind, accepts, first>>

\* The next event is read and, if the filter accepts it, given to the client.
\* In a poll a rejected event uses up an iteration too.
Deliver(r) ==
  /\ reader[r] = "open"
  /\ CanRead(bus, cursor[r], Capacity)
  /\ cursor' = [cursor EXCEPT ![r] = @ + 1]
  /\ left' = [left EXCEPT ![r] = IF kind[r] = "poll" THEN @ - 1 ELSE @]
  /\ reader' = [reader EXCEPT ![r] = IF left[r] = 1 THEN "done" ELSE @]
  /\ got' = [got EXCEPT ![r] = Filtered(r, @, bus[cursor[r]])]
  /\ UNCHANGED <<backendVars, relayVars, dispatchQueue, bus, sendVars,
                 kind, accepts, first>>

CloseReader(r) ==
  /\ reader[r] = "open"
  /\ reader' = [reader EXCEPT ![r] = "done"]
  /\ UNCHANGED <<backendVars, relayVars, dispatchQueue, bus, sendVars,
                 kind, accepts, cursor, first, left, got>>

\* (mutant) the wait for a poll's first event has no timeout
PollTimeoutLater(r) ==
  /\ kind[r] = "poll" /\ ~HasNext(bus, cursor[r])
  /\ cursor[r] > first[r]
  /\ CloseReader(r)

\* Lagged ends the socket's loop and the poll's loop; a poll also ends when
\* no event comes within its timeout, a socket when its client has left.
ReaderLagged(r) ==
  HasLagged(bus, cursor[r], Capacity) /\ CloseReader(r)

PollTimeout(r) ==
  kind[r] = "poll" /\ ~HasNext(bus, cursor[r]) /\ CloseReader(r)

ClientLeaves(r) == CloseReader(r)

Next ==
  \/ BackendEvent \/ ListenerStops
  \/ RelayReceive \/ RelayLagged \/ RelayPublish \/ DispatcherPublish
  \/ \E q \in Sends : \/ Accept(q) \/ SendProtocol(q) \/ Emit(q)
                      \/ EmitTimeout(q) \/ RequestDropped(q)
  \/ \E r \in Readers : \/ Subscribe(r) \/ Deliver(r) \/ ReaderLagged(r)
                        \/ PollTimeout(r) \/ ClientLeaves(r)

\* The two tasks of ApiState run whenever they can, requests go on, and so does
\* every poll; a socket whose client does not read may stand still.
Fairness ==
  /\ WF_vars(RelayReceive \/ RelayLagged)
  /\ WF_vars(DispatcherPublish)
  /\ \A q \in Sends : WF_vars(SendProtocol(q) \/ Emit(q) \/ EmitTimeout(q))
  /\ \A r \in Readers :
       WF_vars(/\ kind[r] = "poll"
               /\ Deliver(r) \/ ReaderLagged(r) \/ PollTimeout(r))

Spec == Init /\ [][Next]_vars /\ Fairness

=============================================================================
