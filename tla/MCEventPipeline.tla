-------------------------- MODULE MCEventPipeline ---------------------------
\* Properties of EventPipeline and its model-checking instance.
EXTENDS EventPipeline

\* One packet that gives no event, then more events than the channels hold.
MCPackets ==
  <<"other", "message.received", "client.session", "message.received">>

\* Every variable has its type.
TypeOK ==
  /\ taken \in 0..Len(Packets)
  /\ protocolLog \in Seq(Inbound)
  /\ backend \in {"listening", "ended"}
  /\ relay \in {"waiting", "publishing", "ended"}
  /\ relayCursor \in 1 .. Len(protocolLog) + 1
  /\ relayed \in Inbound \cup {None}
  /\ plugged \in Seq(Inbound)
  /\ dispatchQueue \in Seq(Events) /\ Len(dispatchQueue) <= DispatchCapacity
  /\ bus \in Seq(Events)
  /\ request \in [Sends -> {"idle", "sending", "emitting", "200", "400", "502",
                            "503", "dropped"}]
  /\ about \in [Sends -> {None, "message", "warning"}]
  /\ wire \subseteq Sends
  /\ reader \in [Readers -> {"idle", "open", "done"}]
  /\ kind \in [Readers -> {"none", "socket", "poll"}]
  /\ accepts \in [Readers -> SUBSET PostTypes]
  /\ cursor \in [Readers -> Nat] /\ first \in [Readers -> Nat]
  /\ left \in [Readers -> 0..MaxEvents]
  /\ got \in [Readers -> Seq({Payload(e) : e \in Events})]

\* The place that i has among some positions.
Rank(positions, i) == Cardinality({j \in positions : j <= i})

\* The positions of what a reader has read and its filter accepts.
Due(r) == {i \in first[r] .. cursor[r] - 1 : PostType(bus[i]) \in accepts[r]}

\* Its reader has been given just these, in order.
GivenWhatIsDue(r) ==
  /\ Len(got[r]) = Cardinality(Due(r))
  /\ \A i \in Due(r) : got[r][Rank(Due(r), i)] = Payload(bus[i])

\* What a reader was given is the stretch of the bus it has read, in order,
\* without a gap and without a repetition, less what its filter rejects:
\* falling behind ends the stream, it never leaves a hole in it.
NoGapsInStream == \A r \in Readers : GivenWhatIsDue(r)

\* The positions of the backend's events on the bus.
Relayed == {i \in DOMAIN bus : bus[i].from = "backend"}
RelayedMessages == {i \in Relayed : IsMessage(bus[i])}

\* The relay keeps the backend's order and skips nothing: the backend's
\* events on the bus are a prefix of what it sent, and each message among
\* them was shown to the plugins before, in that order.
RelayInOrder ==
  /\ Cardinality(Relayed) <= Len(protocolLog)
  /\ \A i \in Relayed : protocolLog[Rank(Relayed, i)] = bus[i]
  /\ Cardinality(RelayedMessages) <= Len(plugged)
  /\ \A i \in RelayedMessages : plugged[Rank(RelayedMessages, i)] = bus[i]
  /\ Len(plugged) <= Cardinality(RelayedMessages) + 1

\* Those of the send handlers' events, and the requests answered 200.
Published == {i \in DOMAIN bus : bus[i].from = "api"}
Answered == {q \in Sends : request[q] = "200"}

\* A request answered 200 has its event queued or published exactly once, and
\* a message among them was accepted by the protocol before; one answered 502
\* was not accepted; one answered 400, 502, 503 or dropped leaves no event; and
\* no deletion ever goes to the protocol.
SendAccounting ==
  /\ {bus[i] : i \in Published} \cup ToSet(dispatchQueue)
       = {Sent(q, about[q]) : q \in Answered}
  /\ Cardinality(Published) + Len(dispatchQueue) = Cardinality(Answered)
  /\ \A q \in Answered : about[q] # "warning" => q \in wire
  /\ \A q \in wire : request[q] # "502" /\ about[q] # "warning"

\* Whoever reads and however full the queue is, what was answered 200 reaches
\* the bus.  So does every event of the backend, whatever the plugins answer,
\* unless they never end or the relay falls a whole channel behind.
NothingIsLost ==
  /\ \A q \in Sends : request[q] = "200" ~> Sent(q, about[q]) \in ToSet(bus)
  /\ []~HasLagged(protocolLog, relayCursor, Capacity)
       /\ []<>(relay # "publishing")
       => <>[](ToSet(protocolLog) \subseteq ToSet(bus))

\* A poll ends, on a silent bus and on one whose events its filter rejects.
PollsEnd ==
  \A r \in Readers : kind[r] = "poll" /\ reader[r] = "open" ~> reader[r] # "open"

=============================================================================
