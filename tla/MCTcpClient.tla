---------------------------- MODULE MCTcpClient -----------------------------
\* Properties of TcpClient.
EXTENDS TcpClient

Fragments == [id : 1..MaxPackets, part : {"head", "tail"}]

\* Every variable has its type; a login that waits has packets left to wait for.
TypeOK ==
  /\ callers \in Disciplines
  /\ state \in {"Disconnected", "Connected", "LoggedIn", "Closing"}
  /\ stream \in Calls \cup {None}
  /\ token \in BOOLEAN
  /\ pc \in [Calls -> {"idle", "connect", "store_stream", "mark_connected",
       "login", "write", "send", "transmit", "store_token", "mark_login",
       "close", "shutdown", "forget", "mark_disconnected", "check", "clone",
       "reading", "ok", "err", "returned"}]
  /\ op \in [Calls -> Orders \cup {"none", "receive"}]
  /\ socket \in [Calls -> Calls \cup {None}]
  /\ line \in [Calls -> Seq(Fragments)]
  /\ retries \in 0..MaxRetries
  /\ \A p \in Calls :
       op[p] = "login" /\ pc[p] \in {"check", "clone", "reading"} => retries > 0
  /\ wire \in [Calls -> Seq(Fragments)]
  /\ {shut, asked, granted, sent} \subseteq SUBSET Calls
  /\ route \in Seq(Routes)
  /\ half \in [Calls -> 1..MaxPackets \cup {None}]

\* The connection opened last.
Opened == {c \in Calls : op[c] = "connect" /\ pc[c] \in {"mark_connected", "ok"}}
Latest == CHOOSE c \in Opened : \A d \in Opened : d <= c

\* Whatever a receive call takes away from a login, and wherever the server
\* hangs up: the client is only LoggedIn, with a token, when the server has
\* accepted a login on the connection that is open now, not on an earlier one.
\* And a packet or heartbeat is only ever written to a connection on which it
\* has: the LoggedIn that send_packet reads is that of the stream it then takes.
LoginHonest ==
  /\ state = "LoggedIn" => token /\ Opened # {} /\ Latest \in granted
  /\ sent \subseteq granted

\* Between lifecycle calls: a client is open or Disconnected, and nothing of a
\* session outlives its disconnect, though a receive call may still be reading
\* from the old connection.
DisconnectedIsClean ==
  (\A p \in Running : op[p] = "receive") =>
    /\ state # "Closing"
    /\ state = "Disconnected" => stream = None /\ ~token

\* One call at a time: whatever earlier reads have cut off or dropped, a line
\* that parses is a packet the server has sent, whole.
PacketsIntact ==
  callers = "exclusive" =>
    \A p \in Calls :
      pc[p] = "reading" =>
        LET first == FirstLine(line[p] \o wire[socket[p]])
        IN  first # <<>> /\ Parses(first) =>
            \E n \in 1..Len(route) :
              first = <<[id |-> n, part |-> "head"], [id |-> n, part |-> "tail"]>>

=============================================================================
