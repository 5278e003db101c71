----------------------------- MODULE TcpClient ------------------------------
(***************************************************************************)
(* TcpQQClient of crates/qq-client: connect, login, receive_packet,        *)
(* send_packet, heartbeat and disconnect over one TCP stream of JSON       *)
(* lines, and the server it talks to.  Calls are numbered in the order     *)
(* they are made; a connection is named after the connect call that opened *)
(* it.  A line from the server comes in two fragments, head and tail       *)
(* (which holds the newline), so that reads can fall between them.  How    *)
(* long a timeout is, which heartbeat changes, is left out: one may elapse *)
(* at any time.                                                            *)
(***************************************************************************)
EXTENDS SequencesExt

CONSTANTS
  MaxCalls,        \* bound on the calls
  MaxPackets,      \* bound on the packets the server sends
  MaxRetries,      \* packets wait_for_login_ack looks at
  None             \* no connection, no packet

ASSUME TcpAssumption ==
  /\ {MaxCalls, MaxPackets, MaxRetries} \subseteq Nat
  /\ MaxRetries > 0
  /\ None \notin 1..MaxCalls \cup 1..MaxPackets

Calls == 1..MaxCalls
\* An auth.ok whose payload is not JSON counts as a system.error.
Routes == {"auth.ok", "system.error", "message"}
\* A heartbeat is a send that makes one check more.
Orders == {"connect", "login", "send", "disconnect"}

\* How the callers behave: connect, login, sends and disconnect one at a time
\* and beside them one receive after the other, as QQClientBackend does when
\* nobody sends during its connect and disconnect (it makes the lifecycle
\* calls with listen_task held and receives from its one listener); or one
\* call at a time.
Disciplines == {"backend", "exclusive"}

VARIABLES
  callers,    \* the callers' discipline (never changes)
  state,      \* ConnectionState
  stream,     \* the connection in the stream slot
  token,      \* is a token stored
  pc, op,     \* where each call stands, and what it does
  socket,     \* the connection each call reads from
  line,       \* the fragments in its BufReader
  retries,    \* packets the login under way may still look at
  wire,       \* fragments sent on each connection and not read yet
  shut,       \* connections that were shut down, by either side
  asked,      \* connections a login request was written to, until disconnect
  granted,    \* connections the server has sent auth.ok on, until disconnect
  sent,       \* connections a packet was sent on, until disconnect
  route,      \* the routes of the packets sent so far
  half        \* the packet of which each connection has sent the head only

slot == <<state, stream, token>>
readVars == <<socket, line, retries>>
server == <<asked, granted, sent, route, half>>
vars == <<callers, slot, pc, op, readVars, wire, shut, server>>

Init ==
  /\ callers \in Disciplines
  /\ state = "Disconnected" /\ stream = None /\ token = FALSE
  /\ pc = [p \in Calls |-> "idle"]
  /\ op = [p \in Calls |-> "none"]
  /\ socket = [p \in Calls |-> None]
  /\ line = [p \in Calls |-> <<>>]
  /\ retries = MaxRetries
  /\ wire = [c \in Calls |-> <<>>]
  /\ shut = {} /\ asked = {} /\ granted = {} /\ sent = {}
  /\ route = <<>>
  /\ half = [c \in Calls |-> None]

\* A connect's result is kept, since it makes the connection; the other calls
\* are forgotten when they have returned.
Results == {"ok", "none", "err"}
Goto(p, label) ==
  pc' = [pc EXCEPT ![p] = IF label \in Results /\ op[p] # "connect"
                            THEN "returned" ELSE label]
Running == {p \in Calls : pc[p] \notin Results \cup {"idle", "returned"}}
SessionOpen == state \in {"Connected", "LoggedIn"}

\* Connections end: what has arrived can still be read, no more is sent.
\* (asked, granted and sent are about the connection in use.)
HangUp(ended) == /\ shut' = shut \cup ended
                 /\ asked' = asked \ ended
                 /\ granted' = granted \ ended
                 /\ sent' = sent \ ended
                 /\ half' = [c \in Calls |-> IF c \in ended THEN None ELSE half[c]]

Begin(p) ==
  /\ pc[p] = "idle"
  /\ \A q \in 1..(p - 1) : pc[q] # "idle"
  /\ \E o \in Orders \cup {"receive"} :
       /\ callers = "backend" =>
            \A q \in Running : (op[q] = "receive") # (o = "receive")
       /\ callers = "exclusive" => Running = {}
       /\ op' = [q \in Calls |-> IF q = p THEN o
                                 ELSE IF pc[q] = "returned" THEN "none"
                                 ELSE op[q]]
       /\ Goto(p, CASE o = "connect"    -> "connect"
                    [] o = "login"      -> "login"
                    [] o = "send"       -> "send"
                    [] o = "receive"    -> "check"
                    [] o = "disconnect" -> "close")
  /\ UNCHANGED <<callers, slot, readVars, wire, shut, server>>

-----------------------------------------------------------------------------
\* Refused while a session is open; otherwise dial, with a timeout.
Connect(p) ==
  /\ pc[p] = "connect"
  /\ \/ Goto(p, "err")
     \/ ~SessionOpen /\ Goto(p, "store_stream")
  /\ UNCHANGED <<callers, slot, op, readVars, wire, shut, server>>

StoreStream(p) ==
  /\ pc[p] = "store_stream"
  /\ stream' = p
  /\ Goto(p, "mark_connected")
  /\ UNCHANGED <<callers, state, token, op, readVars, wire, shut, server>>

MarkConnected(p) ==
  /\ pc[p] = "mark_connected"
  /\ state' = "Connected"
  /\ Goto(p, "ok")
  /\ UNCHANGED <<callers, stream, token, op, readVars, wire, shut, server>>

\* Empty credentials, no stream or a failed write are errors; a write that
\* timed out may have reached the server all the same.
LoginCheck(p) ==
  /\ pc[p] = "login"
  /\ \/ Goto(p, "err")
     \/ SessionOpen /\ Goto(p, "write")
  /\ UNCHANGED <<callers, slot, op, readVars, wire, shut, server>>

LoginWrite(p) ==
  /\ pc[p] = "write"
  /\ \/ /\ Goto(p, "err")
        /\ asked' \in {asked, asked \cup ({stream} \ {None})}
     \/ /\ stream # None
        /\ asked' = asked \cup {stream}
        /\ Goto(p, "check")
  /\ retries' = MaxRetries
  /\ UNCHANGED <<callers, slot, op, socket, line, wire, shut, granted, sent,
                 route, half>>

\* auth.ok was read: the token is stored, then the state, whatever it is now.
StoreToken(p) ==
  /\ pc[p] = "store_token"
  /\ token' = TRUE
  /\ Goto(p, "mark_login")
  /\ UNCHANGED <<callers, state, stream, op, readVars, wire, shut, server>>

MarkLogin(p) ==
  /\ pc[p] = "mark_login"
  /\ state' = "LoggedIn"
  /\ Goto(p, "ok")
  /\ UNCHANGED <<callers, stream, token, op, readVars, wire, shut, server>>

\* send_packet, and heartbeat after its own checks (an open session, an
\* interval that is not zero): not LoggedIn is an error.  The state's lock is
\* dropped before the stream's is taken.
SendCheck(p) ==
  /\ pc[p] = "send"
  /\ \/ Goto(p, "err")
     \/ state = "LoggedIn" /\ Goto(p, "transmit")
  /\ UNCHANGED <<callers, slot, op, readVars, wire, shut, server>>

\* No stream, a failed write and a timeout are errors; the packet may have
\* gone out all the same.
Transmit(p) ==
  /\ pc[p] = "transmit"
  /\ \/ /\ Goto(p, "err")
        /\ sent' \in {sent, sent \cup ({stream} \ {None})}
     \/ /\ stream # None
        /\ sent' = sent \cup {stream}
        /\ Goto(p, "ok")
  /\ UNCHANGED <<callers, slot, op, readVars, wire, shut, asked, granted, route,
                 half>>

MarkClosing(p) ==
  /\ pc[p] = "close"
  /\ state' = "Closing"
  /\ Goto(p, "shutdown")
  /\ UNCHANGED <<callers, stream, token, op, readVars, wire, shut, server>>

\* (mutant) as_ref() for take()
ShutdownInPlace(p) ==
  /\ pc[p] = "shutdown"
  /\ HangUp({stream} \ {None})
  /\ Goto(p, "forget")
  /\ UNCHANGED <<callers, slot, op, readVars, wire, route>>

Shutdown(p) ==
  /\ pc[p] = "shutdown"
  /\ stream' = None
  /\ HangUp({stream} \ {None})
  /\ Goto(p, "forget")
  /\ UNCHANGED <<callers, state, token, op, readVars, wire, route>>

Forget(p) ==
  /\ pc[p] = "forget"
  /\ token' = FALSE
  /\ Goto(p, "mark_disconnected")
  /\ UNCHANGED <<callers, state, stream, op, readVars, wire, shut, server>>

MarkDisconnected(p) ==
  /\ pc[p] = "mark_disconnected"
  /\ state' = "Disconnected"
  /\ Goto(p, "ok")
  /\ UNCHANGED <<callers, stream, token, op, readVars, wire, shut, server>>

-----------------------------------------------------------------------------
\* recv_once_with_timeout, for receive_packet and for a login's ack.  No open
\* session is no packet; for a login, no packet is an error.
NoPacket(p) == IF op[p] = "login" THEN "err" ELSE "none"

ReceiveCheck(p) ==
  /\ pc[p] = "check"
  /\ Goto(p, IF SessionOpen THEN "clone" ELSE NoPacket(p))
  /\ UNCHANGED <<callers, slot, op, readVars, wire, shut, server>>

\* With the slot's mutex: take the stream, duplicate it, put it back.  When
\* the socket cannot be duplicated the stream is lost with it.
Clone(p) ==
  /\ pc[p] = "clone"
  /\ \/ /\ Goto(p, "err")
        /\ stream' = None
        /\ UNCHANGED socket
     \/ /\ stream # None
        /\ socket' = [socket EXCEPT ![p] = stream]
        /\ Goto(p, "reading")
        /\ UNCHANGED stream
  /\ UNCHANGED <<callers, state, token, op, line, retries, wire, shut, server>>

\* The duplicate and the BufReader go out of scope.
DropReader(p) == /\ socket' = [socket EXCEPT ![p] = None]
                 /\ line' = [line EXCEPT ![p] = <<>>]

\* (mutant) a line is taken for the packet it ends with
ParsesByTail(fragments) == TRUE

\* The first line in a buffer, and whether it parses: a head followed by a
\* tail, of one packet or (with two readers) of two.
FirstLine(fragments) ==
  SubSeq(fragments, 1, SelectInSeq(fragments, LAMBDA f : f.part = "tail"))
Parses(fragments) == Len(fragments) = 2 /\ fragments[1].part = "head"

\* (mutant) the packets a login skips are not counted
AfterPacketForever(p, r) ==
  CASE op[p] = "receive"                     -> "ok"
    [] op[p] = "login" /\ r = "auth.ok"      -> "store_token"
    [] op[p] = "login" /\ r = "system.error" -> "err"
    [] op[p] = "login" /\ r = "message"      -> "check"

\* (mutant) any packet but system.error ends the wait
AfterPacketAny(p, r) ==
  IF op[p] = "receive" THEN "ok"
  ELSE IF r = "system.error" THEN "err" ELSE "store_token"

\* What a packet means to the call: a login waits for auth.ok, gives up at
\* system.error and skips a few others.
AfterPacket(p, r) ==
  CASE op[p] = "receive"                     -> "ok"
    [] op[p] = "login" /\ r = "auth.ok"      -> "store_token"
    [] op[p] = "login" /\ r = "system.error" -> "err"
    [] op[p] = "login" /\ r = "message"      ->
         IF retries > 1 THEN "check" ELSE "err"

\* read_line: the BufReader takes everything that has arrived.  Once it holds
\* a newline the first line is the packet, and what follows is dropped with
\* the BufReader.  A line of two packets' halves has the route of the first.
Read(p) ==
  LET buffer == line[p] \o wire[socket[p]]
      first  == FirstLine(buffer)
  IN  /\ pc[p] = "reading"
      /\ wire[socket[p]] # <<>>
      /\ wire' = [wire EXCEPT ![socket[p]] = <<>>]
      /\ IF first = <<>>
           THEN /\ line' = [line EXCEPT ![p] = buffer]
                /\ UNCHANGED <<pc, socket, retries>>
           ELSE /\ DropReader(p)
                /\ IF Parses(first)
                     THEN /\ Goto(p, AfterPacket(p, route[first[1].id]))
                          /\ retries' = IF op[p] = "login" THEN retries - 1 ELSE retries
                     ELSE Goto(p, "err") /\ UNCHANGED retries
      /\ UNCHANGED <<callers, slot, op, shut, server>>

\* The connection was shut down: no packet, or half a line that does not
\* parse.
ReadEof(p) ==
  /\ pc[p] = "reading"
  /\ wire[socket[p]] = <<>> /\ socket[p] \in shut
  /\ Goto(p, IF line[p] = <<>> THEN NoPacket(p) ELSE "err")
  /\ DropReader(p)
  /\ UNCHANGED <<callers, slot, op, retries, wire, shut, server>>

\* The timeout drops what was read so far.
ReadTimeout(p) ==
  /\ pc[p] = "reading"
  /\ wire[socket[p]] = <<>>
  /\ Goto(p, "err")
  /\ DropReader(p)
  /\ UNCHANGED <<callers, slot, op, retries, wire, shut, server>>

-----------------------------------------------------------------------------
\* The server answers login requests and sends what else it likes, line by
\* line on each connection.
Send(c, id, part) ==
  wire' = [wire EXCEPT ![c] = Append(@, [id |-> id, part |-> part])]

ServerSendHead(c) ==
  /\ op[c] = "connect" /\ pc[c] \in {"mark_connected", "ok"}
  /\ c \notin shut /\ half[c] = None
  /\ Len(route) < MaxPackets
  /\ \E r \in Routes :
       /\ r = "auth.ok" => c \in asked
       /\ granted' = IF r = "auth.ok" THEN granted \cup {c} ELSE granted
       /\ route' = Append(route, r)
  /\ Send(c, Len(route'), "head")
  /\ half' = [half EXCEPT ![c] = Len(route')]
  /\ UNCHANGED <<callers, slot, pc, op, readVars, shut, asked, sent>>

ServerSendTail(c) ==
  /\ c \notin shut /\ half[c] # None
  /\ Send(c, half[c], "tail")
  /\ half' = [half EXCEPT ![c] = None]
  /\ UNCHANGED <<callers, slot, pc, op, readVars, shut, asked, granted, sent,
                 route>>

ServerClose(c) ==
  /\ op[c] = "connect" /\ pc[c] \in {"mark_connected", "ok"}
  /\ c \notin shut
  /\ shut' = shut \cup {c}
  /\ half' = [half EXCEPT ![c] = None]
  /\ UNCHANGED <<callers, slot, pc, op, readVars, wire, asked, granted, sent,
                 route>>

CallStep(p) ==
  \/ Connect(p) \/ StoreStream(p) \/ MarkConnected(p)
  \/ LoginCheck(p) \/ LoginWrite(p) \/ StoreToken(p) \/ MarkLogin(p)
  \/ SendCheck(p) \/ Transmit(p)
  \/ MarkClosing(p) \/ Shutdown(p) \/ Forget(p) \/ MarkDisconnected(p)
  \/ ReceiveCheck(p) \/ Clone(p) \/ Read(p) \/ ReadEof(p) \/ ReadTimeout(p)

Next ==
  \E p \in Calls : \/ Begin(p) \/ CallStep(p)
                    \/ ServerSendHead(p) \/ ServerSendTail(p) \/ ServerClose(p)

Spec == Init /\ [][Next]_vars

=============================================================================
