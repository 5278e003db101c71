-------------------------- MODULE TcpClient_proofs --------------------------
(***************************************************************************)
(* Proofs, for any number of calls and packets, that TcpQQClient is only   *)
(* LoggedIn, and only sends, on a connection on which the server accepted  *)
(* a login, and that a disconnect leaves nothing of its session behind,    *)
(* while lifecycle calls and receive calls overlap; and that one call at a *)
(* time never reads parts of two packets as one.                           *)
(***************************************************************************)
EXTENDS MCTcpClient, WellFoundedInduction, TLAPS

\* Where a call of each kind can stand; a call holds part of a line only while
\* it reads.
CallsOK ==
  \A p \in Calls :
    /\ pc[p] \in {"connect", "store_stream", "mark_connected", "ok", "err"} =>
         op[p] = "connect"
    /\ pc[p] \in {"login", "write", "store_token", "mark_login"} => op[p] = "login"
    /\ pc[p] \in {"send", "transmit"} => op[p] = "send"
    /\ pc[p] \in {"close", "shutdown", "forget", "mark_disconnected"} =>
         op[p] = "disconnect"
    /\ pc[p] \in {"check", "clone", "reading"} => op[p] \in {"login", "receive"}
    /\ pc[p] # "none"
    /\ pc[p] = "reading" => socket[p] \in Calls
    /\ pc[p] # "reading" => line[p] = <<>>

\* The fragments on their way are of packets that were sent.
FragmentsOK ==
  /\ Len(route) <= MaxPackets
  /\ \A c \in Calls :
       /\ half[c] # None => half[c] <= Len(route)
       /\ \A i \in DOMAIN wire[c] : wire[c][i].id <= Len(route)
       /\ \A i \in DOMAIN line[c] : line[c][i].id <= Len(route)

\* Whatever the callers' discipline, there is one lifecycle call and one receive
\* call at a time, and what began after a lifecycle call under way is a receive.
SerialOK ==
  /\ \A p, q \in Running : (op[p] = "receive" <=> op[q] = "receive") => p = q
  /\ \A p, q \in Calls :
       p < q => /\ pc[p] = "idle" => pc[q] = "idle"
                /\ p \in Running /\ op[p] # "receive" /\ pc[q] # "idle" =>
                     op[q] \in {"receive", "none"}

\* Nothing is sent on a connection before it is open, and the stream slot holds
\* none but the connection opened last.
Current(c) == c \in Opened /\ \A d \in Opened : d <= c

StreamOK ==
  /\ \A c \in Calls \ Opened : wire[c] = <<>> /\ half[c] = None
  /\ stream # None => Current(stream)

\* What a lifecycle call under way can rely on, and what it leaves.
SessionOK ==
  /\ \A p \in Calls :
       /\ pc[p] \in {"store_stream", "mark_connected"} => state = "Disconnected"
       /\ op[p] = "login" /\ pc[p] \in {"write", "check", "clone", "reading",
                                        "store_token", "mark_login"} => SessionOpen
       /\ pc[p] = "transmit" => state = "LoggedIn"
       /\ pc[p] \in {"shutdown", "forget", "mark_disconnected"} => state = "Closing"
       /\ pc[p] \in {"forget", "mark_disconnected"} => stream = None
       /\ pc[p] = "mark_disconnected" => ~token
  /\ state = "Closing" =>
       \E p \in Calls : pc[p] \in {"shutdown", "forget", "mark_disconnected"}
  /\ state = "Disconnected" =>
       ~token /\ (stream = None \/ pc[stream] = "mark_connected")

\* A packet auth.ok that can be read from the connection in use was granted on
\* it, also when its login has it in its buffer or has understood it.
Accepts(fragments) ==
  \E i \in DOMAIN fragments :
    fragments[i].part = "head" /\ route[fragments[i].id] = "auth.ok"

GrantsOK ==
  /\ \A c \in Calls :
       Current(c) /\ (SessionOpen \/ pc[c] = "mark_connected") /\ Accepts(wire[c]) =>
         c \in granted
  /\ \A p \in Calls :
       /\ op[p] = "login" /\ pc[p] = "reading" =>
            Current(socket[p]) /\ (Accepts(line[p]) => socket[p] \in granted)
       /\ pc[p] \in {"store_token", "mark_login"} =>
            \E c \in Calls : Current(c) /\ c \in granted
       /\ pc[p] = "mark_login" => token

LoggedInOK ==
  /\ state = "LoggedIn" => token /\ \E c \in Calls : Current(c) /\ c \in granted
  /\ sent \subseteq granted

IInv == /\ TypeOK /\ CallsOK /\ FragmentsOK /\ SerialOK
        /\ StreamOK /\ SessionOK /\ GrantsOK /\ LoggedInOK

-----------------------------------------------------------------------------
\* None is no connection.
LEMMA NoneIsNoCall == None \notin Calls
BY TcpAssumption DEF Calls

\* Where the first line of a buffer ends, if it has one.
LEMMA FirstTail ==
  ASSUME NEW s \in Seq(Fragments)
  PROVE  SelectInSeq(s, LAMBDA f : f.part = "tail") \in 0..Len(s)
<1> DEFINE I == {i \in 1..Len(s) : s[i].part = "tail"}
           k == IF I # {} THEN Min(I) ELSE 0
<1>1. SelectInSeq(s, LAMBDA f : f.part = "tail") = k
  BY DEF SelectInSeq
<1>2. CASE I = {}
  BY <1>1, <1>2
<1>3. CASE I # {}
  <2> DEFINE R == {ss \in Nat \X Nat : ss[1] < ss[2]}
  <2>1. IsWellFoundedOn(R, Nat)
    BY NatLessThanWellFounded DEF OpToRel
  <2> HIDE DEF R
  <2>2. I \subseteq Nat
    OBVIOUS
  <2> DEFINE J == I
  <2>3. J \subseteq Nat /\ J # {}
    BY <1>3, <2>2
  <2> HIDE DEF J
  <2>4. PICK m \in J : \A j \in J : ~(<<j, m>> \in R)
    BY <2>1, <2>3, WFMin
  <2>5. \A j \in J : m <= j
    <3>1. \A x, y \in Nat : x < y => <<x, y>> \in R
      BY DEF R
    <3>2. ASSUME NEW j \in J PROVE m <= j
      <4>1. m \in Nat /\ j \in Nat /\ ~(<<j, m>> \in R)
        BY <2>3, <2>4
      <4>2. ~(j < m)
        BY <3>1, <4>1
      <4>3. QED
        BY <4>1, <4>2
    <3>3. QED
      BY <3>2
  <2>6. Min(J) \in J
    BY <2>4, <2>5 DEF Min
  <2>7. QED
    BY <1>1, <1>3, <2>6 DEF J
<1>4. QED
  BY <1>2, <1>3

\* The first line is the start of the buffer it is taken from.
LEMMA FirstLineOK ==
  ASSUME NEW buffer \in Seq(Fragments)
  PROVE  /\ FirstLine(buffer) \in Seq(Fragments)
         /\ FirstLine(buffer) # <<>> =>
              1 \in DOMAIN buffer /\ FirstLine(buffer)[1] = buffer[1]
<1> DEFINE k == SelectInSeq(buffer, LAMBDA f : f.part = "tail")
<1>1. FirstLine(buffer) = SubSeq(buffer, 1, k)
  BY DEF FirstLine
<1>2. k \in 0..Len(buffer)
  BY FirstTail
<1> HIDE DEF k
<1>3. CASE k = 0
  BY <1>1, <1>3
<1>4. CASE k # 0
  <2>1. k \in 1..Len(buffer) /\ 1 \in DOMAIN buffer
    BY <1>2, <1>4
  <2>2. /\ SubSeq(buffer, 1, k) \in Seq(Fragments)
        /\ SubSeq(buffer, 1, k)[1] = buffer[1]
    BY <2>1
  <2>3. QED
    BY <1>1, <2>1, <2>2
<1>5. QED
  BY <1>2, <1>3, <1>4

\* What a reader has and what has arrived, joined.
LEMMA Joined ==
  ASSUME NEW s \in Seq(Fragments), NEW t \in Seq(Fragments)
  PROVE  /\ s \o t \in Seq(Fragments)
         /\ \A i \in DOMAIN (s \o t) :
              \/ i \in DOMAIN s /\ (s \o t)[i] = s[i]
              \/ \E j \in DOMAIN t : (s \o t)[i] = t[j]
<1>1. /\ s \o t \in Seq(Fragments) /\ DOMAIN (s \o t) = 1 .. Len(s) + Len(t)
      /\ DOMAIN s = 1..Len(s) /\ DOMAIN t = 1..Len(t)
      /\ Len(s) \in Nat /\ Len(t) \in Nat
  OBVIOUS
<1>2. ASSUME NEW i \in 1 .. Len(s) + Len(t), i > Len(s)
      PROVE  \E j \in DOMAIN t : (s \o t)[i] = t[j]
  <2>1. i - Len(s) \in 1..Len(t)
    BY <1>1, <1>2
  <2>2. (s \o t)[i] = t[i - Len(s)]
    BY <1>2
  <2>3. QED
    BY <1>1, <2>1, <2>2
<1>3. ASSUME NEW i \in 1 .. Len(s) + Len(t), i <= Len(s)
      PROVE  i \in DOMAIN s /\ (s \o t)[i] = s[i]
  BY <1>1, <1>3
<1>4. \A i \in 1 .. Len(s) + Len(t) : i > Len(s) \/ i <= Len(s)
  BY <1>1
<1>5. QED
  BY <1>1, <1>2, <1>3, <1>4

\* What a call makes of what it reads: it keeps half a line, or it is done with
\* a line; and a login only goes on to store its token for an auth.ok.
LEMMA ReadStep ==
  ASSUME TypeOK, CallsOK, FragmentsOK, NEW p \in Calls, Read(p)
  PROVE  LET buffer == line[p] \o wire[socket[p]]
         IN  /\ pc[p] = "reading" /\ socket[p] \in Calls
             /\ op[p] \in {"login", "receive"}
             /\ wire' = [wire EXCEPT ![socket[p]] = <<>>]
             /\ UNCHANGED <<callers, slot, op, shut, server>>
             /\ buffer \in Seq(Fragments)
             /\ \A i \in DOMAIN buffer :
                  \/ i \in DOMAIN line[p] /\ buffer[i] = line[p][i]
                  \/ \E j \in DOMAIN wire[socket[p]] : buffer[i] = wire[socket[p]][j]
             /\ \/ /\ line' = [line EXCEPT ![p] = buffer]
                   /\ UNCHANGED <<pc, socket, retries>>
                \/ /\ socket' = [socket EXCEPT ![p] = None]
                   /\ line' = [line EXCEPT ![p] = <<>>]
                   /\ \/ /\ pc' = [pc EXCEPT ![p] = "returned"]
                         /\ \/ UNCHANGED retries
                            \/ op[p] = "login" /\ retries' = retries - 1
                      \/ /\ pc' = [pc EXCEPT ![p] = "check"]
                         /\ op[p] = "login" /\ retries > 1 /\ retries' = retries - 1
                      \/ /\ pc' = [pc EXCEPT ![p] = "store_token"]
                         /\ op[p] = "login" /\ retries' = retries - 1
                         /\ Accepts(buffer)
<1> DEFINE c == socket[p]
           buffer == line[p] \o wire[c]
           first == FirstLine(buffer)
           r == route[first[1].id]
<1>1. /\ pc[p] = "reading" /\ c \in Calls /\ op[p] \in {"login", "receive"}
      /\ wire' = [wire EXCEPT ![c] = <<>>]
      /\ UNCHANGED <<callers, slot, op, shut, server>>
  BY DEF Read, CallsOK
<1>2. line[p] \in Seq(Fragments) /\ wire[c] \in Seq(Fragments)
  BY <1>1 DEF TypeOK
<1>3. \A i \in DOMAIN buffer :
        \/ i \in DOMAIN line[p] /\ buffer[i] = line[p][i]
        \/ \E j \in DOMAIN wire[c] : buffer[i] = wire[c][j]
  BY <1>2, Joined
<1>4. buffer \in Seq(Fragments)
  BY <1>2, Joined
<1>5. CASE first = <<>>
  <2>1. line' = [line EXCEPT ![p] = buffer] /\ UNCHANGED <<pc, socket, retries>>
    BY <1>5 DEF Read
  <2>2. QED
    BY <1>1, <1>3, <1>4, <2>1
<1>6. CASE first # <<>>
  <2>1. socket' = [socket EXCEPT ![p] = None] /\ line' = [line EXCEPT ![p] = <<>>]
    BY <1>6 DEF Read, DropReader
  <2>2. CASE Parses(first)
    <3>1. 1 \in DOMAIN buffer /\ first[1] = buffer[1]
      BY <1>4, <1>6, FirstLineOK
    <3>2. buffer[1] \in Fragments
      <4> HIDE DEF buffer
      <4>1. QED
        BY <1>4, <3>1
    <3>3. buffer[1].id <= Len(route)
      <4> HIDE DEF buffer, c
      <4>1. CASE 1 \in DOMAIN line[p] /\ buffer[1] = line[p][1]
        BY <4>1 DEF FragmentsOK
      <4>2. CASE \E j \in DOMAIN wire[c] : buffer[1] = wire[c][j]
        BY <1>1, <4>2 DEF FragmentsOK
      <4>3. QED
        BY <1>3, <3>1, <4>1, <4>2
    <3>4. buffer[1].id \in DOMAIN route
      <4> HIDE DEF buffer
      <4>1. buffer[1].id \in 1..MaxPackets
        BY <3>2 DEF Fragments
      <4>2. QED
        BY <3>3, <4>1 DEF TypeOK
    <3>5. r \in Routes
      <4> HIDE DEF first, buffer
      <4>1. QED
        BY <3>1, <3>4 DEF TypeOK
    <3>6. r = "auth.ok" => Accepts(buffer)
      BY <2>2, <3>1 DEF Accepts, Parses
    <3>7. /\ Goto(p, AfterPacket(p, r))
          /\ retries' = IF op[p] = "login" THEN retries - 1 ELSE retries
      BY <1>6, <2>2 DEF Read
    <3> HIDE DEF r, buffer, c
    <3>8. CASE op[p] = "receive"
      <4>1. pc' = [pc EXCEPT ![p] = "returned"] /\ UNCHANGED retries
        BY <3>7, <3>8 DEF AfterPacket, Goto, Results
      <4>2. QED
        BY <1>1, <1>3, <1>4, <2>1, <4>1 DEF buffer, c
    <3>9. CASE op[p] = "login"
      <4>1. \/ pc' = [pc EXCEPT ![p] = "store_token"] /\ r = "auth.ok"
            \/ pc' = [pc EXCEPT ![p] = "returned"]
            \/ pc' = [pc EXCEPT ![p] = "check"] /\ retries > 1
        BY <3>5, <3>7, <3>9 DEF AfterPacket, Goto, Results, Routes
      <4>2. retries' = retries - 1
        BY <3>7, <3>9
      <4>3. QED
        BY <1>1, <1>3, <1>4, <2>1, <3>6, <3>9, <4>1, <4>2 DEF buffer, c
    <3>10. QED
      BY <1>1, <3>8, <3>9
  <2>3. CASE ~Parses(first)
    <3>1. pc' = [pc EXCEPT ![p] = "returned"] /\ UNCHANGED retries
      BY <1>1, <1>6, <2>3 DEF Read, Goto, Results
    <3>2. QED
      BY <1>1, <1>3, <1>4, <2>1, <3>1
  <2>4. QED
    BY <2>2, <2>3
<1>7. QED
  BY <1>5, <1>6

\* The variables keep their types; of two calls that wait for an ack only one
\* counts the packets it may still look at.
LEMMA TypesKept ==
  ASSUME TypeOK, CallsOK, FragmentsOK, SerialOK, [Next]_vars
  PROVE  TypeOK' /\ CallsOK' /\ FragmentsOK'
<1> USE TcpAssumption, NoneIsNoCall DEF TypeOK, CallsOK, FragmentsOK, slot, readVars, server
<1>1. ASSUME NEW p \in Calls, Begin(p) PROVE TypeOK' /\ CallsOK' /\ FragmentsOK'
  <2>1. PICK o \in Orders \cup {"receive"} :
          /\ op' = [q \in Calls |-> IF q = p THEN o
                                    ELSE IF pc[q] = "returned" THEN "none"
                                    ELSE op[q]]
          /\ Goto(p, CASE o = "connect"    -> "connect"
                       [] o = "login"      -> "login"
                       [] o = "send"       -> "send"
                       [] o = "receive"    -> "check"
                       [] o = "disconnect" -> "close")
    BY <1>1 DEF Begin
  <2>2. pc[p] = "idle" /\ UNCHANGED <<callers, slot, readVars, wire, shut, server>>
    BY <1>1 DEF Begin
  <2>3. /\ o = "connect" => pc' = [pc EXCEPT ![p] = "connect"]
        /\ o = "login" => pc' = [pc EXCEPT ![p] = "login"]
        /\ o = "send" => pc' = [pc EXCEPT ![p] = "send"]
        /\ o = "receive" => pc' = [pc EXCEPT ![p] = "check"]
        /\ o = "disconnect" => pc' = [pc EXCEPT ![p] = "close"]
    BY <2>1 DEF Goto, Results
  <2>4. o \in {"connect", "login", "send", "receive", "disconnect"}
    BY DEF Orders
  <2>5. FragmentsOK'
    BY <2>2
  <2>6. op' \in [Calls -> Orders \cup {"none", "receive"}]
    BY <2>1
  <2>7. CallsOK' /\ pc' \in [Calls -> {"idle", "connect", "store_stream",
         "mark_connected", "login", "write", "send", "transmit", "store_token",
         "mark_login", "close", "shutdown", "forget", "mark_disconnected", "check",
         "clone", "reading", "ok", "err", "returned"}]
    <3>1. /\ op'[p] = o /\ pc[p] = "idle" /\ UNCHANGED <<socket, line>>
          /\ \A q \in Calls \ {p} : pc[q] # "returned" => op'[q] = op[q]
      BY <2>1, <2>2
    <3> DEFINE l == CASE o = "connect"    -> "connect"
                      [] o = "login"      -> "login"
                      [] o = "send"       -> "send"
                      [] o = "receive"    -> "check"
                      [] o = "disconnect" -> "close"
    <3>2. /\ \/ o = "connect" /\ l = "connect"
             \/ o = "login" /\ l = "login"
             \/ o = "send" /\ l = "send"
             \/ o = "receive" /\ l = "check"
             \/ o = "disconnect" /\ l = "close"
          /\ pc' = [pc EXCEPT ![p] = l]
      BY <2>3, <2>4
    <3> HIDE DEF l
    <3>3. pc'[p] = l /\ \A q \in Calls \ {p} : pc'[q] = pc[q]
      BY <3>2
    <3>4. pc[p] = "idle" => line[p] = <<>>
      OBVIOUS
    <3>5. ASSUME NEW q \in Calls \ {p}, pc[q] = "returned"
          PROVE  pc'[q] = "returned" /\ line'[q] = <<>>
      BY <3>1, <3>3, <3>5
    <3>6. ASSUME NEW q \in Calls \ {p}, pc[q] # "returned"
          PROVE  /\ pc'[q] = pc[q] /\ op'[q] = op[q] /\ line'[q] = line[q]
                 /\ socket'[q] = socket[q]
      BY <3>1, <3>3, <3>6
    <3>7. CallsOK'
      BY <3>1, <3>2, <3>3, <3>4, <3>5, <3>6
    <3>8. QED
      BY <3>2, <3>7
  <2>8. (\A q \in Calls : op[q] = "login" /\ pc[q] \in {"check", "clone", "reading"}
                          => retries > 0)'
    <3>1. \A q \in Calls :
            op'[q] = "login" /\ pc'[q] \in {"check", "clone", "reading"} =>
              op[q] = "login" /\ pc[q] \in {"check", "clone", "reading"}
      BY <2>1, <2>2, <2>3, <2>4
    <3>2. QED
      BY <2>2, <3>1
  <2>9. TypeOK'
    BY <2>2, <2>6, <2>7, <2>8
  <2>10. QED
    BY <2>5, <2>7, <2>9
<1>2. ASSUME NEW p \in Calls, Connect(p) PROVE TypeOK' /\ CallsOK' /\ FragmentsOK'
  <2>1. /\ UNCHANGED <<callers, slot, op, readVars, wire, shut, server>>
        /\ \/ pc' = [pc EXCEPT ![p] = "err"]
           \/ pc' = [pc EXCEPT ![p] = "store_stream"]
    BY <1>2 DEF Connect, Goto, Results
  <2>2. CASE pc' = [pc EXCEPT ![p] = "err"]
    BY <1>2, <2>1, <2>2 DEF Connect
  <2>3. CASE pc' = [pc EXCEPT ![p] = "store_stream"]
    BY <1>2, <2>1, <2>3 DEF Connect
  <2>4. QED
    BY <2>1, <2>2, <2>3
<1>3. ASSUME NEW p \in Calls, StoreStream(p) PROVE TypeOK' /\ CallsOK' /\ FragmentsOK'
  BY <1>3 DEF StoreStream, Goto, Results
<1>4. ASSUME NEW p \in Calls, MarkConnected(p) PROVE TypeOK' /\ CallsOK' /\ FragmentsOK'
  BY <1>4 DEF MarkConnected, Goto, Results
<1>5. ASSUME NEW p \in Calls, LoginCheck(p) PROVE TypeOK' /\ CallsOK' /\ FragmentsOK'
  <2>1. /\ UNCHANGED <<callers, slot, op, readVars, wire, shut, server>>
        /\ \/ pc' = [pc EXCEPT ![p] = "returned"]
           \/ pc' = [pc EXCEPT ![p] = "write"]
    BY <1>5 DEF LoginCheck, Goto, Results
  <2>2. CASE pc' = [pc EXCEPT ![p] = "returned"]
    BY <1>5, <2>1, <2>2 DEF LoginCheck
  <2>3. CASE pc' = [pc EXCEPT ![p] = "write"]
    BY <1>5, <2>1, <2>3 DEF LoginCheck
  <2>4. QED
    BY <2>1, <2>2, <2>3
<1>6. ASSUME NEW p \in Calls, LoginWrite(p) PROVE TypeOK' /\ CallsOK' /\ FragmentsOK'
  <2>1. asked' \subseteq Calls
    BY <1>6 DEF LoginWrite
  <2>2. /\ pc' = [pc EXCEPT ![p] = "returned"] \/ pc' = [pc EXCEPT ![p] = "check"]
        /\ pc[p] = "write" /\ retries' = MaxRetries
        /\ UNCHANGED <<callers, slot, op, socket, line, wire, shut, granted, sent,
                       route, half>>
    BY <1>6 DEF LoginWrite, Goto, Results
  <2>3. CASE pc' = [pc EXCEPT ![p] = "returned"]
    BY <2>1, <2>2, <2>3
  <2>4. CASE pc' = [pc EXCEPT ![p] = "check"]
    BY <2>1, <2>2, <2>4
  <2>5. QED
    BY <2>2, <2>3, <2>4
<1>7. ASSUME NEW p \in Calls, StoreToken(p) PROVE TypeOK' /\ CallsOK' /\ FragmentsOK'
  BY <1>7 DEF StoreToken, Goto, Results
<1>8. ASSUME NEW p \in Calls, MarkLogin(p) PROVE TypeOK' /\ CallsOK' /\ FragmentsOK'
  BY <1>8 DEF MarkLogin, Goto, Results
<1>9. ASSUME NEW p \in Calls, SendCheck(p) PROVE TypeOK' /\ CallsOK' /\ FragmentsOK'
  <2>1. /\ UNCHANGED <<callers, slot, op, readVars, wire, shut, server>>
        /\ \/ pc' = [pc EXCEPT ![p] = "returned"]
           \/ pc' = [pc EXCEPT ![p] = "transmit"]
    BY <1>9 DEF SendCheck, Goto, Results
  <2>2. CASE pc' = [pc EXCEPT ![p] = "returned"]
    BY <1>9, <2>1, <2>2 DEF SendCheck
  <2>3. CASE pc' = [pc EXCEPT ![p] = "transmit"]
    BY <1>9, <2>1, <2>3 DEF SendCheck
  <2>4. QED
    BY <2>1, <2>2, <2>3
<1>10. ASSUME NEW p \in Calls, Transmit(p) PROVE TypeOK' /\ CallsOK' /\ FragmentsOK'
  <2>1. sent' \subseteq Calls
    BY <1>10 DEF Transmit
  <2>2. /\ pc' = [pc EXCEPT ![p] = "returned"] /\ pc[p] = "transmit"
        /\ UNCHANGED <<callers, slot, op, readVars, wire, shut, asked, granted,
                       route, half>>
    BY <1>10 DEF Transmit, Goto, Results
  <2>3. QED
    BY <2>1, <2>2
<1>11. ASSUME NEW p \in Calls, MarkClosing(p) PROVE TypeOK' /\ CallsOK' /\ FragmentsOK'
  BY <1>11 DEF MarkClosing, Goto, Results
<1>12. ASSUME NEW p \in Calls, Shutdown(p) PROVE TypeOK' /\ CallsOK' /\ FragmentsOK'
  BY <1>12 DEF Shutdown, Goto, Results, HangUp
<1>13. ASSUME NEW p \in Calls, Forget(p) PROVE TypeOK' /\ CallsOK' /\ FragmentsOK'
  BY <1>13 DEF Forget, Goto, Results
<1>14. ASSUME NEW p \in Calls, MarkDisconnected(p) PROVE TypeOK' /\ CallsOK' /\ FragmentsOK'
  BY <1>14 DEF MarkDisconnected, Goto, Results
<1>15. ASSUME NEW p \in Calls, ReceiveCheck(p) PROVE TypeOK' /\ CallsOK' /\ FragmentsOK'
  <2>1. /\ UNCHANGED <<callers, slot, op, readVars, wire, shut, server>>
        /\ \/ pc' = [pc EXCEPT ![p] = "returned"]
           \/ pc' = [pc EXCEPT ![p] = "clone"]
    BY <1>15 DEF ReceiveCheck, Goto, Results, NoPacket
  <2>2. CASE pc' = [pc EXCEPT ![p] = "returned"]
    BY <1>15, <2>1, <2>2 DEF ReceiveCheck
  <2>3. CASE pc' = [pc EXCEPT ![p] = "clone"]
    BY <1>15, <2>1, <2>3 DEF ReceiveCheck
  <2>4. QED
    BY <2>1, <2>2, <2>3
<1>16. ASSUME NEW p \in Calls, Clone(p) PROVE TypeOK' /\ CallsOK' /\ FragmentsOK'
  <2>1. pc[p] = "clone" /\ UNCHANGED <<callers, state, token, op, line, retries, wire,
                                      shut, server>>
    BY <1>16 DEF Clone
  <2>2. CASE pc' = [pc EXCEPT ![p] = "returned"] /\ stream' = None /\ UNCHANGED socket
    BY <2>1, <2>2
  <2>3. CASE /\ pc' = [pc EXCEPT ![p] = "reading"] /\ UNCHANGED stream
             /\ stream # None /\ socket' = [socket EXCEPT ![p] = stream]
    BY <2>1, <2>3
  <2>4. QED
    BY <1>16, <2>2, <2>3 DEF Clone, Goto, Results
<1>17. ASSUME NEW p \in Calls, Read(p) PROVE TypeOK' /\ CallsOK' /\ FragmentsOK'
  <2> DEFINE c == socket[p]
             buffer == line[p] \o wire[c]
  <2>1. /\ pc[p] = "reading" /\ c \in Calls /\ op[p] \in {"login", "receive"}
        /\ wire' = [wire EXCEPT ![c] = <<>>]
        /\ UNCHANGED <<callers, slot, op, shut, server>>
        /\ buffer \in Seq(Fragments)
    BY <1>17, ReadStep
  <2>2. \A i \in DOMAIN buffer :
          \/ i \in DOMAIN line[p] /\ buffer[i] = line[p][i]
          \/ \E j \in DOMAIN wire[c] : buffer[i] = wire[c][j]
    BY <1>17, ReadStep
  <2> HIDE DEF buffer, c
  <2>3. \A i \in DOMAIN buffer : buffer[i].id <= Len(route)
    <3>1. /\ \A j \in DOMAIN line[p] : line[p][j].id <= Len(route)
          /\ \A j \in DOMAIN wire[c] : wire[c][j].id <= Len(route)
      BY <2>1
    <3>2. QED
      BY <2>2, <3>1, ZenonT(30)
  <2>4. /\ wire' \in [Calls -> Seq(Fragments)]
        /\ \A d \in Calls : \A i \in DOMAIN wire'[d] : wire'[d][i].id <= Len(route)
    BY <2>1
  <2>5. CASE line' = [line EXCEPT ![p] = buffer] /\ UNCHANGED <<pc, socket, retries>>
    <3>1. line' \in [Calls -> Seq(Fragments)]
      BY <2>1, <2>5
    <3>2. \A d \in Calls : \A i \in DOMAIN line'[d] : line'[d][i].id <= Len(route)
      BY <2>3, <2>5
    <3>3. QED
      BY <2>1, <2>4, <2>5, <3>1, <3>2
  <2>6. CASE /\ socket' = [socket EXCEPT ![p] = None]
             /\ line' = [line EXCEPT ![p] = <<>>]
             /\ \/ /\ pc' = [pc EXCEPT ![p] = "returned"]
                   /\ \/ UNCHANGED retries
                      \/ op[p] = "login" /\ retries' = retries - 1
                \/ /\ pc' = [pc EXCEPT ![p] = "check"]
                   /\ op[p] = "login" /\ retries > 1 /\ retries' = retries - 1
                \/ /\ pc' = [pc EXCEPT ![p] = "store_token"]
                   /\ op[p] = "login" /\ retries' = retries - 1
    <3>1. /\ socket' \in [Calls -> Calls \cup {None}]
          /\ line' \in [Calls -> Seq(Fragments)]
          /\ \A d \in Calls : \A i \in DOMAIN line'[d] : line'[d][i].id <= Len(route)
      BY <2>6
    <3>2. op[p] = "login" =>
            \A q \in Calls \ {p} :
              ~(op[q] = "login" /\ pc[q] \in {"check", "clone", "reading"})
      BY <2>1 DEF SerialOK, Running, Results
    <3>3. op[p] = "login" => retries > 0
      BY <2>1
    <3>4. retries' \in 0..MaxRetries
      BY <2>6, <3>3
    <3>5. CASE pc' = [pc EXCEPT ![p] = "returned"]
      <4>1. \A q \in Calls :
              op[q] = "login" /\ pc'[q] \in {"check", "clone", "reading"} => retries' > 0
        BY <2>1, <2>6, <3>2, <3>5
      <4>2. QED
        BY <2>1, <2>4, <2>6, <3>1, <3>4, <3>5, <4>1, SMTT(20)
    <3>6. CASE pc' = [pc EXCEPT ![p] = "check"] /\ op[p] = "login" /\ retries > 1
      <4>1. retries' > 0
        BY <2>1, <2>6, <3>6
      <4>2. QED
        BY <2>1, <2>4, <2>6, <3>1, <3>4, <3>6, <4>1, ZenonT(30)
    <3>7. CASE pc' = [pc EXCEPT ![p] = "store_token"] /\ op[p] = "login"
      <4>1. \A q \in Calls :
              op[q] = "login" /\ pc'[q] \in {"check", "clone", "reading"} => retries' > 0
        BY <2>1, <3>2, <3>7
      <4>2. QED
        BY <2>1, <2>4, <2>6, <3>1, <3>4, <3>7, <4>1, ZenonT(30)
    <3>8. QED
      BY <2>6, <3>5, <3>6, <3>7
  <2>7. QED
    BY <1>17, <2>5, <2>6, ReadStep DEF buffer, c
<1>18. ASSUME NEW p \in Calls, ReadEof(p) PROVE TypeOK' /\ CallsOK' /\ FragmentsOK'
  BY <1>18 DEF ReadEof, Goto, Results, NoPacket, DropReader
<1>19. ASSUME NEW p \in Calls, ReadTimeout(p) PROVE TypeOK' /\ CallsOK' /\ FragmentsOK'
  BY <1>19, SMTT(20) DEF ReadTimeout, Goto, Results, DropReader
<1>20. ASSUME NEW c \in Calls, ServerSendHead(c) PROVE TypeOK' /\ CallsOK' /\ FragmentsOK'
  <2> DEFINE f == [id |-> Len(route'), part |-> "head"]
  <2>1. /\ \E r \in Routes : route' = Append(route, r)
        /\ Len(route) < MaxPackets /\ granted' \subseteq Calls
        /\ wire' = [wire EXCEPT ![c] = Append(wire[c], f)]
        /\ half' = [half EXCEPT ![c] = Len(route')]
        /\ UNCHANGED <<callers, slot, pc, op, readVars, shut, asked, sent>>
    BY <1>20 DEF ServerSendHead, Send
  <2>2. /\ route' \in Seq(Routes) /\ Len(route') = Len(route) + 1
        /\ Len(route) \in Nat /\ MaxPackets \in Nat
    BY <2>1
  <2>3. Len(route') \in 1..MaxPackets
    BY <2>1, <2>2
  <2>4. half' \in [Calls -> 1..MaxPackets \cup {None}]
    BY <2>1, <2>3
  <2>5. \A d \in Calls : half'[d] # None => half'[d] <= Len(route')
    <3>1. \A d \in Calls : half[d] # None => half[d] \in Nat /\ half[d] <= Len(route')
      BY <2>2
    <3>2. QED
      BY <2>1, <2>2, <3>1, SMTT(20)
  <2>6. f \in Fragments /\ f.id <= Len(route')
    BY <2>2, <2>3 DEF Fragments
  <2>7. /\ \A d \in Calls : \A i \in DOMAIN wire[d] : wire[d][i].id <= Len(route')
        /\ \A d \in Calls : \A i \in DOMAIN line[d] : line[d][i].id <= Len(route')
    <3>1. \A d \in Calls : /\ \A i \in DOMAIN wire[d] : wire[d][i] \in Fragments
                          /\ \A i \in DOMAIN line[d] : line[d][i] \in Fragments
      OBVIOUS
    <3>2. \A x \in Fragments : x.id \in Nat
      BY DEF Fragments
    <3>3. \A n \in Nat : n <= Len(route) => n <= Len(route')
      BY <2>2
    <3> HIDE DEF TypeOK
    <3>4. \A d \in Calls : \A i \in DOMAIN wire[d] : wire[d][i].id <= Len(route')
      BY <3>1, <3>2, <3>3
    <3>5. \A d \in Calls : \A i \in DOMAIN line[d] : line[d][i].id <= Len(route')
      BY <3>1, <3>2, <3>3
    <3>6. QED
      BY <3>4, <3>5
  <2> HIDE DEF f
  <2>8. wire' \in [Calls -> Seq(Fragments)]
    BY <2>1, <2>6
  <2>9. \A d \in Calls : \A i \in DOMAIN wire'[d] : wire'[d][i].id <= Len(route')
    <3>1. wire[c] \in Seq(Fragments)
      OBVIOUS
    <3>2. \A i \in DOMAIN Append(wire[c], f) :
            \/ i \in DOMAIN wire[c] /\ Append(wire[c], f)[i] = wire[c][i]
            \/ Append(wire[c], f)[i] = f
      BY <3>1
    <3>3. QED
      BY <2>1, <2>6, <2>7, <3>2
  <2>10. TypeOK'
    BY <2>1, <2>2, <2>4, <2>8
  <2>11. CallsOK'
    BY <2>1
  <2>12. FragmentsOK'
    BY <2>1, <2>3, <2>5, <2>7, <2>9, SMTT(20)
  <2>13. QED
    BY <2>10, <2>11, <2>12
<1>21. ASSUME NEW c \in Calls, ServerSendTail(c) PROVE TypeOK' /\ CallsOK' /\ FragmentsOK'
  <2> DEFINE f == [id |-> half[c], part |-> "tail"]
  <2>1. /\ half[c] # None /\ half' = [half EXCEPT ![c] = None]
        /\ wire' = [wire EXCEPT ![c] = Append(wire[c], f)]
        /\ UNCHANGED <<callers, slot, pc, op, readVars, shut, asked, granted, sent,
                       route>>
    BY <1>21 DEF ServerSendTail, Send
  <2>2. f \in Fragments /\ f.id <= Len(route)
    BY <2>1 DEF Fragments
  <2> HIDE DEF f
  <2>3. wire' \in [Calls -> Seq(Fragments)]
    BY <2>1, <2>2
  <2>4. \A d \in Calls : \A i \in DOMAIN wire'[d] : wire'[d][i].id <= Len(route)
    <3>1. wire[c] \in Seq(Fragments)
      OBVIOUS
    <3>2. \A i \in DOMAIN Append(wire[c], f) :
            \/ i \in DOMAIN wire[c] /\ Append(wire[c], f)[i] = wire[c][i]
            \/ Append(wire[c], f)[i] = f
      BY <3>1
    <3>3. QED
      BY <2>1, <2>2, <3>2
  <2>5. QED
    BY <2>1, <2>3, <2>4
<1>22. ASSUME NEW c \in Calls, ServerClose(c) PROVE TypeOK' /\ CallsOK' /\ FragmentsOK'
  BY <1>22 DEF ServerClose, Send
<1>23. CASE UNCHANGED vars
  BY <1>23 DEF vars
<1>24. QED
  BY <1>1, <1>2, <1>3, <1>4, <1>5, <1>6, <1>7, <1>8, <1>9, <1>10, <1>11, <1>12,
     <1>13, <1>14, <1>15, <1>16, <1>17, <1>18, <1>19, <1>20, <1>21, <1>22, <1>23 DEF Next, CallStep

\* A call's step moves that call and begins none.
LEMMA CallMoves ==
  ASSUME TypeOK, CallsOK, FragmentsOK, NEW p \in Calls, CallStep(p)
  PROVE  /\ p \in Running /\ UNCHANGED <<callers, op>>
         /\ \E label : label # "idle" /\ pc' = [pc EXCEPT ![p] = label]
<1> DEFINE Moved == \E label : label # "idle" /\ pc' = [pc EXCEPT ![p] = label]
<1>1. UNCHANGED <<callers, op>>
  BY DEF CallStep, Connect, StoreStream, MarkConnected, LoginCheck, LoginWrite,
         StoreToken, MarkLogin, SendCheck, Transmit, MarkClosing, Shutdown, Forget,
         MarkDisconnected, ReceiveCheck, Clone, Read, ReadEof, ReadTimeout
<1>2. pc[p] \notin {"idle", "ok", "none", "err", "returned"}
  BY DEF CallStep, Connect, StoreStream, MarkConnected, LoginCheck, LoginWrite,
         StoreToken, MarkLogin, SendCheck, Transmit, MarkClosing, Shutdown, Forget,
         MarkDisconnected, ReceiveCheck, Clone, Read, ReadEof, ReadTimeout
<1>3. ASSUME NEW l, l # "idle", Goto(p, l) PROVE Moved
  BY <1>3 DEF Goto
<1> HIDE DEF Moved
<1>4. Moved
  <2>1. CASE \/ Connect(p) \/ StoreStream(p) \/ MarkConnected(p) \/ LoginCheck(p)
             \/ LoginWrite(p) \/ StoreToken(p) \/ MarkLogin(p) \/ SendCheck(p)
             \/ Transmit(p) \/ MarkClosing(p) \/ Shutdown(p) \/ Forget(p)
             \/ MarkDisconnected(p) \/ Clone(p) \/ ReadTimeout(p)
    BY <1>3, <2>1 DEF Connect, StoreStream, MarkConnected, LoginCheck, LoginWrite,
         StoreToken, MarkLogin, SendCheck, Transmit, MarkClosing, Shutdown, Forget,
         MarkDisconnected, Clone, ReadTimeout
  <2>2. CASE ReceiveCheck(p) \/ ReadEof(p)
    BY <1>3, <2>2 DEF ReceiveCheck, ReadEof, NoPacket
  <2>3. CASE Read(p)
    <3>1. CASE UNCHANGED pc
      <4>1. pc' = [pc EXCEPT ![p] = "reading"]
        BY <2>3, <3>1, ReadStep DEF TypeOK
      <4>2. QED
        BY <4>1 DEF Moved
    <3>2. CASE \E l \in {"returned", "check", "store_token"} :
                 pc' = [pc EXCEPT ![p] = l]
      BY <3>2 DEF Moved
    <3>3. QED
      BY <2>3, <3>1, <3>2, ReadStep
  <2>4. QED
    BY <2>1, <2>2, <2>3 DEF CallStep
<1>5. QED
  BY <1>1, <1>2, <1>4 DEF Running, Results, Moved

\* A call only begins beside one of the other kind, and last.
LEMMA SerialKept ==
  ASSUME TypeOK, CallsOK, FragmentsOK, SerialOK, [Next]_vars
  PROVE  SerialOK'
<1>1. ASSUME NEW p \in Calls, Begin(p) PROVE SerialOK'
  <2>1. PICK o \in Orders \cup {"receive"} :
          /\ callers = "backend" =>
               \A q \in Running : (op[q] = "receive") # (o = "receive")
          /\ callers = "exclusive" => Running = {}
          /\ op' = [q \in Calls |-> IF q = p THEN o
                                    ELSE IF pc[q] = "returned" THEN "none"
                                    ELSE op[q]]
          /\ \E l : l # "idle" /\ pc' = [pc EXCEPT ![p] = l]
    <3>1. PICK o \in Orders \cup {"receive"} :
            /\ callers = "backend" =>
                 \A q \in Running : (op[q] = "receive") # (o = "receive")
            /\ callers = "exclusive" => Running = {}
            /\ op' = [q \in Calls |-> IF q = p THEN o
                                      ELSE IF pc[q] = "returned" THEN "none"
                                      ELSE op[q]]
            /\ Goto(p, CASE o = "connect"    -> "connect"
                         [] o = "login"      -> "login"
                         [] o = "send"       -> "send"
                         [] o = "receive"    -> "check"
                         [] o = "disconnect" -> "close")
      BY <1>1 DEF Begin
    <3>2. \E l \in {"connect", "login", "send", "check", "close"} :
            pc' = [pc EXCEPT ![p] = l]
      BY <3>1 DEF Orders, Goto, Results
    <3>3. QED
      BY <3>1, <3>2
  <2>2. pc[p] = "idle" /\ \A q \in 1..(p - 1) : pc[q] # "idle"
    BY <1>1 DEF Begin
  <2>3. \A q \in Calls : q < p => pc[q] # "idle"
    BY <2>2 DEF Calls
  <2>4. PICK l : l # "idle" /\ pc' = [pc EXCEPT ![p] = l]
    BY <2>1
  <2>5. /\ pc'[p] # "idle" /\ op'[p] = o /\ p \notin Running
        /\ \A q \in Calls \ {p} :
             /\ pc'[q] = pc[q]
             /\ op'[q] = IF pc[q] = "returned" THEN "none" ELSE op[q]
    BY <2>1, <2>2, <2>4 DEF TypeOK, Running
  <2>6. \A q \in Running : (op[q] = "receive") # (o = "receive")
    BY <2>1 DEF TypeOK, Disciplines
  <2>7. \A q \in Running' \ {p} : q \in Running /\ op'[q] = op[q]
    BY <2>5 DEF Running
  <2>8. ASSUME NEW q \in Running', NEW x \in Running',
               op'[q] = "receive" <=> op'[x] = "receive"
        PROVE  q = x
    <3>1. CASE q # p /\ x # p
      BY <2>7, <2>8, <3>1 DEF SerialOK
    <3>2. CASE q = p \/ x = p
      BY <2>5, <2>6, <2>7, <2>8, <3>2
    <3>3. QED
      BY <3>1, <3>2
  <2>9. ASSUME NEW x \in Calls, NEW q \in Calls, x < q
        PROVE  /\ pc'[x] = "idle" => pc'[q] = "idle"
               /\ x \in Running' /\ op'[x] # "receive" /\ pc'[q] # "idle" =>
                    op'[q] \in {"receive", "none"}
    <3>1. CASE q # p /\ x # p
      BY <2>5, <2>7, <2>9, <3>1 DEF SerialOK
    <3>2. CASE q = p
      <4>1. x # p /\ pc'[x] # "idle"
        BY <2>3, <2>5, <2>9, <3>2 DEF Calls
      <4>2. x \in Running' /\ op'[x] # "receive" => o = "receive"
        BY <2>6, <2>7, <4>1
      <4>3. QED
        BY <2>5, <3>2, <4>1, <4>2
    <3>3. CASE x = p
      <4>1. pc[q] = "idle" /\ q # p
        BY <2>2, <2>9, <3>3 DEF SerialOK, Calls
      <4>2. pc'[q] = "idle"
        BY <2>5, <4>1
      <4>3. QED
        BY <2>5, <3>3, <4>2
    <3>4. QED
      BY <3>1, <3>2, <3>3
  <2>10. QED
    BY <2>8, <2>9 DEF SerialOK
<1>2. ASSUME NEW p \in Calls, CallStep(p) PROVE SerialOK'
  <2>1. PICK l : l # "idle" /\ pc' = [pc EXCEPT ![p] = l]
    BY <1>2, CallMoves
  <2>2. UNCHANGED op /\ p \in Running
    BY <1>2, CallMoves
  <2>3. \A q \in Calls : (q # p => pc'[q] = pc[q]) /\ (pc'[q] = "idle" <=> pc[q] = "idle")
    BY <2>1, <2>2 DEF TypeOK, Running
  <2>4. Running' \subseteq Running
    BY <2>2, <2>3 DEF Running
  <2>5. QED
    BY <2>2, <2>3, <2>4 DEF SerialOK
<1>3. CASE UNCHANGED <<pc, op>>
  BY <1>3 DEF SerialOK, Running
<1>4. ASSUME NEW c \in Calls, ServerSendHead(c) \/ ServerSendTail(c) \/ ServerClose(c)
      PROVE  SerialOK'
  BY <1>3, <1>4 DEF ServerSendHead, ServerSendTail, ServerClose
<1>5. QED
  BY <1>1, <1>2, <1>3, <1>4 DEF Next, vars

\* While a lifecycle call runs, the others have ended or not begun, and a receive
\* call at most reads.
LEMMA Alone ==
  ASSUME TypeOK, CallsOK, SerialOK, NEW p \in Running, op[p] # "receive"
  PROVE  \A q \in Calls \ {p} :
           \/ pc[q] \in {"idle", "ok", "err", "returned"}
           \/ op[q] = "receive" /\ pc[q] \in {"check", "clone", "reading"}
<1>1. ASSUME NEW q \in Calls \ {p}, pc[q] \notin {"idle", "ok", "err", "returned"}
      PROVE  op[q] = "receive"
  <2>1. q \in Running
    BY <1>1 DEF Running, Results, CallsOK
  <2>2. p \in Calls /\ q # p
    BY DEF Running
  <2>3. QED
    BY <2>1, <2>2 DEF SerialOK
<1>2. \A q \in Calls : op[q] = "receive" =>
        pc[q] \in {"idle", "check", "clone", "reading", "returned"}
  BY DEF TypeOK, CallsOK
<1>3. QED
  BY <1>1, <1>2

\* A connect opens a connection newer than the others; nothing else changes what
\* is open.
LEMMA OpenedStands ==
  ASSUME TypeOK, CallsOK, FragmentsOK, SerialOK, [Next]_vars
  PROVE  \/ Opened' = Opened
         \/ \E p \in Calls : /\ StoreStream(p) /\ Opened' = Opened \cup {p}
                             /\ \A d \in Opened : d < p
<1>1. ASSUME NEW p \in Calls, Begin(p) PROVE Opened' = Opened
  <2>1. PICK o \in Orders \cup {"receive"} :
          /\ op' = [q \in Calls |-> IF q = p THEN o
                                    ELSE IF pc[q] = "returned" THEN "none"
                                    ELSE op[q]]
          /\ \E l \in {"connect", "login", "send", "check", "close"} :
               pc' = [pc EXCEPT ![p] = l]
    BY <1>1 DEF Begin, Goto, Orders, Results
  <2>2. pc[p] = "idle"
    BY <1>1 DEF Begin
  <2>3. pc'[p] \in {"connect", "login", "send", "check", "close"}
    BY <2>1 DEF TypeOK
  <2>4. \A q \in Calls \ {p} :
          pc'[q] = pc[q] /\ (pc[q] # "returned" => op'[q] = op[q])
    BY <2>1 DEF TypeOK
  <2>5. \A q \in Calls : q \in Opened' <=> q \in Opened
    BY <2>2, <2>3, <2>4 DEF Opened
  <2>6. QED
    BY <2>5 DEF Opened
<1>2. ASSUME NEW p \in Calls, CallStep(p), ~StoreStream(p)
      PROVE  Opened' = Opened
  <2>1. UNCHANGED op
    BY <1>2, CallMoves
  <2>2. PICK l : pc' = [pc EXCEPT ![p] = l]
    BY <1>2, CallMoves
  <2>3. pc'[p] = l /\ \A q \in Calls \ {p} : pc'[q] = pc[q]
    BY <2>2 DEF TypeOK
  <2>4. op[p] = "connect" => (Connect(p) \/ MarkConnected(p))
    BY <1>2 DEF CallStep, LoginCheck, LoginWrite, StoreToken, MarkLogin, SendCheck,
                Transmit, MarkClosing, Shutdown, Forget, MarkDisconnected,
                ReceiveCheck, Clone, Read, ReadEof, ReadTimeout, CallsOK
  <2>5. p \in Opened' <=> p \in Opened
    <3>1. CASE Connect(p)
      BY <2>1, <3>1 DEF Connect, Goto, Results, Opened, TypeOK
    <3>2. CASE MarkConnected(p)
      BY <2>1, <3>2 DEF MarkConnected, Goto, Results, Opened, TypeOK
    <3>3. CASE op[p] # "connect"
      BY <2>1, <3>3 DEF Opened
    <3>4. QED
      BY <2>4, <3>1, <3>2, <3>3
  <2>6. \A q \in Calls : q \in Opened' <=> q \in Opened
    BY <2>1, <2>3, <2>5 DEF Opened
  <2>7. QED
    BY <2>6 DEF Opened
<1>3. ASSUME NEW p \in Calls, StoreStream(p)
      PROVE  Opened' = Opened \cup {p} /\ \A d \in Opened : d < p
  <2>1. pc[p] = "store_stream" /\ op[p] = "connect" /\ UNCHANGED op
    BY <1>3 DEF StoreStream, CallsOK
  <2>2. pc' = [pc EXCEPT ![p] = "mark_connected"]
    BY <1>3, <2>1 DEF StoreStream, Goto
  <2>3. pc'[p] = "mark_connected" /\ \A q \in Calls \ {p} : pc'[q] = pc[q]
    BY <2>2 DEF TypeOK
  <2>4. \A q \in Calls : q \in Opened' <=> q \in Opened \/ q = p
    BY <2>1, <2>3 DEF Opened
  <2>5. Opened' = Opened \cup {p}
    BY <2>4 DEF Opened
  <2>6. p \in Running
    BY <2>1 DEF Running, Results
  <2>7. ASSUME NEW d \in Opened, p < d PROVE FALSE
    <3>1. d \in Calls /\ op[d] = "connect" /\ pc[d] # "idle"
      BY DEF Opened
    <3>2. op[d] \in {"receive", "none"}
      BY <2>1, <2>6, <2>7, <3>1 DEF SerialOK
    <3>3. QED
      BY <3>1, <3>2
  <2>8. p \notin Opened
    BY <2>1 DEF Opened
  <2>9. \A d \in Opened : d < p \/ d = p \/ p < d
    BY TcpAssumption DEF Opened, Calls
  <2>10. QED
    BY <2>5, <2>7, <2>8, <2>9
<1>4. CASE UNCHANGED <<pc, op>>
  BY <1>4 DEF Opened
<1>5. ASSUME NEW c \in Calls, ServerSendHead(c) \/ ServerSendTail(c) \/ ServerClose(c)
      PROVE  UNCHANGED <<pc, op>>
  BY <1>5 DEF ServerSendHead, ServerSendTail, ServerClose
<1>6. QED
  BY <1>1, <1>2, <1>3, <1>4, <1>5 DEF Next, vars

\* What is current stands, or the connect that stores its stream makes it so.
LEMMA CurrentStands ==
  ASSUME TypeOK, CallsOK, FragmentsOK, SerialOK, [Next]_vars
  PROVE  /\ \A p \in Calls : StoreStream(p) =>
              \A c \in Calls : Current(c)' <=> c = p
         /\ (\A p \in Calls : ~StoreStream(p)) =>
              Opened' = Opened /\ \A c \in Calls : Current(c)' <=> Current(c)
<1>1. ASSUME NEW p \in Calls, StoreStream(p), NEW c \in Calls
      PROVE  Current(c)' <=> c = p
  <2>1. PICK x \in Calls : /\ StoreStream(x) /\ Opened' = Opened \cup {x}
                           /\ \A d \in Opened : d < x
    <3>1. pc[p] = "store_stream" /\ op[p] = "connect"
      BY <1>1 DEF StoreStream, CallsOK
    <3>2. pc' = [pc EXCEPT ![p] = "mark_connected"] /\ UNCHANGED op
      BY <1>1, <3>1 DEF StoreStream, Goto
    <3>3. p \notin Opened /\ p \in Opened'
      BY <3>1, <3>2 DEF Opened, TypeOK
    <3>4. QED
      BY <3>3, OpenedStands
  <2>2. x = p
    <3>1. pc[p] = "store_stream" /\ pc[x] = "store_stream"
      BY <1>1, <2>1 DEF StoreStream
    <3>2. QED
      BY <3>1 DEF SerialOK, CallsOK, Running, Results
  <2>3. \A d \in Opened : d < p /\ d \in Nat
    BY <2>1, <2>2 DEF Opened, Calls
  <2>4. p \in Nat
    BY DEF Calls
  <2>5. Current(c)' <=> c \in Opened \cup {p} /\ \A d \in Opened \cup {p} : d <= c
    BY <2>1, <2>2 DEF Current
  <2>6. QED
    BY <2>3, <2>4, <2>5
<1>2. ASSUME \A p \in Calls : ~StoreStream(p)
      PROVE  Opened' = Opened /\ \A c \in Calls : Current(c)' <=> Current(c)
  <2>1. Opened' = Opened
    BY <1>2, OpenedStands
  <2>2. QED
    BY <2>1 DEF Current
<1>3. QED
  BY <1>1, <1>2

\* No connection but the newest is in the slot, and nothing goes over one that
\* is not open.
LEMMA StreamKept ==
  ASSUME TypeOK, CallsOK, FragmentsOK, SerialOK, StreamOK, [Next]_vars
  PROVE  StreamOK'
<1> USE DEF slot, server, readVars
<1>1. ASSUME NEW p \in Calls, StoreStream(p) PROVE StreamOK'
  <2>1. stream' = p /\ UNCHANGED <<wire, half>>
    BY <1>1 DEF StoreStream
  <2>2. Opened \subseteq Opened'
    BY OpenedStands
  <2>3. Current(p)'
    BY <1>1, CurrentStands
  <2>4. QED
    BY <2>1, <2>2, <2>3 DEF StreamOK, Current
<1>2. ASSUME \A p \in Calls : ~StoreStream(p), UNCHANGED <<wire, half>>,
             stream' \in {stream, None}
      PROVE  StreamOK'
  <2>1. Opened' = Opened /\ \A c \in Calls : Current(c)' <=> Current(c)
    BY <1>2, CurrentStands
  <2>2. (stream # None => Current(stream))'
    BY <1>2, <2>1 DEF StreamOK, Current
  <2>3. QED
    BY <1>2, <2>1, <2>2 DEF StreamOK, Current
<1>3. ASSUME \A p \in Calls : ~StoreStream(p), UNCHANGED stream,
             \A c \in Calls \ Opened : wire'[c] = <<>> /\ half'[c] = None
      PROVE  StreamOK'
  <2>1. Opened' = Opened /\ \A c \in Calls : Current(c)' <=> Current(c)
    BY <1>3, CurrentStands
  <2>2. QED
    BY <1>3, <2>1 DEF StreamOK, Current
<1>4. ASSUME NEW p \in Calls, CallStep(p), \A q \in Calls : ~StoreStream(q)
      PROVE  StreamOK'
  <2>1. CASE Read(p)
    <3>1. wire' = [wire EXCEPT ![socket[p]] = <<>>] /\ UNCHANGED <<half, stream>>
      BY <2>1 DEF Read
    <3>2. \A c \in Calls \ Opened : wire'[c] = <<>> /\ half'[c] = None
      BY <3>1 DEF StreamOK, TypeOK
    <3>3. QED
      BY <1>3, <1>4, <3>1, <3>2
  <2>2. CASE Shutdown(p)
    <3>1. /\ stream' = None /\ UNCHANGED wire
          /\ \A c \in Calls : half'[c] \in {half[c], None}
      BY <2>2 DEF Shutdown, HangUp
    <3>2. Opened' = Opened
      BY <1>4, CurrentStands
    <3>3. QED
      BY <3>1, <3>2 DEF StreamOK
  <2>3. CASE Clone(p)
    <3>1. stream' \in {stream, None} /\ UNCHANGED <<wire, half>>
      BY <2>3 DEF Clone
    <3>2. QED
      BY <1>2, <1>4, <3>1
  <2>4. CASE ~Read(p) /\ ~Shutdown(p) /\ ~Clone(p)
    <3>1. UNCHANGED <<stream, wire, half>>
      BY <1>4, <2>4 DEF CallStep, Connect, MarkConnected, LoginCheck, LoginWrite,
           StoreToken, MarkLogin, SendCheck, Transmit, MarkClosing, Forget,
           MarkDisconnected, ReceiveCheck, ReadEof, ReadTimeout
    <3>2. QED
      BY <1>2, <1>4, <3>1
  <2>5. QED
    BY <2>1, <2>2, <2>3, <2>4
<1>5. ASSUME NEW p \in Calls, Begin(p), \A q \in Calls : ~StoreStream(q)
      PROVE  StreamOK'
  BY <1>2, <1>5 DEF Begin
<1>6. ASSUME NEW c \in Calls, ServerSendHead(c) \/ ServerSendTail(c) \/ ServerClose(c),
             \A q \in Calls : ~StoreStream(q)
      PROVE  StreamOK'
  <2>1. CASE ServerSendHead(c)
    <3>1. /\ c \in Opened /\ UNCHANGED stream
          /\ wire' = [wire EXCEPT ![c] = wire'[c]] /\ half' = [half EXCEPT ![c] = half'[c]]
      BY <2>1 DEF ServerSendHead, Send, Opened, TypeOK
    <3>2. QED
      BY <1>3, <1>6, <3>1 DEF StreamOK, TypeOK
  <2>2. CASE ServerSendTail(c)
    <3>1. c \in Opened
      BY <2>2 DEF ServerSendTail, StreamOK
    <3>2. /\ UNCHANGED stream
          /\ wire' = [wire EXCEPT ![c] = wire'[c]] /\ half' = [half EXCEPT ![c] = None]
      BY <2>2 DEF ServerSendTail, Send, TypeOK
    <3>3. QED
      BY <1>3, <1>6, <3>1, <3>2 DEF StreamOK, TypeOK
  <2>3. CASE ServerClose(c)
    <3>1. UNCHANGED <<stream, wire>> /\ half' = [half EXCEPT ![c] = None]
      BY <2>3 DEF ServerClose
    <3>2. \A d \in Calls \ Opened : wire'[d] = <<>> /\ half'[d] = None
      BY <3>1 DEF StreamOK, TypeOK
    <3>3. QED
      BY <1>3, <1>6, <3>1, <3>2
  <2>4. QED
    BY <1>6, <2>1, <2>2, <2>3
<1>7. CASE UNCHANGED vars
  <2>1. Opened' = Opened
    BY <1>7 DEF Opened, vars
  <2>2. QED
    BY <1>7, <2>1 DEF StreamOK, Current, vars
<1>8. QED
  BY <1>1, <1>4, <1>5, <1>6, <1>7 DEF Next

\* A lifecycle call finds the session as the call left it that put it there:
\* only receive calls run beside it, and they can only lose the stream.
LEMMA SessionKept ==
  ASSUME TypeOK, CallsOK, FragmentsOK, SerialOK, SessionOK, [Next]_vars
  PROVE  SessionOK'
<1> USE NoneIsNoCall DEF slot, TypeOK, SessionOpen, SessionOK
<1>1. ASSUME NEW p \in Calls, Begin(p) PROVE SessionOK'
  <2>1. PICK o \in Orders \cup {"receive"} :
          /\ op' = [q \in Calls |-> IF q = p THEN o
                                    ELSE IF pc[q] = "returned" THEN "none"
                                    ELSE op[q]]
          /\ Goto(p, CASE o = "connect"    -> "connect"
                       [] o = "login"      -> "login"
                       [] o = "send"       -> "send"
                       [] o = "receive"    -> "check"
                       [] o = "disconnect" -> "close")
    BY <1>1 DEF Begin
  <2>2. PICK l \in {"connect", "login", "send", "check", "close"} :
          pc' = [pc EXCEPT ![p] = l] /\ (l = "check" => o = "receive")
    BY <2>1 DEF Goto, Results, Orders
  <2>3. pc[p] = "idle" /\ UNCHANGED slot
    BY <1>1 DEF Begin
  <2>4. \A q \in Calls \ {p} :
          pc'[q] = pc[q] /\ (pc[q] # "returned" => op'[q] = op[q])
    BY <2>1, <2>2
  <2>5. pc'[p] = l /\ op'[p] = o
    BY <2>1, <2>2
  <2>6. QED
    BY <2>2, <2>3, <2>4, <2>5
<1>2. ASSUME NEW p \in Calls, Connect(p) PROVE SessionOK'
  <2>1. /\ pc[p] = "connect" /\ UNCHANGED op
        /\ \/ pc' = [pc EXCEPT ![p] = "err"]
           \/ ~SessionOpen /\ pc' = [pc EXCEPT ![p] = "store_stream"]
        /\ UNCHANGED slot
        /\ op[p] = "connect"
    BY <1>2 DEF Connect, CallsOK, Goto, Results
  <2>2. p \in Running /\ op[p] # "receive"
    BY <2>1 DEF Running, Results, CallsOK
  <2>3. \A q \in Calls \ {p} :
          \/ pc[q] \in {"idle", "ok", "err", "returned"}
          \/ op[q] = "receive" /\ pc[q] \in {"check", "clone", "reading"}
    BY <2>2, Alone
  <2>4. QED
    BY <2>1, <2>3, ZenonT(30)
<1>3. ASSUME NEW p \in Calls, StoreStream(p) PROVE SessionOK'
  <2>1. /\ pc[p] = "store_stream" /\ UNCHANGED op
        /\ pc' = [pc EXCEPT ![p] = "mark_connected"]
        /\ stream' = p /\ UNCHANGED <<state, token>>
    BY <1>3 DEF StoreStream, CallsOK, Goto, Results
  <2>2. p \in Running /\ op[p] # "receive"
    BY <2>1 DEF Running, Results, CallsOK
  <2>3. \A q \in Calls \ {p} :
          \/ pc[q] \in {"idle", "ok", "err", "returned"}
          \/ op[q] = "receive" /\ pc[q] \in {"check", "clone", "reading"}
    BY <2>2, Alone
  <2>4. QED
    BY <2>1, <2>3
<1>4. ASSUME NEW p \in Calls, MarkConnected(p) PROVE SessionOK'
  <2>1. /\ pc[p] = "mark_connected" /\ UNCHANGED op
        /\ pc' = [pc EXCEPT ![p] = "ok"]
        /\ state' = "Connected" /\ UNCHANGED <<stream, token>>
    BY <1>4 DEF MarkConnected, CallsOK, Goto, Results
  <2>2. p \in Running /\ op[p] # "receive"
    BY <2>1 DEF Running, Results, CallsOK
  <2>3. \A q \in Calls \ {p} :
          \/ pc[q] \in {"idle", "ok", "err", "returned"}
          \/ op[q] = "receive" /\ pc[q] \in {"check", "clone", "reading"}
    BY <2>2, Alone
  <2>4. QED
    BY <2>1, <2>3
<1>5. ASSUME NEW p \in Calls, LoginCheck(p) PROVE SessionOK'
  <2>1. /\ pc[p] = "login" /\ UNCHANGED op
        /\ \/ pc' = [pc EXCEPT ![p] = "returned"]
           \/ SessionOpen /\ pc' = [pc EXCEPT ![p] = "write"]
        /\ UNCHANGED slot
    BY <1>5 DEF LoginCheck, CallsOK, Goto, Results
  <2>2. p \in Running /\ op[p] # "receive"
    BY <2>1 DEF Running, Results, CallsOK
  <2>3. \A q \in Calls \ {p} :
          \/ pc[q] \in {"idle", "ok", "err", "returned"}
          \/ op[q] = "receive" /\ pc[q] \in {"check", "clone", "reading"}
    BY <2>2, Alone
  <2>4. QED
    BY <2>1, <2>3
<1>6. ASSUME NEW p \in Calls, LoginWrite(p) PROVE SessionOK'
  <2>1. /\ pc[p] = "write" /\ UNCHANGED op
        /\ \/ pc' = [pc EXCEPT ![p] = "returned"]
           \/ pc' = [pc EXCEPT ![p] = "check"]
        /\ UNCHANGED slot
    BY <1>6 DEF LoginWrite, CallsOK, Goto, Results
  <2>2. p \in Running /\ op[p] # "receive"
    BY <2>1 DEF Running, Results, CallsOK
  <2>3. \A q \in Calls \ {p} :
          \/ pc[q] \in {"idle", "ok", "err", "returned"}
          \/ op[q] = "receive" /\ pc[q] \in {"check", "clone", "reading"}
    BY <2>2, Alone
  <2>4. QED
    BY <2>1, <2>3
<1>7. ASSUME NEW p \in Calls, StoreToken(p) PROVE SessionOK'
  <2>1. /\ pc[p] = "store_token" /\ UNCHANGED op
        /\ pc' = [pc EXCEPT ![p] = "mark_login"]
        /\ token' = TRUE /\ UNCHANGED <<state, stream>> /\ op[p] = "login"
    BY <1>7 DEF StoreToken, CallsOK, Goto, Results
  <2>2. p \in Running /\ op[p] # "receive"
    BY <2>1 DEF Running, Results, CallsOK
  <2>3. \A q \in Calls \ {p} :
          \/ pc[q] \in {"idle", "ok", "err", "returned"}
          \/ op[q] = "receive" /\ pc[q] \in {"check", "clone", "reading"}
    BY <2>2, Alone
  <2>4. QED
    BY <2>1, <2>3
<1>8. ASSUME NEW p \in Calls, MarkLogin(p) PROVE SessionOK'
  <2>1. /\ pc[p] = "mark_login" /\ UNCHANGED op
        /\ pc' = [pc EXCEPT ![p] = "returned"]
        /\ state' = "LoggedIn" /\ UNCHANGED <<stream, token>>
    BY <1>8 DEF MarkLogin, CallsOK, Goto, Results
  <2>2. p \in Running /\ op[p] # "receive"
    BY <2>1 DEF Running, Results, CallsOK
  <2>3. \A q \in Calls \ {p} :
          \/ pc[q] \in {"idle", "ok", "err", "returned"}
          \/ op[q] = "receive" /\ pc[q] \in {"check", "clone", "reading"}
    BY <2>2, Alone
  <2>4. QED
    BY <2>1, <2>3
<1>9. ASSUME NEW p \in Calls, SendCheck(p) PROVE SessionOK'
  <2>1. /\ pc[p] = "send" /\ UNCHANGED op
        /\ \/ pc' = [pc EXCEPT ![p] = "returned"]
           \/ state = "LoggedIn" /\ pc' = [pc EXCEPT ![p] = "transmit"]
        /\ UNCHANGED slot
    BY <1>9 DEF SendCheck, CallsOK, Goto, Results
  <2>2. p \in Running /\ op[p] # "receive"
    BY <2>1 DEF Running, Results, CallsOK
  <2>3. \A q \in Calls \ {p} :
          \/ pc[q] \in {"idle", "ok", "err", "returned"}
          \/ op[q] = "receive" /\ pc[q] \in {"check", "clone", "reading"}
    BY <2>2, Alone
  <2>4. QED
    BY <2>1, <2>3
<1>10. ASSUME NEW p \in Calls, Transmit(p) PROVE SessionOK'
  <2>1. /\ pc[p] = "transmit" /\ UNCHANGED op
        /\ pc' = [pc EXCEPT ![p] = "returned"]
        /\ UNCHANGED slot
    BY <1>10 DEF Transmit, CallsOK, Goto, Results
  <2>2. p \in Running /\ op[p] # "receive"
    BY <2>1 DEF Running, Results, CallsOK
  <2>3. \A q \in Calls \ {p} :
          \/ pc[q] \in {"idle", "ok", "err", "returned"}
          \/ op[q] = "receive" /\ pc[q] \in {"check", "clone", "reading"}
    BY <2>2, Alone
  <2>4. QED
    BY <2>1, <2>3
<1>11. ASSUME NEW p \in Calls, MarkClosing(p) PROVE SessionOK'
  <2>1. /\ pc[p] = "close" /\ UNCHANGED op
        /\ pc' = [pc EXCEPT ![p] = "shutdown"]
        /\ state' = "Closing" /\ UNCHANGED <<stream, token>>
    BY <1>11 DEF MarkClosing, CallsOK, Goto, Results
  <2>2. p \in Running /\ op[p] # "receive"
    BY <2>1 DEF Running, Results, CallsOK
  <2>3. \A q \in Calls \ {p} :
          \/ pc[q] \in {"idle", "ok", "err", "returned"}
          \/ op[q] = "receive" /\ pc[q] \in {"check", "clone", "reading"}
    BY <2>2, Alone
  <2>4. QED
    BY <2>1, <2>3
<1>12. ASSUME NEW p \in Calls, Shutdown(p) PROVE SessionOK'
  <2>1. /\ pc[p] = "shutdown" /\ UNCHANGED op
        /\ pc' = [pc EXCEPT ![p] = "forget"]
        /\ stream' = None /\ UNCHANGED <<state, token>>
    BY <1>12 DEF Shutdown, CallsOK, Goto, Results
  <2>2. p \in Running /\ op[p] # "receive"
    BY <2>1 DEF Running, Results, CallsOK
  <2>3. \A q \in Calls \ {p} :
          \/ pc[q] \in {"idle", "ok", "err", "returned"}
          \/ op[q] = "receive" /\ pc[q] \in {"check", "clone", "reading"}
    BY <2>2, Alone
  <2>4. QED
    BY <2>1, <2>3
<1>13. ASSUME NEW p \in Calls, Forget(p) PROVE SessionOK'
  <2>1. /\ pc[p] = "forget" /\ UNCHANGED op
        /\ pc' = [pc EXCEPT ![p] = "mark_disconnected"]
        /\ token' = FALSE /\ UNCHANGED <<state, stream>>
    BY <1>13 DEF Forget, CallsOK, Goto, Results
  <2>2. p \in Running /\ op[p] # "receive"
    BY <2>1 DEF Running, Results, CallsOK
  <2>3. \A q \in Calls \ {p} :
          \/ pc[q] \in {"idle", "ok", "err", "returned"}
          \/ op[q] = "receive" /\ pc[q] \in {"check", "clone", "reading"}
    BY <2>2, Alone
  <2>4. QED
    BY <2>1, <2>3
<1>14. ASSUME NEW p \in Calls, MarkDisconnected(p) PROVE SessionOK'
  <2>1. /\ pc[p] = "mark_disconnected" /\ UNCHANGED op
        /\ pc' = [pc EXCEPT ![p] = "returned"]
        /\ state' = "Disconnected" /\ UNCHANGED <<stream, token>>
    BY <1>14 DEF MarkDisconnected, CallsOK, Goto, Results
  <2>2. p \in Running /\ op[p] # "receive"
    BY <2>1 DEF Running, Results, CallsOK
  <2>3. \A q \in Calls \ {p} :
          \/ pc[q] \in {"idle", "ok", "err", "returned"}
          \/ op[q] = "receive" /\ pc[q] \in {"check", "clone", "reading"}
    BY <2>2, Alone
  <2>4. QED
    BY <2>1, <2>3
<1>15. ASSUME NEW p \in Calls, ReceiveCheck(p) PROVE SessionOK'
  <2>1. /\ pc[p] = "check" /\ op[p] \in {"login", "receive"} /\ UNCHANGED <<slot, op>>
        /\ pc' = [pc EXCEPT ![p] = "clone"] \/ pc' = [pc EXCEPT ![p] = "returned"]
    BY <1>15 DEF ReceiveCheck, NoPacket, CallsOK, Goto, Results
  <2>2. QED
    BY <2>1
<1>16. ASSUME NEW p \in Calls, Clone(p) PROVE SessionOK'
  <2>1. /\ pc[p] = "clone" /\ op[p] \in {"login", "receive"}
        /\ UNCHANGED <<state, token, op>> /\ stream' \in {stream, None}
        /\ pc' = [pc EXCEPT ![p] = "reading"] \/ pc' = [pc EXCEPT ![p] = "returned"]
    BY <1>16 DEF Clone, CallsOK, Goto, Results
  <2>2. QED
    BY <2>1
<1>17. ASSUME NEW p \in Calls, Read(p) PROVE SessionOK'
  <2>1. /\ pc[p] = "reading" /\ op[p] \in {"login", "receive"}
        /\ UNCHANGED <<slot, op>>
        /\ \/ UNCHANGED pc
           \/ pc' = [pc EXCEPT ![p] = "returned"]
           \/ pc' = [pc EXCEPT ![p] = "check"]
           \/ pc' = [pc EXCEPT ![p] = "store_token"] /\ op[p] = "login"
    BY <1>17, ReadStep
  <2>2. QED
    BY <2>1
<1>18. ASSUME NEW p \in Calls, ReadEof(p) PROVE SessionOK'
  <2>1. /\ pc[p] = "reading" /\ op[p] \in {"login", "receive"}
        /\ UNCHANGED <<slot, op>> /\ pc' = [pc EXCEPT ![p] = "returned"]
    BY <1>18 DEF ReadEof, NoPacket, CallsOK, Goto, Results
  <2>2. QED
    BY <2>1
<1>19. ASSUME NEW p \in Calls, ReadTimeout(p) PROVE SessionOK'
  <2>1. /\ pc[p] = "reading" /\ op[p] \in {"login", "receive"}
        /\ UNCHANGED <<slot, op>> /\ pc' = [pc EXCEPT ![p] = "returned"]
    BY <1>19 DEF ReadTimeout, CallsOK, Goto, Results
  <2>2. QED
    BY <2>1
<1>20. CASE UNCHANGED <<slot, pc, op>>
  BY <1>20
<1>21. ASSUME NEW c \in Calls, ServerSendHead(c) \/ ServerSendTail(c) \/ ServerClose(c)
       PROVE  UNCHANGED <<slot, pc, op>>
  BY <1>21 DEF ServerSendHead, ServerSendTail, ServerClose
<1>22. QED
  BY <1>1, <1>2, <1>3, <1>4, <1>5, <1>6, <1>7, <1>8, <1>9, <1>10, <1>11,
     <1>12, <1>13, <1>14, <1>15, <1>16, <1>17, <1>18, <1>19, <1>20, <1>21 DEF Next, CallStep, vars

\* While one call steps no other opens its connection.
LEMMA OneOpens ==
  ASSUME TypeOK, CallsOK, FragmentsOK, NEW p \in Calls, CallStep(p),
         pc[p] # "store_stream"
  PROVE  \A q \in Calls : ~StoreStream(q)
<1>1. ASSUME NEW q \in Calls, StoreStream(q) PROVE FALSE
  <2>1. pc[q] = "store_stream" /\ pc' = [pc EXCEPT ![q] = "mark_connected"]
    BY <1>1 DEF StoreStream, Goto, CallsOK
  <2>2. PICK l : pc' = [pc EXCEPT ![p] = l]
    BY CallMoves
  <2>3. QED
    BY <2>1, <2>2 DEF TypeOK
<1>2. QED
  BY <1>1

\* What was granted on the connection in use stays so: a login's reader only
\* ever sees what came over it, and a grant goes only with its connection.
LEMMA GrantsKept ==
  ASSUME TypeOK, CallsOK, FragmentsOK, SerialOK, StreamOK, SessionOK, GrantsOK,
         [Next]_vars
  PROVE  GrantsOK'
<1> USE NoneIsNoCall DEF slot, server, readVars
<1>e. ~Accepts(<<>>) /\ ~Accepts(<<>>)'
  BY DEF Accepts
<1>s. ASSUME Opened' = Opened, \A c \in Calls : Current(c)' <=> Current(c),
             UNCHANGED <<wire, line, granted, route>>,
             SessionOpen' => SessionOpen,
             \A q \in Calls :
               /\ pc'[q] = "mark_connected" => pc[q] = "mark_connected"
               /\ op'[q] = "login" /\ pc'[q] = "reading" =>
                    op[q] = "login" /\ pc[q] = "reading" /\ socket'[q] = socket[q]
               /\ pc'[q] \in {"store_token", "mark_login"} =>
                    pc[q] \in {"store_token", "mark_login"}
               /\ pc'[q] = "mark_login" => token'
      PROVE  GrantsOK'
  <2>1. \A c \in Calls : Accepts(wire[c])' <=> Accepts(wire[c])
    BY <1>s DEF Accepts
  <2>2. \A c \in Calls : Accepts(line[c])' <=> Accepts(line[c])
    BY <1>s DEF Accepts
  <2>3. ASSUME NEW c \in Calls, Current(c)',
               (SessionOpen \/ pc[c] = "mark_connected")', Accepts(wire[c])'
        PROVE  c \in granted'
    BY <1>s, <2>1, <2>3 DEF GrantsOK
  <2>4. ASSUME NEW p \in Calls, op'[p] = "login" /\ pc'[p] = "reading"
        PROVE  /\ Current(socket[p])'
               /\ Accepts(line[p])' => (socket[p] \in granted)'
    <3>1. /\ op[p] = "login" /\ pc[p] = "reading" /\ socket'[p] = socket[p]
          /\ socket[p] \in Calls
      BY <1>s, <2>4 DEF CallsOK
    <3>2. Current(socket[p]) /\ (Accepts(line[p]) => socket[p] \in granted)
      BY <3>1 DEF GrantsOK
    <3>3. Current(socket[p])'
      BY <1>s, <3>1, <3>2 DEF Current
    <3>4. QED
      BY <1>s, <2>2, <3>1, <3>2, <3>3
  <2>5. ASSUME NEW p \in Calls, pc'[p] \in {"store_token", "mark_login"}
        PROVE  \E c \in Calls : Current(c)' /\ c \in granted'
    BY <1>s, <2>5 DEF GrantsOK
  <2>6. QED
    BY <1>s, <2>3, <2>4, <2>5 DEF GrantsOK
<1>1. ASSUME NEW p \in Calls, Begin(p) PROVE GrantsOK'
  <2>1. PICK o \in Orders \cup {"receive"} :
          /\ op' = [q \in Calls |-> IF q = p THEN o
                                    ELSE IF pc[q] = "returned" THEN "none"
                                    ELSE op[q]]
          /\ \E l \in {"connect", "login", "send", "check", "close"} :
               pc' = [pc EXCEPT ![p] = l]
    BY <1>1 DEF Begin, Goto, Orders, Results
  <2>2. pc[p] = "idle" /\ UNCHANGED <<slot, readVars, wire, server>>
    BY <1>1 DEF Begin
  <2>3. /\ pc'[p] \in {"connect", "login", "send", "check", "close"}
        /\ \A q \in Calls \ {p} :
             pc'[q] = pc[q] /\ (pc[q] # "returned" => op'[q] = op[q])
    BY <2>1 DEF TypeOK
  <2>4. Opened' = Opened /\ \A c \in Calls : Current(c)' <=> Current(c)
    <3>1. \A q \in Calls : ~StoreStream(q)
      <4>1. ASSUME NEW q \in Calls, StoreStream(q) PROVE FALSE
        <5>1. pc[q] = "store_stream" /\ pc' = [pc EXCEPT ![q] = "mark_connected"]
          BY <4>1 DEF StoreStream, Goto, CallsOK
        <5>2. QED
          BY <2>2, <2>3, <5>1 DEF TypeOK
      <4>2. QED
        BY <4>1
    <3>2. QED
      BY <3>1, CurrentStands
  <2>5. \A q \in Calls \ {p} :
          /\ pc'[q] = "mark_connected" => pc[q] = "mark_connected"
          /\ op'[q] = "login" /\ pc'[q] = "reading" =>
               op[q] = "login" /\ pc[q] = "reading" /\ socket'[q] = socket[q]
          /\ pc'[q] \in {"store_token", "mark_login"} =>
               pc[q] \in {"store_token", "mark_login"}
          /\ pc'[q] = "mark_login" => token'
    BY <2>2, <2>3 DEF GrantsOK
  <2>6. SessionOpen' => SessionOpen
    BY <2>2 DEF SessionOpen
  <2>7. QED
    BY <1>s, <2>2, <2>3, <2>4, <2>5, <2>6
<1>2. ASSUME NEW p \in Calls, Connect(p) PROVE GrantsOK'
  <2>1. /\ pc[p] = "connect"
        /\ UNCHANGED <<op, socket, wire, line, granted, route>>
        /\ pc' = [pc EXCEPT ![p] = "err"] \/ pc' = [pc EXCEPT ![p] = "store_stream"]
    BY <1>2 DEF Connect, CallsOK, Goto, Results
  <2>2. Opened' = Opened /\ \A c \in Calls : Current(c)' <=> Current(c)
    <3>1. \A q \in Calls : ~StoreStream(q)
      BY <1>2, <2>1, OneOpens DEF CallStep
    <3>2. QED
      BY <3>1, CurrentStands
  <2>3. (SessionOpen' => SessionOpen) /\ UNCHANGED token
    BY <1>2 DEF Connect, SessionOpen
  <2>4. \A q \in Calls :
          /\ pc'[q] = "mark_connected" => pc[q] = "mark_connected"
          /\ op'[q] = "login" /\ pc'[q] = "reading" =>
               op[q] = "login" /\ pc[q] = "reading" /\ socket'[q] = socket[q]
          /\ pc'[q] \in {"store_token", "mark_login"} =>
               pc[q] \in {"store_token", "mark_login"}
          /\ pc'[q] = "mark_login" => token'
    BY <2>1, <2>3 DEF TypeOK, GrantsOK
  <2>5. QED
    BY <1>s, <2>1, <2>2, <2>3, <2>4
<1>3. ASSUME NEW p \in Calls, LoginCheck(p) PROVE GrantsOK'
  <2>1. /\ pc[p] = "login"
        /\ UNCHANGED <<op, socket, wire, line, granted, route>>
        /\ pc' = [pc EXCEPT ![p] = "returned"] \/ pc' = [pc EXCEPT ![p] = "write"]
    BY <1>3 DEF LoginCheck, CallsOK, Goto, Results
  <2>2. Opened' = Opened /\ \A c \in Calls : Current(c)' <=> Current(c)
    <3>1. \A q \in Calls : ~StoreStream(q)
      BY <1>3, <2>1, OneOpens DEF CallStep
    <3>2. QED
      BY <3>1, CurrentStands
  <2>3. (SessionOpen' => SessionOpen) /\ UNCHANGED token
    BY <1>3 DEF LoginCheck, SessionOpen
  <2>4. \A q \in Calls :
          /\ pc'[q] = "mark_connected" => pc[q] = "mark_connected"
          /\ op'[q] = "login" /\ pc'[q] = "reading" =>
               op[q] = "login" /\ pc[q] = "reading" /\ socket'[q] = socket[q]
          /\ pc'[q] \in {"store_token", "mark_login"} =>
               pc[q] \in {"store_token", "mark_login"}
          /\ pc'[q] = "mark_login" => token'
    BY <2>1, <2>3 DEF TypeOK, GrantsOK
  <2>5. QED
    BY <1>s, <2>1, <2>2, <2>3, <2>4
<1>4. ASSUME NEW p \in Calls, LoginWrite(p) PROVE GrantsOK'
  <2>1. /\ pc[p] = "write"
        /\ UNCHANGED <<op, socket, wire, line, granted, route>>
        /\ pc' = [pc EXCEPT ![p] = "returned"] \/ pc' = [pc EXCEPT ![p] = "check"]
    BY <1>4 DEF LoginWrite, CallsOK, Goto, Results
  <2>2. Opened' = Opened /\ \A c \in Calls : Current(c)' <=> Current(c)
    <3>1. \A q \in Calls : ~StoreStream(q)
      BY <1>4, <2>1, OneOpens DEF CallStep
    <3>2. QED
      BY <3>1, CurrentStands
  <2>3. (SessionOpen' => SessionOpen) /\ UNCHANGED token
    BY <1>4 DEF LoginWrite, SessionOpen
  <2>4. \A q \in Calls :
          /\ pc'[q] = "mark_connected" => pc[q] = "mark_connected"
          /\ op'[q] = "login" /\ pc'[q] = "reading" =>
               op[q] = "login" /\ pc[q] = "reading" /\ socket'[q] = socket[q]
          /\ pc'[q] \in {"store_token", "mark_login"} =>
               pc[q] \in {"store_token", "mark_login"}
          /\ pc'[q] = "mark_login" => token'
    BY <2>1, <2>3 DEF TypeOK, GrantsOK
  <2>5. QED
    BY <1>s, <2>1, <2>2, <2>3, <2>4
<1>5. ASSUME NEW p \in Calls, StoreToken(p) PROVE GrantsOK'
  <2>1. /\ pc[p] = "store_token"
        /\ UNCHANGED <<op, socket, wire, line, granted, route>>
        /\ pc' = [pc EXCEPT ![p] = "mark_login"]
    BY <1>5 DEF StoreToken, CallsOK, Goto, Results
  <2>2. Opened' = Opened /\ \A c \in Calls : Current(c)' <=> Current(c)
    <3>1. \A q \in Calls : ~StoreStream(q)
      BY <1>5, <2>1, OneOpens DEF CallStep
    <3>2. QED
      BY <3>1, CurrentStands
  <2>3. (SessionOpen' => SessionOpen) /\ (token' = token \/ token' = TRUE)
    BY <1>5 DEF StoreToken, SessionOpen
  <2>4. \A q \in Calls :
          /\ pc'[q] = "mark_connected" => pc[q] = "mark_connected"
          /\ op'[q] = "login" /\ pc'[q] = "reading" =>
               op[q] = "login" /\ pc[q] = "reading" /\ socket'[q] = socket[q]
          /\ pc'[q] \in {"store_token", "mark_login"} =>
               pc[q] \in {"store_token", "mark_login"}
          /\ pc'[q] = "mark_login" => token'
    BY <1>5, <2>1, <2>3 DEF TypeOK, GrantsOK, StoreToken
  <2>5. QED
    BY <1>s, <2>1, <2>2, <2>3, <2>4
<1>6. ASSUME NEW p \in Calls, MarkLogin(p) PROVE GrantsOK'
  <2>1. /\ pc[p] = "mark_login"
        /\ UNCHANGED <<op, socket, wire, line, granted, route>>
        /\ pc' = [pc EXCEPT ![p] = "returned"]
    BY <1>6 DEF MarkLogin, CallsOK, Goto, Results
  <2>2. Opened' = Opened /\ \A c \in Calls : Current(c)' <=> Current(c)
    <3>1. \A q \in Calls : ~StoreStream(q)
      BY <1>6, <2>1, OneOpens DEF CallStep
    <3>2. QED
      BY <3>1, CurrentStands
  <2>3. SessionOpen /\ UNCHANGED token
    BY <1>6, <2>1 DEF MarkLogin, SessionOK, CallsOK
  <2>4. \A q \in Calls :
          /\ pc'[q] = "mark_connected" => pc[q] = "mark_connected"
          /\ op'[q] = "login" /\ pc'[q] = "reading" =>
               op[q] = "login" /\ pc[q] = "reading" /\ socket'[q] = socket[q]
          /\ pc'[q] \in {"store_token", "mark_login"} =>
               pc[q] \in {"store_token", "mark_login"}
          /\ pc'[q] = "mark_login" => token'
    BY <2>1, <2>3 DEF TypeOK, GrantsOK
  <2>5. QED
    BY <1>s, <2>1, <2>2, <2>3, <2>4
<1>7. ASSUME NEW p \in Calls, SendCheck(p) PROVE GrantsOK'
  <2>1. /\ pc[p] = "send"
        /\ UNCHANGED <<op, socket, wire, line, granted, route>>
        /\ pc' = [pc EXCEPT ![p] = "returned"] \/ pc' = [pc EXCEPT ![p] = "transmit"]
    BY <1>7 DEF SendCheck, CallsOK, Goto, Results
  <2>2. Opened' = Opened /\ \A c \in Calls : Current(c)' <=> Current(c)
    <3>1. \A q \in Calls : ~StoreStream(q)
      BY <1>7, <2>1, OneOpens DEF CallStep
    <3>2. QED
      BY <3>1, CurrentStands
  <2>3. (SessionOpen' => SessionOpen) /\ UNCHANGED token
    BY <1>7 DEF SendCheck, SessionOpen
  <2>4. \A q \in Calls :
          /\ pc'[q] = "mark_connected" => pc[q] = "mark_connected"
          /\ op'[q] = "login" /\ pc'[q] = "reading" =>
               op[q] = "login" /\ pc[q] = "reading" /\ socket'[q] = socket[q]
          /\ pc'[q] \in {"store_token", "mark_login"} =>
               pc[q] \in {"store_token", "mark_login"}
          /\ pc'[q] = "mark_login" => token'
    BY <2>1, <2>3 DEF TypeOK, GrantsOK
  <2>5. QED
    BY <1>s, <2>1, <2>2, <2>3, <2>4
<1>8. ASSUME NEW p \in Calls, Transmit(p) PROVE GrantsOK'
  <2>1. /\ pc[p] = "transmit"
        /\ UNCHANGED <<op, socket, wire, line, granted, route>>
        /\ pc' = [pc EXCEPT ![p] = "returned"]
    BY <1>8 DEF Transmit, CallsOK, Goto, Results
  <2>2. Opened' = Opened /\ \A c \in Calls : Current(c)' <=> Current(c)
    <3>1. \A q \in Calls : ~StoreStream(q)
      BY <1>8, <2>1, OneOpens DEF CallStep
    <3>2. QED
      BY <3>1, CurrentStands
  <2>3. (SessionOpen' => SessionOpen) /\ UNCHANGED token
    BY <1>8 DEF Transmit, SessionOpen
  <2>4. \A q \in Calls :
          /\ pc'[q] = "mark_connected" => pc[q] = "mark_connected"
          /\ op'[q] = "login" /\ pc'[q] = "reading" =>
               op[q] = "login" /\ pc[q] = "reading" /\ socket'[q] = socket[q]
          /\ pc'[q] \in {"store_token", "mark_login"} =>
               pc[q] \in {"store_token", "mark_login"}
          /\ pc'[q] = "mark_login" => token'
    BY <2>1, <2>3 DEF TypeOK, GrantsOK
  <2>5. QED
    BY <1>s, <2>1, <2>2, <2>3, <2>4
<1>9. ASSUME NEW p \in Calls, MarkClosing(p) PROVE GrantsOK'
  <2>1. /\ pc[p] = "close"
        /\ UNCHANGED <<op, socket, wire, line, granted, route>>
        /\ pc' = [pc EXCEPT ![p] = "shutdown"]
    BY <1>9 DEF MarkClosing, CallsOK, Goto, Results
  <2>2. Opened' = Opened /\ \A c \in Calls : Current(c)' <=> Current(c)
    <3>1. \A q \in Calls : ~StoreStream(q)
      BY <1>9, <2>1, OneOpens DEF CallStep
    <3>2. QED
      BY <3>1, CurrentStands
  <2>3. (SessionOpen' => SessionOpen) /\ (token' = token \/ token' = TRUE)
    BY <1>9 DEF MarkClosing, SessionOpen
  <2>4. \A q \in Calls :
          /\ pc'[q] = "mark_connected" => pc[q] = "mark_connected"
          /\ op'[q] = "login" /\ pc'[q] = "reading" =>
               op[q] = "login" /\ pc[q] = "reading" /\ socket'[q] = socket[q]
          /\ pc'[q] \in {"store_token", "mark_login"} =>
               pc[q] \in {"store_token", "mark_login"}
          /\ pc'[q] = "mark_login" => token'
    BY <2>1, <2>3 DEF TypeOK, GrantsOK
  <2>5. QED
    BY <1>s, <2>1, <2>2, <2>3, <2>4
<1>10. ASSUME NEW p \in Calls, Forget(p) PROVE GrantsOK'
  <2>1. /\ pc[p] = "forget"
        /\ UNCHANGED <<op, socket, wire, line, granted, route>>
        /\ pc' = [pc EXCEPT ![p] = "mark_disconnected"]
    BY <1>10 DEF Forget, CallsOK, Goto, Results
  <2>2. Opened' = Opened /\ \A c \in Calls : Current(c)' <=> Current(c)
    <3>1. \A q \in Calls : ~StoreStream(q)
      BY <1>10, <2>1, OneOpens DEF CallStep
    <3>2. QED
      BY <3>1, CurrentStands
  <2>a. \A q \in Calls \ {p} :
          \/ pc[q] \in {"idle", "ok", "err", "returned"}
          \/ op[q] = "receive" /\ pc[q] \in {"check", "clone", "reading"}
    <3>1. p \in Running /\ op[p] # "receive"
      BY <2>1 DEF Running, Results, CallsOK
    <3>2. QED
      BY <3>1, Alone
  <2>3. SessionOpen' => SessionOpen
    BY <1>10 DEF Forget, SessionOpen
  <2>4. \A q \in Calls :
          /\ pc'[q] = "mark_connected" => pc[q] = "mark_connected"
          /\ op'[q] = "login" /\ pc'[q] = "reading" =>
               op[q] = "login" /\ pc[q] = "reading" /\ socket'[q] = socket[q]
          /\ pc'[q] \in {"store_token", "mark_login"} =>
               pc[q] \in {"store_token", "mark_login"}
          /\ pc'[q] = "mark_login" => token'
    BY <2>1, <2>a DEF TypeOK, GrantsOK
  <2>5. QED
    BY <1>s, <2>1, <2>2, <2>3, <2>4
<1>11. ASSUME NEW p \in Calls, MarkDisconnected(p) PROVE GrantsOK'
  <2>1. /\ pc[p] = "mark_disconnected"
        /\ UNCHANGED <<op, socket, wire, line, granted, route>>
        /\ pc' = [pc EXCEPT ![p] = "returned"]
    BY <1>11 DEF MarkDisconnected, CallsOK, Goto, Results
  <2>2. Opened' = Opened /\ \A c \in Calls : Current(c)' <=> Current(c)
    <3>1. \A q \in Calls : ~StoreStream(q)
      BY <1>11, <2>1, OneOpens DEF CallStep
    <3>2. QED
      BY <3>1, CurrentStands
  <2>3. (SessionOpen' => SessionOpen) /\ (token' = token \/ token' = TRUE)
    BY <1>11 DEF MarkDisconnected, SessionOpen
  <2>4. \A q \in Calls :
          /\ pc'[q] = "mark_connected" => pc[q] = "mark_connected"
          /\ op'[q] = "login" /\ pc'[q] = "reading" =>
               op[q] = "login" /\ pc[q] = "reading" /\ socket'[q] = socket[q]
          /\ pc'[q] \in {"store_token", "mark_login"} =>
               pc[q] \in {"store_token", "mark_login"}
          /\ pc'[q] = "mark_login" => token'
    BY <2>1, <2>3 DEF TypeOK, GrantsOK
  <2>5. QED
    BY <1>s, <2>1, <2>2, <2>3, <2>4
<1>12. ASSUME NEW p \in Calls, ReceiveCheck(p) PROVE GrantsOK'
  <2>1. /\ pc[p] = "check"
        /\ UNCHANGED <<op, socket, wire, line, granted, route>>
        /\ pc' = [pc EXCEPT ![p] = "clone"] \/ pc' = [pc EXCEPT ![p] = "returned"]
    BY <1>12 DEF ReceiveCheck, CallsOK, Goto, Results, NoPacket
  <2>2. Opened' = Opened /\ \A c \in Calls : Current(c)' <=> Current(c)
    <3>1. \A q \in Calls : ~StoreStream(q)
      BY <1>12, <2>1, OneOpens DEF CallStep
    <3>2. QED
      BY <3>1, CurrentStands
  <2>3. (SessionOpen' => SessionOpen) /\ UNCHANGED token
    BY <1>12 DEF ReceiveCheck, SessionOpen
  <2>4. \A q \in Calls :
          /\ pc'[q] = "mark_connected" => pc[q] = "mark_connected"
          /\ op'[q] = "login" /\ pc'[q] = "reading" =>
               op[q] = "login" /\ pc[q] = "reading" /\ socket'[q] = socket[q]
          /\ pc'[q] \in {"store_token", "mark_login"} =>
               pc[q] \in {"store_token", "mark_login"}
          /\ pc'[q] = "mark_login" => token'
    BY <2>1, <2>3 DEF TypeOK, GrantsOK
  <2>5. QED
    BY <1>s, <2>1, <2>2, <2>3, <2>4
<1>13. ASSUME NEW p \in Calls, ReadEof(p) PROVE GrantsOK'
  <2>1. /\ pc[p] = "reading" /\ pc' = [pc EXCEPT ![p] = "returned"]
        /\ socket' = [socket EXCEPT ![p] = None]
        /\ line' = [line EXCEPT ![p] = <<>>]
        /\ UNCHANGED <<slot, op, wire, granted, route>>
    BY <1>13 DEF ReadEof, CallsOK, Goto, Results, NoPacket, DropReader
  <2>2. Opened' = Opened /\ \A c \in Calls : Current(c)' <=> Current(c)
    <3>1. \A q \in Calls : ~StoreStream(q)
      BY <1>13, <2>1, OneOpens DEF CallStep
    <3>2. QED
      BY <3>1, CurrentStands
  <2>3. \A c \in Calls : Accepts(wire[c])' <=> Accepts(wire[c])
    BY <2>1 DEF Accepts
  <2>4. pc'[p] = "returned" /\ \A q \in Calls \ {p} :
           /\ pc'[q] = pc[q] /\ socket'[q] = socket[q] /\ line'[q] = line[q]
           /\ Accepts(line[q])' <=> Accepts(line[q])
    <3>1. pc'[p] = "returned" /\ \A q \in Calls \ {p} :
            pc'[q] = pc[q] /\ socket'[q] = socket[q] /\ line'[q] = line[q]
      BY <2>1 DEF TypeOK
    <3>2. QED
      BY <2>1, <3>1 DEF Accepts
  <2>5. \A q \in Calls \ {p} : op[q] = "login" /\ pc[q] = "reading" =>
          Current(socket[q])' /\ (Accepts(line[q])' => socket[q] \in granted)
    BY <2>2, <2>4 DEF GrantsOK, Current
  <2>6. \A c \in Calls : (SessionOpen \/ pc[c] = "mark_connected")' =>
          (SessionOpen \/ pc[c] = "mark_connected")
    BY <2>1, <2>4 DEF SessionOpen
  <2>7. \A q \in Calls : op'[q] = "login" /\ pc'[q] = "reading" =>
          Current(socket[q])' /\ (Accepts(line[q])' => (socket[q] \in granted)')
    BY <2>1, <2>4, <2>5
  <2>8. \A c \in Calls :
          Current(c)' /\ (SessionOpen \/ pc[c] = "mark_connected")'
            /\ Accepts(wire[c])' => c \in granted'
    BY <2>1, <2>2, <2>3, <2>6 DEF GrantsOK
  <2>9. \A q \in Calls :
          /\ pc'[q] \in {"store_token", "mark_login"} =>
               \E c \in Calls : Current(c)' /\ c \in granted'
          /\ pc'[q] = "mark_login" => token'
    BY <2>1, <2>2, <2>4 DEF GrantsOK
  <2>10. QED
    BY <2>7, <2>8, <2>9 DEF GrantsOK
<1>14. ASSUME NEW p \in Calls, ReadTimeout(p) PROVE GrantsOK'
  <2>1. /\ pc[p] = "reading" /\ pc' = [pc EXCEPT ![p] = "returned"]
        /\ socket' = [socket EXCEPT ![p] = None]
        /\ line' = [line EXCEPT ![p] = <<>>]
        /\ UNCHANGED <<slot, op, wire, granted, route>>
    BY <1>14 DEF ReadTimeout, CallsOK, Goto, Results, DropReader
  <2>2. Opened' = Opened /\ \A c \in Calls : Current(c)' <=> Current(c)
    <3>1. \A q \in Calls : ~StoreStream(q)
      BY <1>14, <2>1, OneOpens DEF CallStep
    <3>2. QED
      BY <3>1, CurrentStands
  <2>3. \A c \in Calls : Accepts(wire[c])' <=> Accepts(wire[c])
    BY <2>1 DEF Accepts
  <2>4. pc'[p] = "returned" /\ \A q \in Calls \ {p} :
           /\ pc'[q] = pc[q] /\ socket'[q] = socket[q] /\ line'[q] = line[q]
           /\ Accepts(line[q])' <=> Accepts(line[q])
    <3>1. pc'[p] = "returned" /\ \A q \in Calls \ {p} :
            pc'[q] = pc[q] /\ socket'[q] = socket[q] /\ line'[q] = line[q]
      BY <2>1 DEF TypeOK
    <3>2. QED
      BY <2>1, <3>1 DEF Accepts
  <2>5. \A q \in Calls \ {p} : op[q] = "login" /\ pc[q] = "reading" =>
          Current(socket[q])' /\ (Accepts(line[q])' => socket[q] \in granted)
    BY <2>2, <2>4 DEF GrantsOK, Current
  <2>6. \A c \in Calls : (SessionOpen \/ pc[c] = "mark_connected")' =>
          (SessionOpen \/ pc[c] = "mark_connected")
    BY <2>1, <2>4 DEF SessionOpen
  <2>7. \A q \in Calls : op'[q] = "login" /\ pc'[q] = "reading" =>
          Current(socket[q])' /\ (Accepts(line[q])' => (socket[q] \in granted)')
    BY <2>1, <2>4, <2>5
  <2>8. \A c \in Calls :
          Current(c)' /\ (SessionOpen \/ pc[c] = "mark_connected")'
            /\ Accepts(wire[c])' => c \in granted'
    BY <2>1, <2>2, <2>3, <2>6 DEF GrantsOK
  <2>9. \A q \in Calls :
          /\ pc'[q] \in {"store_token", "mark_login"} =>
               \E c \in Calls : Current(c)' /\ c \in granted'
          /\ pc'[q] = "mark_login" => token'
    BY <2>1, <2>2, <2>4 DEF GrantsOK
  <2>10. QED
    BY <2>7, <2>8, <2>9 DEF GrantsOK
<1>15. ASSUME NEW p \in Calls, StoreStream(p) PROVE GrantsOK'
  <2>1. /\ pc[p] = "store_stream" /\ op[p] = "connect"
        /\ pc' = [pc EXCEPT ![p] = "mark_connected"]
        /\ UNCHANGED <<op, wire, line, granted, route>>
    BY <1>15 DEF StoreStream, CallsOK, Goto, Results
  <2>a. \A q \in Calls \ {p} :
          \/ pc[q] \in {"idle", "ok", "err", "returned"}
          \/ op[q] = "receive" /\ pc[q] \in {"check", "clone", "reading"}
    <3>1. p \in Running /\ op[p] # "receive"
      BY <2>1 DEF Running, Results, CallsOK
    <3>2. QED
      BY <3>1, Alone
  <2>2. \A c \in Calls : Current(c)' <=> c = p
    BY <1>15, CurrentStands
  <2>3. wire[p] = <<>>
    BY <2>1 DEF StreamOK, Opened
  <2>4. \A c \in Calls : Current(c)' => ~Accepts(wire[c])'
    BY <1>e, <2>1, <2>2, <2>3 DEF Accepts
  <2>5. \A q \in Calls :
          /\ ~(op'[q] = "login" /\ pc'[q] = "reading")
          /\ pc'[q] \notin {"store_token", "mark_login"}
    BY <2>1, <2>a DEF TypeOK
  <2>6. QED
    BY <2>4, <2>5 DEF GrantsOK
<1>16. ASSUME NEW p \in Calls, MarkConnected(p) PROVE GrantsOK'
  <2>1. /\ pc[p] = "mark_connected" /\ op[p] = "connect"
        /\ pc' = [pc EXCEPT ![p] = "ok"]
        /\ UNCHANGED <<op, wire, line, granted, route>>
    BY <1>16 DEF MarkConnected, CallsOK, Goto, Results
  <2>a. \A q \in Calls \ {p} :
          \/ pc[q] \in {"idle", "ok", "err", "returned"}
          \/ op[q] = "receive" /\ pc[q] \in {"check", "clone", "reading"}
    <3>1. p \in Running /\ op[p] # "receive"
      BY <2>1 DEF Running, Results, CallsOK
    <3>2. QED
      BY <3>1, Alone
  <2>2. Opened' = Opened /\ \A c \in Calls : Current(c)' <=> Current(c)
    <3>1. \A q \in Calls : ~StoreStream(q)
      BY <1>16, <2>1, OneOpens DEF CallStep
    <3>2. QED
      BY <3>1, CurrentStands
  <2>3. \A c \in Calls : Current(c) => c = p
    <3>1. ASSUME NEW c \in Calls, Current(c), c # p PROVE FALSE
      <4>1. p \in Opened /\ op[c] = "connect" /\ pc[c] # "idle"
        BY <2>1, <3>1 DEF Current, Opened
      <4>2. p < c
        BY <3>1, <4>1 DEF Current, Calls
      <4>3. p \in Running /\ op[p] # "receive"
        BY <2>1 DEF Running, Results
      <4>4. op[c] \in {"receive", "none"}
        BY <4>1, <4>2, <4>3 DEF SerialOK
      <4>5. QED
        BY <4>1, <4>4
    <3>2. QED
      BY <3>1
  <2>4. \A c \in Calls : Accepts(wire[c])' <=> Accepts(wire[c])
    BY <2>1 DEF Accepts
  <2>5. \A c \in Calls : Current(c)' /\ Accepts(wire[c])' => c \in granted'
    BY <2>1, <2>2, <2>3, <2>4 DEF GrantsOK
  <2>6. \A q \in Calls :
          /\ ~(op'[q] = "login" /\ pc'[q] = "reading")
          /\ pc'[q] \notin {"store_token", "mark_login"}
    BY <2>1, <2>a DEF TypeOK
  <2>7. QED
    BY <2>5, <2>6 DEF GrantsOK
<1>17. ASSUME NEW p \in Calls, Shutdown(p) PROVE GrantsOK'
  <2>1. /\ pc[p] = "shutdown" /\ UNCHANGED <<op, state>>
        /\ pc' = [pc EXCEPT ![p] = "forget"]
    BY <1>17 DEF Shutdown, CallsOK, Goto, Results
  <2>a. \A q \in Calls \ {p} :
          \/ pc[q] \in {"idle", "ok", "err", "returned"}
          \/ op[q] = "receive" /\ pc[q] \in {"check", "clone", "reading"}
    <3>1. p \in Running /\ op[p] # "receive"
      BY <2>1 DEF Running, Results, CallsOK
    <3>2. QED
      BY <3>1, Alone
  <2>2. ~SessionOpen'
    BY <2>1 DEF SessionOK, SessionOpen
  <2>3. \A q \in Calls :
          /\ pc'[q] # "mark_connected"
          /\ ~(op'[q] = "login" /\ pc'[q] = "reading")
          /\ pc'[q] \notin {"store_token", "mark_login"}
    BY <2>1, <2>a DEF TypeOK
  <2>4. QED
    BY <2>2, <2>3 DEF GrantsOK
<1>18. ASSUME NEW p \in Calls, Clone(p) PROVE GrantsOK'
  <2>1. /\ pc[p] = "clone"
        /\ UNCHANGED <<state, token, op, line, wire, granted, route>>
        /\ \/ pc' = [pc EXCEPT ![p] = "returned"] /\ UNCHANGED socket
           \/ /\ stream # None /\ socket' = [socket EXCEPT ![p] = stream]
              /\ pc' = [pc EXCEPT ![p] = "reading"]
    BY <1>18 DEF Clone, CallsOK, Goto, Results
  <2>2. Opened' = Opened /\ \A c \in Calls : Current(c)' <=> Current(c)
    <3>1. \A q \in Calls : ~StoreStream(q)
      BY <1>18, <2>1, OneOpens DEF CallStep
    <3>2. QED
      BY <3>1, CurrentStands
  <2>3. SessionOpen' => SessionOpen
    BY <2>1 DEF SessionOpen
  <2>4. CASE pc' = [pc EXCEPT ![p] = "returned"] /\ UNCHANGED socket
    <3>1. pc'[p] = "returned" /\ \A q \in Calls \ {p} : pc'[q] = pc[q]
      BY <2>4 DEF TypeOK
    <3>2. QED
      BY <1>s, <2>1, <2>2, <2>3, <2>4, <3>1 DEF GrantsOK
  <2>5. CASE /\ stream # None /\ socket' = [socket EXCEPT ![p] = stream]
             /\ pc' = [pc EXCEPT ![p] = "reading"]
    <3>1. /\ pc'[p] = "reading" /\ socket'[p] = stream /\ line[p] = <<>>
          /\ \A q \in Calls \ {p} : pc'[q] = pc[q] /\ socket'[q] = socket[q]
      BY <2>1, <2>5 DEF TypeOK, CallsOK
    <3>2. \A c \in Calls : /\ Accepts(wire[c])' <=> Accepts(wire[c])
                           /\ Accepts(line[c])' <=> Accepts(line[c])
      BY <2>1 DEF Accepts
    <3>3. stream \in Calls /\ Current(stream)
      BY <2>5 DEF TypeOK, StreamOK
    <3>4. Current(socket[p])' /\ ~Accepts(line[p])'
      <4>1. Current(socket[p])'
        BY <2>2, <3>1, <3>3 DEF Current
      <4>2. ~Accepts(line[p])'
        BY <1>e, <3>1, <3>2
      <4>3. QED
        BY <4>1, <4>2
    <3>5. \A q \in Calls \ {p} : op[q] = "login" /\ pc[q] = "reading" =>
            Current(socket[q])' /\ (Accepts(line[q])' => (socket[q] \in granted)')
      BY <2>1, <2>2, <3>1, <3>2 DEF GrantsOK, Current
    <3>6. \A c \in Calls :
            Current(c)' /\ (SessionOpen \/ pc[c] = "mark_connected")'
              /\ Accepts(wire[c])' => c \in granted'
      BY <2>1, <2>2, <2>3, <3>1, <3>2 DEF GrantsOK
    <3>7. \A q \in Calls :
            /\ pc'[q] \in {"store_token", "mark_login"} =>
                 \E c \in Calls : Current(c)' /\ c \in granted'
            /\ pc'[q] = "mark_login" => token'
      BY <2>1, <2>2, <3>1 DEF GrantsOK
    <3>8. \A q \in Calls : op'[q] = "login" /\ pc'[q] = "reading" =>
            Current(socket[q])' /\ (Accepts(line[q])' => (socket[q] \in granted)')
      BY <2>1, <3>1, <3>4, <3>5
    <3>9. QED
      BY <3>6, <3>7, <3>8 DEF GrantsOK
  <2>6. QED
    BY <2>1, <2>4, <2>5
<1>19. ASSUME NEW p \in Calls, Read(p) PROVE GrantsOK'
  <2> DEFINE c == socket[p]
             buffer == line[p] \o wire[c]
  <2>1. /\ pc[p] = "reading" /\ c \in Calls /\ op[p] \in {"login", "receive"}
        /\ wire' = [wire EXCEPT ![c] = <<>>]
        /\ UNCHANGED <<slot, op, granted, route>>
    BY <1>19, ReadStep
  <2>2. \A i \in DOMAIN buffer :
          \/ i \in DOMAIN line[p] /\ buffer[i] = line[p][i]
          \/ \E j \in DOMAIN wire[c] : buffer[i] = wire[c][j]
    BY <1>19, ReadStep
  <2>3. Opened' = Opened /\ \A d \in Calls : Current(d)' <=> Current(d)
    <3>1. \A q \in Calls : ~StoreStream(q)
      BY <1>19, <2>1, OneOpens DEF CallStep
    <3>2. QED
      BY <3>1, CurrentStands
  <2>4. \/ /\ line' = [line EXCEPT ![p] = buffer] /\ UNCHANGED <<pc, socket>>
        \/ /\ socket' = [socket EXCEPT ![p] = None]
           /\ line' = [line EXCEPT ![p] = <<>>]
           /\ \/ pc' = [pc EXCEPT ![p] = "returned"]
              \/ pc' = [pc EXCEPT ![p] = "check"]
              \/ /\ pc' = [pc EXCEPT ![p] = "store_token"]
                 /\ op[p] = "login" /\ Accepts(buffer)
    BY <1>19, ReadStep
  <2> HIDE DEF c, buffer
  <2>5. op[p] = "login" => Current(c) /\ (Accepts(buffer) => c \in granted)
    <3>1. ASSUME op[p] = "login", Accepts(buffer) PROVE c \in granted
      <4>1. PICK i \in DOMAIN buffer :
              buffer[i].part = "head" /\ route[buffer[i].id] = "auth.ok"
        BY <3>1 DEF Accepts
      <4>2. Accepts(line[p]) \/ Accepts(wire[c])
        BY <2>2, <4>1 DEF Accepts
      <4>3. Current(c) /\ (Accepts(line[p]) => c \in granted)
        BY <2>1, <3>1 DEF GrantsOK, c
      <4>4. SessionOpen
        BY <2>1, <3>1 DEF SessionOK
      <4>5. QED
        BY <2>1, <4>2, <4>3, <4>4 DEF GrantsOK
    <3>2. QED
      BY <2>1, <3>1 DEF GrantsOK, c
  <2>6. \A d \in Calls : Accepts(wire[d])' => Accepts(wire[d])
    <3>1. wire'[c] = <<>> /\ \A d \in Calls \ {c} : wire'[d] = wire[d]
      BY <2>1 DEF TypeOK
    <3>2. QED
      BY <1>e, <2>1, <3>1 DEF Accepts
  <2>7. \A q \in Calls \ {p} :
          pc'[q] = pc[q] /\ socket'[q] = socket[q] /\ line'[q] = line[q]
    BY <2>4 DEF TypeOK
  <2>8. \A q \in Calls \ {p} : Accepts(line[q])' <=> Accepts(line[q])
    BY <2>1, <2>7 DEF Accepts
  <2>9. \A q \in Calls \ {p} : op[q] = "login" /\ pc[q] = "reading" =>
          Current(socket[q])' /\ (Accepts(line[q])' => (socket[q] \in granted)')
    BY <2>1, <2>3, <2>7, <2>8 DEF GrantsOK, Current
  <2>10. pc'[p] # "mark_connected" /\ pc'[p] # "mark_login"
    BY <2>1, <2>4 DEF TypeOK
  <2>11. op[p] = "login" /\ pc'[p] = "reading" =>
          Current(socket[p])' /\ (Accepts(line[p])' => (socket[p] \in granted)')
    <3>1. ASSUME op[p] = "login", pc'[p] = "reading"
          PROVE  line' = [line EXCEPT ![p] = buffer] /\ UNCHANGED <<pc, socket>>
      BY <2>4, <3>1 DEF TypeOK
    <3>2. ASSUME op[p] = "login", pc'[p] = "reading"
          PROVE  Current(socket[p])'
      BY <2>1, <2>3, <2>5, <3>1, <3>2 DEF Current, c
    <3>3. ASSUME op[p] = "login", pc'[p] = "reading", Accepts(line[p])'
          PROVE  (socket[p] \in granted)'
      <4>1. line'[p] = buffer /\ socket'[p] = c
        BY <3>1, <3>3 DEF TypeOK, c
      <4>2. Accepts(buffer)
        BY <2>1, <3>3, <4>1 DEF Accepts
      <4>3. QED
        BY <2>1, <2>5, <3>3, <4>1, <4>2
    <3>4. QED
      BY <3>2, <3>3
  <2>12. pc'[p] = "store_token" => \E d \in Calls : Current(d)' /\ d \in granted'
    <3>1. pc'[p] = "store_token" => op[p] = "login" /\ Accepts(buffer)
      BY <2>1, <2>4 DEF TypeOK
    <3>2. PICK d \in Calls : d = c
      BY <2>1
    <3>3. pc'[p] = "store_token" => Current(d) /\ d \in granted
      BY <2>5, <3>1, <3>2
    <3>4. QED
      BY <2>1, <2>3, <3>3
  <2>13. \A d \in Calls :
          Current(d)' /\ (SessionOpen \/ pc[d] = "mark_connected")'
            /\ Accepts(wire[d])' => d \in granted'
    <3>1. \A d \in Calls : (SessionOpen \/ pc[d] = "mark_connected")' =>
            (SessionOpen \/ pc[d] = "mark_connected")
      BY <2>1, <2>7, <2>10 DEF SessionOpen
    <3>2. QED
      BY <2>1, <2>3, <2>6, <3>1 DEF GrantsOK
  <2>14. \A q \in Calls :
          /\ op'[q] = "login" /\ pc'[q] = "reading" =>
               Current(socket[q])' /\ (Accepts(line[q])' => (socket[q] \in granted)')
    BY <2>1, <2>7, <2>9, <2>11
  <2>15. \A q \in Calls :
          /\ pc'[q] \in {"store_token", "mark_login"} =>
               \E d \in Calls : Current(d)' /\ d \in granted'
          /\ pc'[q] = "mark_login" => token'
    <3>1. \A q \in Calls \ {p} : pc'[q] \in {"store_token", "mark_login"} =>
            \E d \in Calls : Current(d)' /\ d \in granted'
      BY <2>1, <2>3, <2>7 DEF GrantsOK
    <3>2. \A q \in Calls \ {p} : pc'[q] = "mark_login" => token'
      BY <2>1, <2>7 DEF GrantsOK
    <3>3. QED
      BY <2>1, <2>10, <2>12, <3>1, <3>2
  <2>16. QED
    BY <2>13, <2>14, <2>15 DEF GrantsOK
<1>20. ASSUME NEW c \in Calls, ServerSendHead(c) PROVE GrantsOK'
  <2> DEFINE f == [id |-> Len(route'), part |-> "head"]
  <2>1. /\ UNCHANGED <<state, token, pc, op, socket, line>>
        /\ wire' = [wire EXCEPT ![c] = Append(wire[c], f)]
    BY <1>20 DEF ServerSendHead, Send
  <2>2. Opened' = Opened /\ \A d \in Calls : Current(d)' <=> Current(d)
    BY <2>1 DEF Opened, Current
  <2>3. PICK r \in Routes :
          /\ granted' = IF r = "auth.ok" THEN granted \cup {c} ELSE granted
          /\ route' = Append(route, r)
    BY <1>20 DEF ServerSendHead
  <2>4. /\ Len(route') = Len(route) + 1 /\ Len(route) \in Nat
        /\ route'[Len(route) + 1] = r
        /\ \A i \in 1..Len(route) : route'[i] = route[i]
    BY <2>3 DEF TypeOK
  <2>5. f.id = Len(route) + 1 /\ f.part = "head"
    BY <2>4
  <2> HIDE DEF f
  <2>6. ASSUME NEW s \in Seq(Fragments),
               \A i \in DOMAIN s : s[i].id <= Len(route)
        PROVE  Accepts(s)' <=> Accepts(s)
    <3>1. \A i \in DOMAIN s : s[i] \in Fragments
      OBVIOUS
    <3>2. \A x \in Fragments : x.id \in Nat /\ x.id > 0
      BY DEF Fragments
    <3>3. \A i \in DOMAIN s : s[i].id \in 1..Len(route)
      BY <2>4, <2>6, <3>1, <3>2
    <3>4. \A i \in DOMAIN s : route'[s[i].id] = route[s[i].id]
      BY <2>4, <3>3
    <3>5. QED
      BY <3>4 DEF Accepts
  <2>7. \A d \in Calls :
          /\ wire[d] \in Seq(Fragments) /\ line[d] \in Seq(Fragments)
          /\ \A i \in DOMAIN wire[d] : wire[d][i].id <= Len(route)
          /\ \A i \in DOMAIN line[d] : line[d][i].id <= Len(route)
    BY DEF TypeOK, FragmentsOK
  <2>8. \A d \in Calls : Accepts(line[d])' <=> Accepts(line[d])
    <3>1. ASSUME NEW d \in Calls PROVE Accepts(line[d])' <=> Accepts(line[d])
      <4>1. Accepts(line[d]) <=>
              \E i \in DOMAIN line[d] :
                line[d][i].part = "head" /\ route'[line[d][i].id] = "auth.ok"
        BY <2>6, <2>7 DEF Accepts
      <4>2. QED
        BY <2>1, <4>1 DEF Accepts
    <3>2. QED
      BY <3>1
  <2>9. \A d \in Calls \ {c} : Accepts(wire[d])' => Accepts(wire[d])
    <3>1. ASSUME NEW d \in Calls \ {c}, Accepts(wire[d])' PROVE Accepts(wire[d])
      <4>1. wire'[d] = wire[d]
        BY <2>1 DEF TypeOK
      <4>2. \E i \in DOMAIN wire[d] :
              wire[d][i].part = "head" /\ route'[wire[d][i].id] = "auth.ok"
        BY <3>1, <4>1 DEF Accepts
      <4>3. QED
        BY <2>6, <2>7, <4>2 DEF Accepts
    <3>2. QED
      BY <3>1
  <2>10. Accepts(wire[c])' => Accepts(wire[c]) \/ r = "auth.ok"
    <3>1. ASSUME Accepts(wire[c])', r # "auth.ok" PROVE Accepts(wire[c])
      <4>1. wire'[c] = Append(wire[c], f)
        BY <2>1 DEF TypeOK
      <4>2. PICK i \in DOMAIN Append(wire[c], f) :
              /\ Append(wire[c], f)[i].part = "head"
              /\ route'[Append(wire[c], f)[i].id] = "auth.ok"
        BY <3>1, <4>1 DEF Accepts
      <4>3. \/ i \in DOMAIN wire[c] /\ Append(wire[c], f)[i] = wire[c][i]
            \/ Append(wire[c], f)[i] = f
        <5>1. wire[c] \in Seq(Fragments)
          BY <2>7
        <5>2. QED
          BY <5>1
      <4>4. Append(wire[c], f)[i] # f
        BY <2>4, <2>5, <3>1, <4>2
      <4>5. \E j \in DOMAIN wire[c] :
              wire[c][j].part = "head" /\ route'[wire[c][j].id] = "auth.ok"
        BY <4>2, <4>3, <4>4
      <4>6. QED
        BY <2>6, <2>7, <4>5 DEF Accepts
    <3>2. QED
      BY <3>1
  <2>11. granted \subseteq granted' /\ (r = "auth.ok" => c \in granted')
    BY <2>3
  <2>12. \A d \in Calls :
          Current(d)' /\ (SessionOpen \/ pc[d] = "mark_connected")'
            /\ Accepts(wire[d])' => d \in granted'
    BY <2>1, <2>2, <2>9, <2>10, <2>11 DEF GrantsOK, SessionOpen
  <2>13. \A q \in Calls :
          /\ op'[q] = "login" /\ pc'[q] = "reading" =>
               Current(socket[q])' /\ (Accepts(line[q])' => (socket[q] \in granted)')
    BY <2>1, <2>2, <2>8, <2>11 DEF GrantsOK, Current
  <2>14. \A q \in Calls :
          /\ pc'[q] \in {"store_token", "mark_login"} =>
               \E d \in Calls : Current(d)' /\ d \in granted'
          /\ pc'[q] = "mark_login" => token'
    BY <2>1, <2>2, <2>11 DEF GrantsOK
  <2>15. QED
    BY <2>12, <2>13, <2>14 DEF GrantsOK
<1>21. ASSUME NEW c \in Calls, ServerSendTail(c) PROVE GrantsOK'
  <2> DEFINE f == [id |-> half[c], part |-> "tail"]
  <2>1. /\ UNCHANGED <<state, token, pc, op, socket, line, route, granted>>
        /\ wire' = [wire EXCEPT ![c] = Append(wire[c], f)]
    BY <1>21 DEF ServerSendTail, Send
  <2>2. Opened' = Opened /\ \A d \in Calls : Current(d)' <=> Current(d)
    BY <2>1 DEF Opened, Current
  <2>3. f.part # "head"
    OBVIOUS
  <2> HIDE DEF f
  <2>4. Accepts(wire[c])' => Accepts(wire[c])
    <3>1. ASSUME Accepts(wire[c])' PROVE Accepts(wire[c])
      <4>1. wire'[c] = Append(wire[c], f)
        BY <2>1 DEF TypeOK
      <4>2. PICK i \in DOMAIN Append(wire[c], f) :
              /\ Append(wire[c], f)[i].part = "head"
              /\ route[Append(wire[c], f)[i].id] = "auth.ok"
        BY <2>1, <3>1, <4>1 DEF Accepts
      <4>3. \/ i \in DOMAIN wire[c] /\ Append(wire[c], f)[i] = wire[c][i]
            \/ Append(wire[c], f)[i] = f
        <5>1. wire[c] \in Seq(Fragments)
          BY DEF TypeOK
        <5>2. QED
          BY <5>1
      <4>4. QED
        BY <2>3, <4>2, <4>3 DEF Accepts
    <3>2. QED
      BY <3>1
  <2>5. \A d \in Calls \ {c} : Accepts(wire[d])' => Accepts(wire[d])
    <3>1. \A d \in Calls \ {c} : wire'[d] = wire[d]
      BY <2>1 DEF TypeOK
    <3>2. QED
      BY <2>1, <3>1 DEF Accepts
  <2>6. \A d \in Calls : Accepts(line[d])' <=> Accepts(line[d])
    BY <2>1 DEF Accepts
  <2>7. \A d \in Calls :
          Current(d)' /\ (SessionOpen \/ pc[d] = "mark_connected")'
            /\ Accepts(wire[d])' => d \in granted'
    BY <2>1, <2>2, <2>4, <2>5 DEF GrantsOK, SessionOpen
  <2>8. \A q \in Calls :
          /\ op'[q] = "login" /\ pc'[q] = "reading" =>
               Current(socket[q])' /\ (Accepts(line[q])' => (socket[q] \in granted)')
    BY <2>1, <2>2, <2>6 DEF GrantsOK, Current
  <2>9. \A q \in Calls :
          /\ pc'[q] \in {"store_token", "mark_login"} =>
               \E d \in Calls : Current(d)' /\ d \in granted'
          /\ pc'[q] = "mark_login" => token'
    BY <2>1, <2>2 DEF GrantsOK
  <2>10. QED
    BY <2>7, <2>8, <2>9 DEF GrantsOK
<1>22. CASE UNCHANGED <<state, token, pc, op, socket, line, wire, granted, route>>
  <2>1. Opened' = Opened /\ \A d \in Calls : Current(d)' <=> Current(d)
    BY <1>22 DEF Opened, Current
  <2>2. (SessionOpen' => SessionOpen) /\ \A q \in Calls : pc'[q] = pc[q]
    BY <1>22 DEF SessionOpen
  <2>3. \A q \in Calls : pc'[q] = "mark_login" => token'
    BY <1>22 DEF GrantsOK
  <2>4. QED
    BY <1>22, <1>s, <2>1, <2>2, <2>3
<1>23. ASSUME NEW c \in Calls, ServerClose(c) PROVE GrantsOK'
  BY <1>22, <1>23 DEF ServerClose
<1>24. QED
  BY <1>1, <1>2, <1>3, <1>4, <1>5, <1>6, <1>7, <1>8, <1>9, <1>10, <1>11,
     <1>12, <1>13, <1>14, <1>15, <1>16, <1>17, <1>18, <1>19, <1>20, <1>21, <1>22, <1>23 DEF Next, CallStep, vars

\* The client becomes LoggedIn on the connection that was granted, and loses the
\* state before it loses that connection; what it sends goes over no other.
LEMMA LoggedInKept ==
  ASSUME TypeOK, CallsOK, FragmentsOK, SerialOK, StreamOK, SessionOK, GrantsOK,
         LoggedInOK, [Next]_vars
  PROVE  LoggedInOK'
<1> USE NoneIsNoCall DEF slot, server, readVars
<1>s. ASSUME \A q \in Calls : ~StoreStream(q), UNCHANGED <<state, token, sent>>,
             granted \subseteq granted'
      PROVE  LoggedInOK'
  <2>1. \A c \in Calls : Current(c)' <=> Current(c)
    BY <1>s, CurrentStands
  <2>2. QED
    BY <1>s, <2>1 DEF LoggedInOK
<1>1. ASSUME NEW p \in Calls, Begin(p), \A q \in Calls : ~StoreStream(q)
      PROVE  LoggedInOK'
  <2>1. UNCHANGED <<state, token, sent, granted>>
    BY <1>1 DEF Begin
  <2>2. QED
    BY <1>s, <1>1, <2>1
<1>2. ASSUME NEW p \in Calls, StoreStream(p) PROVE LoggedInOK'
  <2>1. pc[p] = "store_stream" /\ UNCHANGED <<state, token, sent, granted>>
    BY <1>2 DEF StoreStream
  <2>2. state' # "LoggedIn"
    BY <2>1 DEF SessionOK
  <2>3. QED
    BY <2>1, <2>2 DEF LoggedInOK
<1>3. ASSUME NEW p \in Calls, MarkConnected(p) \/ MarkClosing(p) \/ MarkDisconnected(p)
      PROVE  LoggedInOK'
  <2>1. state' # "LoggedIn" /\ UNCHANGED <<sent, granted>>
    BY <1>3 DEF MarkConnected, MarkClosing, MarkDisconnected
  <2>2. QED
    BY <2>1 DEF LoggedInOK
<1>4. ASSUME NEW p \in Calls, StoreToken(p), \A q \in Calls : ~StoreStream(q)
      PROVE  LoggedInOK'
  <2>1. token' /\ UNCHANGED <<state, sent, granted>>
    BY <1>4 DEF StoreToken
  <2>2. \A c \in Calls : Current(c)' <=> Current(c)
    BY <1>4, CurrentStands
  <2>3. QED
    BY <2>1, <2>2 DEF LoggedInOK
<1>5. ASSUME NEW p \in Calls, MarkLogin(p), \A q \in Calls : ~StoreStream(q)
      PROVE  LoggedInOK'
  <2>1. pc[p] = "mark_login" /\ UNCHANGED <<token, sent, granted>>
    BY <1>5 DEF MarkLogin
  <2>2. \A c \in Calls : Current(c)' <=> Current(c)
    BY <1>5, CurrentStands
  <2>3. token /\ \E c \in Calls : Current(c) /\ c \in granted
    BY <2>1 DEF GrantsOK
  <2>4. QED
    BY <2>1, <2>2, <2>3 DEF LoggedInOK
<1>6. ASSUME NEW p \in Calls, Transmit(p), \A q \in Calls : ~StoreStream(q)
      PROVE  LoggedInOK'
  <2>1. /\ pc[p] = "transmit" /\ UNCHANGED <<state, token, granted>>
        /\ sent' \subseteq sent \cup ({stream} \ {None})
    BY <1>6 DEF Transmit
  <2>2. \A c \in Calls : Current(c)' <=> Current(c)
    BY <1>6, CurrentStands
  <2>3. PICK c \in Calls : Current(c) /\ c \in granted
    BY <2>1 DEF SessionOK, LoggedInOK
  <2>4. stream # None => stream = c
    <3>1. ASSUME stream # None PROVE stream = c
      <4>1. Current(stream) /\ stream \in Calls
        BY <3>1 DEF StreamOK, TypeOK
      <4>2. stream <= c /\ c <= stream /\ stream \in Nat /\ c \in Nat
        BY <2>3, <4>1 DEF Current, Calls
      <4>3. QED
        BY <4>2
    <3>2. QED
      BY <3>1
  <2>5. sent' \subseteq granted'
    BY <2>1, <2>3, <2>4 DEF LoggedInOK
  <2>6. QED
    BY <2>1, <2>2, <2>5 DEF LoggedInOK
<1>7. ASSUME NEW p \in Calls, Shutdown(p) PROVE LoggedInOK'
  <2>1. /\ pc[p] = "shutdown" /\ UNCHANGED state
        /\ granted' = granted \ ({stream} \ {None})
        /\ sent' = sent \ ({stream} \ {None})
    BY <1>7 DEF Shutdown, HangUp
  <2>2. state' # "LoggedIn"
    BY <2>1 DEF SessionOK
  <2>3. QED
    BY <2>1, <2>2 DEF LoggedInOK
<1>8. ASSUME NEW p \in Calls, Forget(p) PROVE LoggedInOK'
  <2>1. pc[p] = "forget" /\ UNCHANGED <<state, sent, granted>>
    BY <1>8 DEF Forget
  <2>2. state' # "LoggedIn"
    BY <2>1 DEF SessionOK
  <2>3. QED
    BY <2>1, <2>2 DEF LoggedInOK
<1>9. ASSUME NEW p \in Calls, \A q \in Calls : ~StoreStream(q),
             \/ Connect(p) \/ LoginCheck(p) \/ LoginWrite(p) \/ SendCheck(p)
             \/ ReceiveCheck(p) \/ Clone(p) \/ Read(p) \/ ReadEof(p)
             \/ ReadTimeout(p) \/ ServerSendTail(p) \/ ServerClose(p)
      PROVE  LoggedInOK'
  <2>1. UNCHANGED <<state, token, sent, granted>>
    BY <1>9 DEF Connect, LoginCheck, LoginWrite, SendCheck, ReceiveCheck, Clone,
                Read, ReadEof, ReadTimeout, ServerSendTail, ServerClose
  <2>2. QED
    BY <1>s, <1>9, <2>1
<1>10. ASSUME NEW c \in Calls, ServerSendHead(c), \A q \in Calls : ~StoreStream(q)
       PROVE  LoggedInOK'
  <2>1. UNCHANGED <<state, token, sent>> /\ granted \subseteq granted'
    BY <1>10 DEF ServerSendHead
  <2>2. QED
    BY <1>s, <1>10, <2>1
<1>11. CASE UNCHANGED vars
  <2>1. Opened' = Opened /\ \A c \in Calls : Current(c)' <=> Current(c)
    BY <1>11 DEF Opened, Current, vars
  <2>2. QED
    BY <1>11, <2>1 DEF LoggedInOK, vars
<1>12. QED
  BY <1>1, <1>2, <1>3, <1>4, <1>5, <1>6, <1>7, <1>8, <1>9, <1>10, <1>11
     DEF Next, CallStep

-----------------------------------------------------------------------------
LEMMA InitHolds == Init => IInv
<1> SUFFICES ASSUME Init PROVE IInv
  OBVIOUS
<1>1. pc = [p \in Calls |-> "idle"] /\ op = [p \in Calls |-> "none"]
  BY DEF Init
<1>2. /\ wire = [c \in Calls |-> <<>>] /\ line = [p \in Calls |-> <<>>]
      /\ half = [c \in Calls |-> None] /\ socket = [p \in Calls |-> None]
      /\ route = <<>>
  BY DEF Init
<1>3. TypeOK
  <2>1. wire \in [Calls -> Seq(Fragments)] /\ line \in [Calls -> Seq(Fragments)]
    BY <1>2
  <2>2. retries \in 0..MaxRetries
    BY TcpAssumption DEF Init
  <2>3. /\ op \in [Calls -> Orders \cup {"none", "receive"}]
        /\ \A p \in Calls : pc[p] = "idle"
    BY <1>1
  <2>4. /\ socket \in [Calls -> Calls \cup {None}]
        /\ half \in [Calls -> 1..MaxPackets \cup {None}] /\ route \in Seq(Routes)
    BY <1>2
  <2>5. /\ callers \in Disciplines /\ state = "Disconnected" /\ stream = None
        /\ token = FALSE /\ shut = {} /\ asked = {} /\ granted = {} /\ sent = {}
    BY DEF Init
  <2>6. \A p \in Calls :
          op[p] = "login" /\ pc[p] \in {"check", "clone", "reading"} => retries > 0
    BY <2>3
  <2>7. QED
    BY <1>1, <2>1, <2>2, <2>3, <2>4, <2>5, <2>6 DEF TypeOK
<1>4. CallsOK
  BY <1>1, <1>2 DEF CallsOK
<1>5. FragmentsOK
  <2>1. \A c \in Calls : wire[c] = <<>> /\ line[c] = <<>> /\ half[c] = None
    BY <1>2
  <2>2. Len(route) = 0 /\ MaxPackets \in Nat
    BY <1>2, TcpAssumption
  <2>3. QED
    BY <2>1, <2>2 DEF FragmentsOK
<1>6. SerialOK
  BY <1>1 DEF SerialOK, Running
<1>7. Opened = {}
  BY <1>1 DEF Opened
<1>8. StreamOK
  BY <1>2, <1>7 DEF StreamOK, Init
<1>9. SessionOK
  BY <1>1 DEF SessionOK, Init
<1>10. GrantsOK
  BY <1>1, <1>7 DEF GrantsOK, Current
<1>11. LoggedInOK
  BY DEF LoggedInOK, Init
<1>12. QED
  BY <1>3, <1>4, <1>5, <1>6, <1>8, <1>9, <1>10, <1>11 DEF IInv

\* The parts of the invariant hold one another up.
LEMMA Inductive == IInv /\ [Next]_vars => IInv'
BY TypesKept, SerialKept, StreamKept, SessionKept, GrantsKept, LoggedInKept DEF IInv

LEMMA Invariance == Spec => []IInv
<1>1. Init => IInv
  BY InitHolds
<1>2. IInv /\ [Next]_vars => IInv'
  BY Inductive
<1>3. QED
  BY <1>1, <1>2, PTL DEF Spec

\* A connection that is current is the latest.
LEMMA CurrentIsLatest ==
  ASSUME NEW c \in Calls, Current(c) PROVE Opened # {} /\ Latest = c
<1>1. c \in Opened /\ \A d \in Opened : d <= c
  BY DEF Current
<1>2. Latest \in Opened /\ \A d \in Opened : d <= Latest
  BY <1>1 DEF Latest
<1>3. Latest <= c /\ c <= Latest /\ Latest \in Nat /\ c \in Nat
  BY <1>1, <1>2 DEF Opened, Calls
<1>4. QED
  BY <1>1, <1>3

\* Every variable of TcpQQClient keeps its type; a login waiting for its ack has
\* packets left to wait for.
THEOREM TypeCorrect == Spec => []TypeOK
<1>1. IInv => TypeOK
  BY DEF IInv
<1>2. QED
  BY <1>1, Invariance, PTL

\* TcpQQClient is LoggedIn only with a token, and after the server has accepted a
\* login on the connection opened last; send_packet writes to no connection on
\* which it has not.
THEOREM LoginIsHonest == Spec => []LoginHonest
<1>1. IInv => LoginHonest
  <2> SUFFICES ASSUME IInv PROVE LoginHonest
    OBVIOUS
  <2>1. ASSUME state = "LoggedIn" PROVE token /\ Opened # {} /\ Latest \in granted
    <3>1. token /\ \E c \in Calls : Current(c) /\ c \in granted
      BY <2>1 DEF IInv, LoggedInOK
    <3>2. PICK c \in Calls : Current(c) /\ c \in granted
      BY <3>1
    <3>3. QED
      BY <3>1, <3>2, CurrentIsLatest
  <2>2. sent \subseteq granted
    BY DEF IInv, LoggedInOK
  <2>3. QED
    BY <2>1, <2>2 DEF LoginHonest
<1>2. QED
  BY <1>1, Invariance, PTL

\* Between lifecycle calls TcpQQClient is never left in Closing, and Disconnected
\* it has neither a stream nor a token: disconnect has cleared both before it says
\* so, and connect says Connected before it returns.
THEOREM DisconnectIsClean == Spec => []DisconnectedIsClean
<1>1. IInv => DisconnectedIsClean
  <2> SUFFICES ASSUME IInv, \A p \in Running : op[p] = "receive"
               PROVE  /\ state # "Closing"
                      /\ state = "Disconnected" => stream = None /\ ~token
    BY DEF DisconnectedIsClean
  <2>1. \A p \in Calls :
          pc[p] \notin {"mark_connected", "shutdown", "forget", "mark_disconnected"}
    BY DEF IInv, CallsOK, Running, Results
  <2>2. stream # None => stream \in Calls
    BY DEF IInv, TypeOK
  <2>3. QED
    BY <2>1, <2>2 DEF IInv, SessionOK
<1>2. QED
  BY <1>1, Invariance, PTL

-----------------------------------------------------------------------------
\* One call at a time, the fragments a reader has yet to see keep the order they
\* were sent in: a head comes before its own tail, and the tail of the last head
\* is the next to be sent.
Paired(s) ==
  \A i \in DOMAIN s :
    i + 1 \in DOMAIN s /\ s[i].part = "head" =>
      s[i + 1] = [id |-> s[i].id, part |-> "tail"]

Open(s, c) ==
  s # <<>> /\ s[Len(s)].part = "head" => half[c] = s[Len(s)].id \/ c \in shut

WholeOK ==
  callers = "exclusive" =>
    /\ \A p, q \in Running : p = q
    /\ \A c \in Calls : Paired(wire[c]) /\ Open(wire[c], c)
    /\ \A p \in Calls :
         pc[p] = "reading" =>
           /\ Paired(line[p] \o wire[socket[p]])
           /\ Open(line[p] \o wire[socket[p]], socket[p])

\* The server goes on where it was: with a head when it has sent its last line
\* whole, else with the tail of the one it is at.
Continues(c, f) ==
  /\ c \notin shut
  /\ \/ half[c] = None /\ f.part = "head"
     \/ half[c] # None /\ f = [id |-> half[c], part |-> "tail"]

LEMMA Extended ==
  ASSUME NEW s \in Seq(Fragments), NEW c \in Calls, NEW f \in Fragments,
         Paired(s), Open(s, c), Continues(c, f)
  PROVE  /\ Paired(Append(s, f)) /\ Append(s, f) # <<>>
         /\ Append(s, f)[Len(Append(s, f))] = f
<1>1. /\ Len(Append(s, f)) = Len(s) + 1 /\ Append(s, f)[Len(s) + 1] = f
      /\ DOMAIN Append(s, f) = 1..(Len(s) + 1) /\ DOMAIN s = 1..Len(s)
      /\ \A i \in 1..Len(s) : Append(s, f)[i] = s[i] /\ s[i] \in Fragments
      /\ Len(s) \in Nat
  OBVIOUS
<1>2. ASSUME Len(s) > 0, s[Len(s)].part = "head"
      PROVE  f = [id |-> s[Len(s)].id, part |-> "tail"]
  <2>1. s # <<>> /\ s[Len(s)] \in Fragments
    BY <1>1, <1>2
  <2>2. half[c] = s[Len(s)].id
    BY <1>2, <2>1 DEF Open, Continues
  <2>3. half[c] # None
    BY <2>1, <2>2, TcpAssumption DEF Fragments
  <2>4. QED
    BY <2>2, <2>3 DEF Continues
<1>3. ASSUME NEW i \in 1..(Len(s) + 1), i + 1 \in 1..(Len(s) + 1),
             Append(s, f)[i].part = "head"
      PROVE  Append(s, f)[i + 1] = [id |-> Append(s, f)[i].id, part |-> "tail"]
  <2>1. i \in 1..Len(s) /\ Append(s, f)[i] = s[i]
    BY <1>1, <1>3
  <2>2. CASE i = Len(s)
    BY <1>1, <1>2, <1>3, <2>1, <2>2
  <2>3. CASE i # Len(s)
    <3>1. i + 1 \in 1..Len(s)
      <4>1. Len(s) \in Nat /\ i \in 1..Len(s) /\ i # Len(s)
        BY <1>1, <2>1, <2>3
      <4> DEFINE n == Len(s)
      <4> HIDE DEF n
      <4>2. n \in Nat /\ i \in 1..n /\ i # n
        BY <4>1 DEF n
      <4>3. i + 1 \in 1..n
        BY <4>2
      <4>4. QED
        BY <4>3 DEF n
    <3>2. s[i + 1] = [id |-> s[i].id, part |-> "tail"]
      BY <1>1, <1>3, <2>1, <3>1 DEF Paired
    <3>3. QED
      BY <1>1, <2>1, <3>1, <3>2
  <2>4. QED
    BY <2>2, <2>3
<1>4. Append(s, f) # <<>>
  <2> DEFINE t == Append(s, f)
  <2>1. Len(t) # 0
    BY <1>1
  <2> HIDE DEF t
  <2>2. t # <<>>
    BY <2>1
  <2>3. QED
    BY <2>2 DEF t
<1>5. Paired(Append(s, f))
  BY <1>1, <1>3 DEF Paired
<1>6. QED
  BY <1>1, <1>4, <1>5

\* What a reader has not seen yet grows as its connection does.
LEMMA JoinedMore ==
  ASSUME NEW s \in Seq(Fragments), NEW t \in Seq(Fragments), NEW f \in Fragments
  PROVE  s \o Append(t, f) = Append(s \o t, f)
OBVIOUS

LEMMA WholeKept ==
  ASSUME TypeOK, CallsOK, FragmentsOK, StreamOK, WholeOK, [Next]_vars
  PROVE  WholeOK'
<1> SUFFICES ASSUME callers = "exclusive"
             PROVE  WholeOK'
  <2>1. UNCHANGED callers
    <3>1. ASSUME NEW p \in Calls, CallStep(p) PROVE UNCHANGED callers
      BY <3>1, CallMoves
    <3>2. QED
      BY <3>1 DEF Next, vars, Begin, ServerSendHead, ServerSendTail, ServerClose
  <2>2. QED
    BY <2>1 DEF WholeOK
<1> USE DEF slot, server, readVars
<1>e. Paired(<<>>) /\ \A c \in Calls : Open(<<>>, c) /\ Open(<<>>, c)'
  BY DEF Paired, Open
\* The calls that read keep their buffers, while connections may end.
<1>s. ASSUME \A p, q \in Running' : p = q, UNCHANGED <<wire, line>>,
             \A q \in Calls : pc'[q] = "reading" =>
               \/ pc[q] = "reading" /\ socket'[q] = socket[q]
               \/ line[q] = <<>> /\ socket'[q] \in Calls,
             \A c \in Calls : half'[c] = half[c] \/ c \in shut',
             shut \subseteq shut'
      PROVE  WholeOK'
  <2>1. ASSUME NEW s, NEW c \in Calls, Open(s, c) PROVE Open(s, c)'
    BY <1>s, <2>1 DEF Open
  <2>2. \A c \in Calls : Paired(wire[c])' /\ Open(wire[c], c)'
    <3>1. ASSUME NEW c \in Calls PROVE Paired(wire[c])' /\ Open(wire[c], c)'
      <4>1. wire'[c] = wire[c]
        BY <1>s
      <4>2. Paired(wire[c]) /\ Open(wire[c], c)
        BY DEF WholeOK
      <4>3. QED
        BY <1>s, <4>1, <4>2 DEF Open, Paired
    <3>2. QED
      BY <3>1
  <2>3. ASSUME NEW p \in Calls, pc'[p] = "reading"
        PROVE  /\ Paired(line[p] \o wire[socket[p]])'
               /\ Open(line[p] \o wire[socket[p]], socket[p])'
    <3>1. CASE pc[p] = "reading" /\ socket'[p] = socket[p]
      <4>1. socket[p] \in Calls
        BY <3>1 DEF CallsOK
      <4>2. PICK c \in Calls : c = socket[p]
        BY <4>1
      <4>3. PICK s : s = line[p] \o wire[c]
        OBVIOUS
      <4>4. Paired(s) /\ Open(s, c)
        BY <3>1, <4>2, <4>3 DEF WholeOK
      <4>5. Open(s, c)'
        BY <2>1, <4>4
      <4>6. (line[p] \o wire[socket[p]])' = s /\ socket'[p] = c
        BY <1>s, <3>1, <4>2, <4>3
      <4>7. QED
        BY <4>4, <4>5, <4>6 DEF Paired, Open
    <3>2. CASE line[p] = <<>> /\ socket'[p] \in Calls
      <4>1. PICK c \in Calls : c = socket'[p]
        BY <3>2
      <4>2. wire[c] \in Seq(Fragments)
        BY DEF TypeOK
      <4>3. (line[p] \o wire[socket[p]])' = wire[c]
        BY <1>s, <3>2, <4>1, <4>2
      <4>4. Paired(wire[c]) /\ Open(wire[c], c)
        BY DEF WholeOK
      <4>5. PICK s : s = wire[c]
        OBVIOUS
      <4>6. Paired(s) /\ Open(s, c)'
        BY <2>1, <4>4, <4>5
      <4>7. QED
        BY <4>1, <4>3, <4>5, <4>6 DEF Paired, Open
    <3>3. QED
      BY <1>s, <2>3, <3>1, <3>2
  <2>4. QED
    BY <1>s, <2>2, <2>3 DEF WholeOK
\* The server appends a fragment to a connection.
<1>t. ASSUME NEW c \in Calls, NEW f \in Fragments, Continues(c, f),
             UNCHANGED <<pc, socket, line, shut>>,
             wire' = [wire EXCEPT ![c] = Append(wire[c], f)],
             half' = [half EXCEPT ![c] = half'[c]],
             f.part = "head" => half'[c] = f.id
      PROVE  WholeOK'
  <2>1. /\ wire'[c] = Append(wire[c], f) /\ \A d \in Calls \ {c} : wire'[d] = wire[d]
        /\ \A d \in Calls \ {c} : half'[d] = half[d]
    BY <1>t DEF TypeOK
  <2>2. ASSUME NEW s \in Seq(Fragments), Paired(s), Open(s, c)
        PROVE  Paired(Append(s, f)) /\ Open(Append(s, f), c)'
    <3>1. /\ Paired(Append(s, f))
          /\ Append(s, f)[Len(Append(s, f))] = f
      BY <1>t, <2>2, Extended
    <3>2. QED
      BY <1>t, <3>1 DEF Open
  <2>3. ASSUME NEW s, NEW d \in Calls \ {c}, Open(s, d) PROVE Open(s, d)'
    BY <1>t, <2>1, <2>3 DEF Open
  <2>4. Running' = Running
    BY <1>t DEF Running
  <2>5. ASSUME NEW d \in Calls PROVE Paired(wire[d])' /\ Open(wire[d], d)'
    <3>1. PICK s \in Seq(Fragments) : s = wire[d]
      BY DEF TypeOK
    <3>2. Paired(s) /\ Open(s, d)
      BY <3>1 DEF WholeOK
    <3>3. CASE d = c
      <4>1. Paired(Append(s, f)) /\ Open(Append(s, f), c)'
        BY <2>2, <3>2, <3>3
      <4>2. wire'[d] = Append(s, f)
        BY <2>1, <3>1, <3>3
      <4>3. QED
        BY <3>3, <4>1, <4>2 DEF Paired, Open
    <3>4. CASE d # c
      <4>1. Paired(s) /\ Open(s, d)' /\ wire'[d] = s
        BY <2>1, <2>3, <3>1, <3>2, <3>4
      <4>2. QED
        BY <4>1 DEF Paired, Open
    <3>5. QED
      BY <3>3, <3>4
  <2>6. ASSUME NEW p \in Calls, pc'[p] = "reading"
        PROVE  /\ Paired(line[p] \o wire[socket[p]])'
               /\ Open(line[p] \o wire[socket[p]], socket[p])'
    <3>1. pc[p] = "reading" /\ socket[p] \in Calls
      BY <1>t, <2>6 DEF CallsOK
    <3>2. PICK d \in Calls : d = socket[p]
      BY <3>1
    <3>3. line[p] \in Seq(Fragments) /\ wire[d] \in Seq(Fragments)
      BY DEF TypeOK
    <3>4. PICK s \in Seq(Fragments) : s = line[p] \o wire[d]
      BY <3>3, Joined
    <3>5. Paired(s) /\ Open(s, d)
      BY <3>1, <3>2, <3>4 DEF WholeOK
    <3>6. CASE d = c
      <4>1. Paired(Append(s, f)) /\ Open(Append(s, f), c)'
        BY <2>2, <3>5, <3>6
      <4>2. line[p] \o Append(wire[d], f) = Append(s, f)
        BY <3>3, <3>4, JoinedMore
      <4>3. (line[p] \o wire[socket[p]])' = Append(s, f) /\ socket'[p] = d
        BY <1>t, <2>1, <3>2, <3>6, <4>2
      <4>4. QED
        BY <3>6, <4>1, <4>3 DEF Paired, Open
    <3>7. CASE d # c
      <4>1. (line[p] \o wire[socket[p]])' = s /\ socket'[p] = d
        BY <1>t, <2>1, <3>2, <3>4, <3>7
      <4>2. Open(s, d)'
        BY <2>3, <3>5, <3>7
      <4>3. QED
        BY <3>5, <4>1, <4>2 DEF Paired, Open
    <3>8. QED
      BY <3>6, <3>7
  <2>7. QED
    BY <1>t, <2>4, <2>5, <2>6 DEF WholeOK
<1>1. ASSUME NEW p \in Calls, Begin(p) PROVE WholeOK'
  <2>1. Running = {}
    BY <1>1 DEF Begin
  <2>2. PICK l \in {"connect", "login", "send", "check", "close"} :
          pc' = [pc EXCEPT ![p] = l]
    BY <1>1 DEF Begin, Goto, Orders, Results
  <2>3. pc'[p] = l /\ \A q \in Calls \ {p} : pc'[q] = pc[q]
    BY <2>2 DEF TypeOK
  <2>4. Running' \subseteq {p}
    BY <2>1, <2>3 DEF Running
  <2>5. UNCHANGED <<wire, line, socket, half, shut>>
    BY <1>1 DEF Begin
  <2>6. QED
    BY <1>s, <2>3, <2>4, <2>5
<1>2. ASSUME NEW p \in Calls, CallStep(p)
      PROVE  /\ \A x, y \in Running' : x = y
             /\ \A q \in Calls \ {p} : pc'[q] = pc[q] /\ pc[q] # "reading"
  <2>1. PICK l : pc' = [pc EXCEPT ![p] = l]
    BY <1>2, CallMoves
  <2>2. p \in Running
    BY <1>2, CallMoves
  <2>3. \A q \in Calls \ {p} : pc'[q] = pc[q] /\ q \notin Running
    BY <2>1, <2>2 DEF TypeOK, WholeOK
  <2>4. QED
    BY <2>3 DEF Running, Results
<1>3. ASSUME NEW p \in Calls, Read(p) PROVE WholeOK'
  <2> DEFINE b == line[p] \o wire[socket[p]]
  <2>1. /\ pc[p] = "reading" /\ socket[p] \in Calls
        /\ wire' = [wire EXCEPT ![socket[p]] = <<>>] /\ UNCHANGED <<half, shut>>
        /\ b \in Seq(Fragments)
    BY <1>3, ReadStep
  <2>2. \/ line' = [line EXCEPT ![p] = b] /\ UNCHANGED <<pc, socket>>
        \/ \E l \in {"returned", "check", "store_token"} : pc' = [pc EXCEPT ![p] = l]
    BY <1>3, ReadStep
  <2>3. PICK c \in Calls : c = socket[p]
    BY <2>1
  <2>4. PICK s \in Seq(Fragments) : s = b
    BY <2>1
  <2>5. Paired(s) /\ Open(s, c)
    BY <2>1, <2>3, <2>4 DEF WholeOK
  <2> HIDE DEF b
  <2>6. /\ wire'[c] = <<>> /\ \A d \in Calls \ {c} : wire'[d] = wire[d]
    BY <2>1, <2>3 DEF TypeOK
  <2>7. ASSUME NEW d \in Calls PROVE Paired(wire[d])' /\ Open(wire[d], d)'
    <3>1. CASE d = c
      BY <1>e, <2>6, <3>1 DEF Paired, Open
    <3>2. CASE d # c
      <4>1. wire'[d] = wire[d] /\ Paired(wire[d]) /\ Open(wire[d], d)
        BY <2>6, <3>2 DEF WholeOK
      <4>2. QED
        BY <2>1, <4>1 DEF Paired, Open
    <3>3. QED
      BY <3>1, <3>2
  <2>8. /\ \A x, y \in Running' : x = y
        /\ \A q \in Calls \ {p} : pc'[q] = pc[q] /\ pc[q] # "reading"
    BY <1>2, <1>3 DEF CallStep
  <2>9. ASSUME pc'[p] = "reading"
        PROVE  /\ Paired(line[p] \o wire[socket[p]])'
               /\ Open(line[p] \o wire[socket[p]], socket[p])'
    <3>1. line' = [line EXCEPT ![p] = b] /\ UNCHANGED socket
      BY <2>2, <2>9 DEF TypeOK
    <3>2. line'[p] = s /\ socket'[p] = c
      BY <2>3, <2>4, <3>1 DEF TypeOK
    <3>3. (line[p] \o wire[socket[p]])' = s
      BY <2>6, <3>2
    <3>4. QED
      BY <2>1, <2>5, <3>2, <3>3 DEF Paired, Open
  <2>10. \A q \in Calls : pc'[q] = "reading" =>
           /\ Paired(line[q] \o wire[socket[q]])'
           /\ Open(line[q] \o wire[socket[q]], socket[q])'
    BY <2>8, <2>9
  <2>11. QED
    BY <2>7, <2>8, <2>10 DEF WholeOK
<1>4. ASSUME NEW p \in Calls, ReadEof(p) \/ ReadTimeout(p) PROVE WholeOK'
  <2>1. /\ pc' = [pc EXCEPT ![p] = "returned"] /\ UNCHANGED <<wire, half, shut>>
    BY <1>4 DEF ReadEof, ReadTimeout, NoPacket, CallsOK, Goto, Results
  <2>2. /\ \A x, y \in Running' : x = y
        /\ \A q \in Calls \ {p} : pc'[q] = pc[q] /\ pc[q] # "reading"
    BY <1>2, <1>4 DEF CallStep
  <2>3. \A q \in Calls : pc'[q] # "reading"
    BY <2>1, <2>2 DEF TypeOK
  <2>4. ASSUME NEW d \in Calls PROVE Paired(wire[d])' /\ Open(wire[d], d)'
    BY <2>1 DEF WholeOK, Paired, Open
  <2>5. QED
    BY <2>2, <2>3, <2>4 DEF WholeOK
<1>5. ASSUME NEW p \in Calls, CallStep(p), ~Read(p), ~ReadEof(p), ~ReadTimeout(p)
      PROVE  WholeOK'
  <2>1. /\ \A x, y \in Running' : x = y
        /\ \A q \in Calls \ {p} : pc'[q] = pc[q] /\ pc[q] # "reading"
    BY <1>2, <1>5
  <2>2. CASE Clone(p)
    <3>1. /\ pc[p] = "clone" /\ UNCHANGED <<wire, line, half, shut>>
          /\ \/ pc' = [pc EXCEPT ![p] = "returned"]
             \/ stream # None /\ socket' = [socket EXCEPT ![p] = stream]
      BY <2>2 DEF Clone, CallsOK, Goto, Results
    <3>2. pc'[p] = "reading" => line[p] = <<>> /\ socket'[p] \in Calls
      BY <3>1 DEF TypeOK, CallsOK
    <3>3. QED
      BY <1>s, <2>1, <3>1, <3>2
  <2>3. CASE Shutdown(p)
    <3>1. /\ pc' = [pc EXCEPT ![p] = "forget"] /\ UNCHANGED <<wire, line>>
          /\ shut' = shut \cup ({stream} \ {None})
          /\ \A c \in Calls : half'[c] = half[c] \/ c \in {stream} \ {None}
      BY <2>3 DEF Shutdown, HangUp, Goto, Results, CallsOK
    <3>2. pc'[p] # "reading"
      BY <3>1 DEF TypeOK
    <3>3. QED
      BY <1>s, <2>1, <3>1, <3>2
  <2>4. CASE ~Clone(p) /\ ~Shutdown(p)
    <3>1. UNCHANGED <<wire, line, half, shut>>
      BY <1>5, <2>4 DEF CallStep, Connect, StoreStream, MarkConnected, LoginCheck,
           LoginWrite, StoreToken, MarkLogin, SendCheck, Transmit, MarkClosing, Forget,
           MarkDisconnected, ReceiveCheck
    <3>2. \E l : l # "reading" /\ Goto(p, l)
      BY <1>5, <2>4 DEF CallStep, Connect, StoreStream, MarkConnected, LoginCheck,
           LoginWrite, StoreToken, MarkLogin, SendCheck, Transmit, MarkClosing, Forget,
           MarkDisconnected, ReceiveCheck, NoPacket
    <3>3. pc'[p] # "reading"
      BY <3>2 DEF Goto, TypeOK
    <3>4. QED
      BY <1>s, <2>1, <3>1, <3>3
  <2>5. QED
    BY <2>2, <2>3, <2>4
<1>6. ASSUME NEW c \in Calls, ServerSendHead(c) PROVE WholeOK'
  <2>1. PICK f \in Fragments :
          /\ f = [id |-> Len(route'), part |-> "head"]
          /\ wire' = [wire EXCEPT ![c] = Append(wire[c], f)]
    <3>1. Len(route') \in 1..MaxPackets
      BY <1>6, TcpAssumption DEF ServerSendHead, TypeOK
    <3>2. [id |-> Len(route'), part |-> "head"] \in Fragments
      BY <3>1 DEF Fragments
    <3>3. wire' = [wire EXCEPT ![c] =
                     Append(wire[c], [id |-> Len(route'), part |-> "head"])]
      BY <1>6 DEF ServerSendHead, Send
    <3>4. QED
      BY <3>2, <3>3
  <2>2. /\ c \notin shut /\ half[c] = None /\ UNCHANGED <<pc, socket, line, shut>>
        /\ half' = [half EXCEPT ![c] = Len(route')]
    BY <1>6 DEF ServerSendHead
  <2>3. half'[c] = Len(route') /\ half' = [half EXCEPT ![c] = half'[c]]
    BY <2>2 DEF TypeOK
  <2>4. Continues(c, f) /\ half'[c] = f.id
    BY <2>1, <2>2, <2>3 DEF Continues
  <2>5. QED
    BY <1>t, <2>1, <2>2, <2>3, <2>4
<1>7. ASSUME NEW c \in Calls, ServerSendTail(c) PROVE WholeOK'
  <2>1. /\ c \notin shut /\ half[c] # None /\ UNCHANGED <<pc, socket, line, shut>>
        /\ half' = [half EXCEPT ![c] = None]
        /\ wire' = [wire EXCEPT ![c] =
                      Append(wire[c], [id |-> half[c], part |-> "tail"])]
    BY <1>7 DEF ServerSendTail, Send
  <2>2. PICK f \in Fragments : f = [id |-> half[c], part |-> "tail"]
    BY <2>1 DEF TypeOK, Fragments
  <2>3. half' = [half EXCEPT ![c] = half'[c]]
    BY <2>1 DEF TypeOK
  <2>4. Continues(c, f) /\ f.part # "head"
    BY <2>1, <2>2 DEF Continues
  <2>5. QED
    BY <1>t, <2>1, <2>2, <2>3, <2>4
<1>8. ASSUME NEW c \in Calls, ServerClose(c) PROVE WholeOK'
  <2>1. /\ UNCHANGED <<pc, wire, line, socket>> /\ shut' = shut \cup {c}
        /\ half' = [half EXCEPT ![c] = None]
    BY <1>8 DEF ServerClose
  <2>2. \A d \in Calls : half'[d] = half[d] \/ d \in shut'
    BY <2>1 DEF TypeOK
  <2>3. Running' = Running
    BY <2>1 DEF Running
  <2>4. QED
    BY <1>s, <2>1, <2>2, <2>3 DEF WholeOK
<1>9. CASE UNCHANGED vars
  <2>1. UNCHANGED <<pc, wire, line, socket, half, shut>> /\ Running' = Running
    BY <1>9 DEF vars, Running
  <2>2. QED
    BY <1>s, <2>1 DEF WholeOK
<1>10. QED
  BY <1>1, <1>3, <1>4, <1>5, <1>6, <1>7, <1>8, <1>9 DEF Next

LEMMA TwoLong ==
  ASSUME NEW t \in Seq(Fragments), Len(t) = 2
  PROVE  t = <<t[1], t[2]>>
OBVIOUS

\* A line that parses is a packet of the server's, whole: its head and its tail
\* belong together, whatever earlier reads have cut off or dropped.
LEMMA LineIsWhole ==
  ASSUME NEW s \in Seq(Fragments), Paired(s), FirstLine(s) # <<>>, Parses(FirstLine(s))
  PROVE  /\ 1 \in DOMAIN s
         /\ FirstLine(s) = <<[id |-> s[1].id, part |-> "head"],
                             [id |-> s[1].id, part |-> "tail"]>>
<1> DEFINE k == SelectInSeq(s, LAMBDA f : f.part = "tail")
<1>1. FirstLine(s) = SubSeq(s, 1, k) /\ Len(FirstLine(s)) = 2
  BY DEF FirstLine, Parses
<1>2. k \in 0..Len(s)
  BY FirstTail
<1> HIDE DEF k
<1>3. k = 2
  <2>1. k \in Int /\ Len(SubSeq(s, 1, k)) = k
    BY <1>2
  <2>2. QED
    BY <1>1, <2>1
<1>4. /\ {1, 2} \subseteq DOMAIN s /\ FirstLine(s) = <<s[1], s[2]>>
      /\ s[1] \in Fragments
  <2>1. 2 \in 0..Len(s)
    BY <1>2, <1>3
  <2>2. /\ SubSeq(s, 1, 2) \in Seq(Fragments) /\ Len(SubSeq(s, 1, 2)) = 2
        /\ SubSeq(s, 1, 2)[1] = s[1] /\ SubSeq(s, 1, 2)[2] = s[2]
    BY <2>1
  <2>a. SubSeq(s, 1, 2) = <<s[1], s[2]>>
    BY <2>2, TwoLong
  <2>3. QED
    BY <1>1, <1>3, <2>1, <2>2, <2>a
<1>5. s[1].part = "head"
  BY <1>4 DEF Parses
<1>6. s[2] = [id |-> s[1].id, part |-> "tail"]
  <2>1. 1 \in DOMAIN s /\ 1 + 1 \in DOMAIN s
    BY <1>4
  <2>2. s[1 + 1] = [id |-> s[1].id, part |-> "tail"]
    BY <1>5, <2>1 DEF Paired
  <2>3. QED
    BY <2>2
<1>7. s[1] = [id |-> s[1].id, part |-> "head"]
  BY <1>4, <1>5 DEF Fragments
<1>8. QED
  BY <1>4, <1>6, <1>7

\* One call at a time, receive_packet and login's wait never make a packet of the
\* halves of two: each line that parses was sent, as it is, by the server.
THEOREM PacketsAreIntact == Spec => []PacketsIntact
<1>1. Init => WholeOK
  <2> SUFFICES ASSUME Init PROVE WholeOK
    OBVIOUS
  <2>1. /\ \A p \in Calls : pc[p] = "idle" /\ wire[p] = <<>>
    BY DEF Init
  <2>2. Running = {}
    BY <2>1 DEF Running
  <2>3. Paired(<<>>) /\ \A c \in Calls : Open(<<>>, c)
    BY DEF Paired, Open
  <2>4. \A c \in Calls : Paired(wire[c]) /\ Open(wire[c], c)
    BY <2>1, <2>3
  <2>5. QED
    BY <2>1, <2>2, <2>4 DEF WholeOK
<1>2. IInv /\ WholeOK /\ [Next]_vars => WholeOK'
  BY WholeKept DEF IInv
<1>3. IInv /\ WholeOK => PacketsIntact
  <2> SUFFICES ASSUME IInv, WholeOK, callers = "exclusive",
                      NEW p \in Calls, pc[p] = "reading",
                      FirstLine(line[p] \o wire[socket[p]]) # <<>>,
                      Parses(FirstLine(line[p] \o wire[socket[p]]))
               PROVE  \E n \in 1..Len(route) :
                        FirstLine(line[p] \o wire[socket[p]]) =
                          <<[id |-> n, part |-> "head"], [id |-> n, part |-> "tail"]>>
    BY DEF PacketsIntact
  <2>1. PICK c \in Calls : c = socket[p]
    BY DEF IInv, CallsOK
  <2>2. line[p] \in Seq(Fragments) /\ wire[c] \in Seq(Fragments)
    BY DEF IInv, TypeOK
  <2>3. PICK s \in Seq(Fragments) : s = line[p] \o wire[c]
    BY <2>2, Joined
  <2>4. Paired(s)
    BY <2>1, <2>3 DEF WholeOK
  <2>5. /\ 1 \in DOMAIN s
        /\ FirstLine(s) = <<[id |-> s[1].id, part |-> "head"],
                            [id |-> s[1].id, part |-> "tail"]>>
    BY <2>1, <2>3, <2>4, LineIsWhole
  <2>6. s[1].id \in 1..Len(route)
    <3> DEFINE b == line[p] \o wire[c]
    <3>a. \A i \in DOMAIN b : \/ i \in DOMAIN line[p] /\ b[i] = line[p][i]
                              \/ \E j \in DOMAIN wire[c] : b[i] = wire[c][j]
      BY <2>2, Joined
    <3>b. s = b
      BY <2>3
    <3> HIDE DEF b
    <3>1. \A i \in DOMAIN s : \/ i \in DOMAIN line[p] /\ s[i] = line[p][i]
                              \/ \E j \in DOMAIN wire[c] : s[i] = wire[c][j]
      BY <3>a, <3>b
    <3>2. s[1].id <= Len(route)
      BY <2>5, <3>1 DEF IInv, FragmentsOK
    <3>3. s[1] \in Fragments
      BY <2>5
    <3>4. s[1].id \in 1..MaxPackets /\ Len(route) \in Nat /\ MaxPackets \in Nat
      BY <3>3, TcpAssumption, SMTT(20) DEF Fragments, IInv, TypeOK
    <3>5. QED
      BY <3>2, <3>4
  <2>7. QED
    BY <2>1, <2>3, <2>5, <2>6
<1>4. QED
  BY <1>1, <1>2, <1>3, Invariance, PTL DEF Spec

=============================================================================
