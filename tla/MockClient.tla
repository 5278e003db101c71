----------------------------- MODULE MockClient -----------------------------
(***************************************************************************)
(* MockQQClient of crates/qq-client, the client of qq mode for every       *)
(* endpoint that is not tcp://.  Each field has a tokio Mutex of its own.  *)
(* Most are locked for one assignment, but login holds the token's while   *)
(* it waits for the state's, and disconnect holds the state's and those of *)
(* both packet queues until its end.  Calls are numbered in the order they *)
(* are made; a token and a packet are named after the call they came with. *)
(***************************************************************************)
EXTENDS Naturals

CONSTANTS
  MaxCalls,        \* bound on the calls
  MaxOverlapping,  \* bound on them when any may overlap
  None             \* no call

ASSUME MockAssumption == /\ {MaxCalls, MaxOverlapping} \subseteq Nat
                         /\ None \notin 1..MaxCalls

Calls == 1..MaxCalls
Lifecycle == {"connect", "login", "disconnect"}
Traffic == {"send", "receive", "inject", "heartbeat"}

\* How the callers behave: anything at any time, or as QQClientBackend, which
\* makes the lifecycle calls one after the other and no others at its own.
Disciplines == {"overlapping", "backend"}

VARIABLES
  callers,   \* the callers' discipline (never changes)
  holder,    \* the Mutexes that are held across an await
  state,     \* ConnectionState
  token,     \* the login whose token is stored
  endpoint,  \* is an endpoint stored
  timeout,   \* timeout_ms: is it zero
  beaten,    \* heartbeat_at
  sent,      \* sent_packets
  inbound,   \* inbound_packets
  pc, op     \* where each call stands, and what it does

fields == <<state, token, endpoint, timeout, beaten, sent, inbound>>
vars == <<callers, holder, fields, pc, op>>

Mutexes == {"state", "token", "sent", "inbound"}

Init ==
  /\ callers \in Disciplines
  /\ holder = [m \in Mutexes |-> None]
  /\ state = "Disconnected" /\ token = None /\ endpoint = FALSE
  /\ timeout = "positive" /\ beaten = FALSE
  /\ sent = {} /\ inbound = {}
  /\ pc = [p \in Calls |-> "idle"]
  /\ op = [p \in Calls |-> "none"]

Running == {p \in Calls : pc[p] \notin {"idle", "ok", "err"}}
Goto(p, label) == pc' = [pc EXCEPT ![p] = label]
Free(m) == holder[m] = None
Hold(p, m) == Free(m) /\ holder' = [holder EXCEPT ![m] = p]
Release(p) == holder' = [m \in Mutexes |-> IF holder[m] = p THEN None
                                           ELSE holder[m]]

\* An empty endpoint is refused before anything else.
Begin(p) ==
  /\ pc[p] = "idle"
  /\ \A q \in 1..(p - 1) : pc[q] # "idle"
  /\ callers = "overlapping" => p <= MaxOverlapping
  /\ \E o \in Lifecycle \cup Traffic :
       /\ callers = "backend" /\ o \in Lifecycle =>
            \A q \in Running : op[q] \notin Lifecycle
       /\ op' = [op EXCEPT ![p] = o]
       /\ CASE o = "connect" -> Goto(p, "open") \/ Goto(p, "err")
            [] o = "login" -> Goto(p, "check")
            [] o = "disconnect" -> Goto(p, "close")
            [] o \in {"send", "heartbeat"} -> Goto(p, "check_timeout")
            [] o \in {"receive", "inject"} -> Goto(p, o)
  /\ UNCHANGED <<callers, holder, fields>>

-----------------------------------------------------------------------------
\* connect: refused when logged in; Connected before the endpoint is stored.
Open(p) ==
  /\ pc[p] = "open"
  /\ Free("state")
  /\ IF state = "LoggedIn"
       THEN Goto(p, "err") /\ UNCHANGED state
       ELSE Goto(p, "store_endpoint") /\ state' = "Connected"
  /\ UNCHANGED <<callers, holder, token, endpoint, timeout, beaten, sent,
                 inbound, op>>

StoreEndpoint(p) ==
  /\ pc[p] = "store_endpoint"
  /\ endpoint' = TRUE
  /\ Goto(p, "store_timeout")
  /\ UNCHANGED <<callers, holder, state, token, timeout, beaten, sent, inbound,
                 op>>

\* The caller's timeout_ms, zero or not.
StoreTimeout(p) ==
  /\ pc[p] = "store_timeout"
  /\ timeout' \in {"zero", "positive"}
  /\ Goto(p, "ok")
  /\ UNCHANGED <<callers, holder, state, token, endpoint, beaten, sent, inbound,
                 op>>

\* (mutant) login does not ask for a connection
LoginCheckNothing(p) ==
  /\ pc[p] = "check"
  /\ Free("state")
  /\ Goto(p, "err") \/ Goto(p, "take_token")
  /\ UNCHANGED <<callers, holder, fields, op>>

\* login: refused unless Connected, and without an account and a password.
LoginCheck(p) ==
  /\ pc[p] = "check"
  /\ Free("state")
  /\ \/ Goto(p, "err")
     \/ state = "Connected" /\ Goto(p, "take_token")
  /\ UNCHANGED <<callers, holder, fields, op>>

\* The token's Mutex is kept while the state's is waited for.
StoreToken(p) ==
  /\ pc[p] = "take_token"
  /\ Hold(p, "token")
  /\ token' = p
  /\ Goto(p, "mark_login")
  /\ UNCHANGED <<callers, state, endpoint, timeout, beaten, sent, inbound, op>>

\* LoggedIn, whatever the state is by now.
MarkLogin(p) ==
  /\ pc[p] = "mark_login"
  /\ Free("state")
  /\ state' = "LoggedIn"
  /\ Release(p)
  /\ Goto(p, "ok")
  /\ UNCHANGED <<callers, token, endpoint, timeout, beaten, sent, inbound, op>>

-----------------------------------------------------------------------------
\* (mutant) the state's Mutex is only held for the assignment
CloseReleasing(p) ==
  /\ pc[p] = "close"
  /\ Free("state")
  /\ state' = "Disconnected"
  /\ Goto(p, "clear_sent")
  /\ UNCHANGED <<callers, holder, token, endpoint, timeout, beaten, sent, inbound,
                 op>>

\* disconnect: the state's Mutex first, and kept.
Close(p) ==
  /\ pc[p] = "close"
  /\ Hold(p, "state")
  /\ state' = "Disconnected"
  /\ Goto(p, "clear_sent")
  /\ UNCHANGED <<callers, token, endpoint, timeout, beaten, sent, inbound, op>>

ClearSent(p) ==
  /\ pc[p] = "clear_sent"
  /\ Hold(p, "sent")
  /\ sent' = {}
  /\ Goto(p, "clear_inbound")
  /\ UNCHANGED <<callers, state, token, endpoint, timeout, beaten, inbound, op>>

ClearInbound(p) ==
  /\ pc[p] = "clear_inbound"
  /\ Hold(p, "inbound")
  /\ inbound' = {}
  /\ Goto(p, "clear_endpoint")
  /\ UNCHANGED <<callers, state, token, endpoint, timeout, beaten, sent, op>>

ClearEndpoint(p) ==
  /\ pc[p] = "clear_endpoint"
  /\ endpoint' = FALSE
  /\ Goto(p, "clear_token")
  /\ UNCHANGED <<callers, holder, state, token, timeout, beaten, sent, inbound,
                 op>>

\* (mutant) the token survives
ClearTokenNot(p) ==
  /\ pc[p] = "clear_token"
  /\ Free("token")
  /\ Goto(p, "clear_heartbeat")
  /\ UNCHANGED <<callers, holder, fields, op>>

\* The other end of the lock order: the token's Mutex, with the state's held.
ClearToken(p) ==
  /\ pc[p] = "clear_token"
  /\ Free("token")
  /\ token' = None
  /\ Goto(p, "clear_heartbeat")
  /\ UNCHANGED <<callers, holder, state, endpoint, timeout, beaten, sent,
                 inbound, op>>

\* timeout_ms is not reset.
ClearHeartbeat(p) ==
  /\ pc[p] = "clear_heartbeat"
  /\ beaten' = FALSE
  /\ Release(p)
  /\ Goto(p, "ok")
  /\ UNCHANGED <<callers, state, token, endpoint, timeout, sent, inbound, op>>

-----------------------------------------------------------------------------
\* is_logged_in, for a send or a heartbeat: two Mutexes, one after the other.
CheckTimeout(p) ==
  /\ pc[p] = "check_timeout"
  /\ Goto(p, IF timeout = "zero" THEN "err" ELSE "check_login")
  /\ UNCHANGED <<callers, holder, fields, op>>

CheckLogin(p) ==
  /\ pc[p] = "check_login"
  /\ Free("state")
  /\ Goto(p, IF state # "LoggedIn" THEN "err"
             ELSE IF op[p] = "send" THEN "push" ELSE "beat")
  /\ UNCHANGED <<callers, holder, fields, op>>

Push(p) ==
  /\ pc[p] = "push"
  /\ Free("sent")
  /\ sent' = sent \cup {p}
  /\ Goto(p, "ok")
  /\ UNCHANGED <<callers, holder, state, token, endpoint, timeout, beaten,
                 inbound, op>>

\* An interval of zero, or one too long to count in milliseconds, is refused.
Beat(p) ==
  /\ pc[p] = "beat"
  /\ \/ Goto(p, "err") /\ UNCHANGED beaten
     \/ Goto(p, "beat_timeout") /\ beaten' = TRUE
  /\ UNCHANGED <<callers, holder, state, token, endpoint, timeout, sent,
                 inbound, op>>

\* The interval in whole milliseconds becomes the timeout: less than one is 0.
BeatTimeout(p) ==
  /\ pc[p] = "beat_timeout"
  /\ timeout' \in {"zero", "positive"}
  /\ Goto(p, "ok")
  /\ UNCHANGED <<callers, holder, state, token, endpoint, beaten, sent, inbound,
                 op>>

\* (mutant) the state is asked for with the queue locked
ReceiveNested(p) ==
  /\ pc[p] = "receive"
  /\ \/ Hold(p, "inbound") /\ UNCHANGED <<inbound, pc>>
     \/ /\ holder["inbound"] = p
        /\ Free("state")
        /\ inbound' = {q \in inbound : \E r \in inbound : r < q}
        /\ Release(p)
        /\ Goto(p, "ok")
  /\ UNCHANGED <<callers, state, token, endpoint, timeout, beaten, sent, op>>

\* receive_packet: the oldest packet, if any, whatever the state is.
Receive(p) ==
  /\ pc[p] = "receive"
  /\ Free("inbound")
  /\ inbound' = {q \in inbound : \E r \in inbound : r < q}
  /\ Goto(p, "ok")
  /\ UNCHANGED <<callers, holder, state, token, endpoint, timeout, beaten, sent,
                 op>>

Inject(p) ==
  /\ pc[p] = "inject"
  /\ Free("inbound")
  /\ inbound' = inbound \cup {p}
  /\ Goto(p, "ok")
  /\ UNCHANGED <<callers, holder, state, token, endpoint, timeout, beaten, sent,
                 op>>

CallStep(p) ==
  \/ Open(p) \/ StoreEndpoint(p) \/ StoreTimeout(p)
  \/ LoginCheck(p) \/ StoreToken(p) \/ MarkLogin(p)
  \/ Close(p) \/ ClearSent(p) \/ ClearInbound(p) \/ ClearEndpoint(p)
  \/ ClearToken(p) \/ ClearHeartbeat(p)
  \/ CheckTimeout(p) \/ CheckLogin(p) \/ Push(p) \/ Beat(p) \/ BeatTimeout(p)
  \/ Receive(p) \/ Inject(p)

Next == \E p \in Calls : Begin(p) \/ CallStep(p)

\* Calls under way go on; a Mutex goes to each of its waiters in turn.
Fairness == \A p \in Calls : WF_vars(CallStep(p))

Spec == Init /\ [][Next]_vars /\ Fairness

=============================================================================
