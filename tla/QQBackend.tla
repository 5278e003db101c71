----------------------------- MODULE QQBackend ------------------------------
(***************************************************************************)
(* QQClientBackend of crates/protocol: connect, disconnect, listen and the *)
(* listener task listen spawns.  Flags are atomics stored one at a time,   *)
(* the listen_task mutex is held across awaits, and abort() only takes     *)
(* effect where the listener awaits.  Calls are numbered in the order they *)
(* are made; a listen call's task is named after it.  The client is the    *)
(* abstract QQClient: every lifecycle call on it is made with the          *)
(* listen_task mutex held.                                                 *)
(***************************************************************************)
EXTENDS Naturals

CONSTANTS
  MaxCalls,        \* bound on the calls of connect, disconnect and listen
  MaxOverlapping,  \* bound on them when they may overlap
  None             \* no call / no listener

ASSUME QQAssumption == /\ {MaxCalls, MaxOverlapping} \subseteq Nat
                       /\ None \notin 1..MaxCalls

Calls == 1..MaxCalls

\* How the callers behave: any number of calls at a time, one at a time, or
\* one at a time and none while a listener that was aborted or has left its
\* loop is still alive.
Disciplines == {"overlapping", "serial", "settled"}

VARIABLES
  callers,     \* the callers' discipline (never changes)
  credentials, \* the backend was configured with account and password (ditto)
  flag,       \* the four AtomicBools
  pc,         \* where each call stands; a flag's name: that store is next
  op,         \* which operation the call is
  lock,       \* holder of the listen_task mutex
  handle,     \* listener whose JoinHandle listen_task holds
  listener,   \* where each listener task stands
  aborted,    \* listeners that abort() was called on
  client      \* ConnectionState of the QQClient

inputs == <<callers, credentials>>
callVars == <<pc, op>>
listenerVars == <<listener, aborted>>
vars == <<inputs, flag, callVars, lock, handle, listenerVars, client>>

Flags == {"stop_requested", "connected", "listening", "logged_in"}

Live == {l \in Calls : listener[l] \in {"looping", "receiving", "exiting"}}
Leaving == {l \in Calls : listener[l] = "exiting"}
Running == {p \in Calls : pc[p] \notin {"idle", "ok", "err"}}

Init ==
  /\ callers \in Disciplines
  /\ credentials \in BOOLEAN
  /\ flag = [f \in Flags |-> FALSE]
  /\ pc = [p \in Calls |-> "idle"]
  /\ op = [p \in Calls |-> "none"]
  /\ lock = None
  /\ handle = None
  /\ listener = [l \in Calls |-> "none"]
  /\ aborted = {}
  /\ client = "Disconnected"

IsLoggedIn == flag["connected"] /\ flag["logged_in"]

Goto(p, label) == pc' = [pc EXCEPT ![p] = label]
Return(p, result) == Goto(p, result) /\ lock' = None
Set(f, value) == flag' = [flag EXCEPT ![f] = value]

MayStart(p) ==
  /\ \A q \in 1..(p - 1) : pc[q] # "idle"
  /\ callers = "overlapping" => p <= MaxOverlapping
  /\ callers # "overlapping" => Running = {}
  /\ callers = "settled" => Live \cap (aborted \cup Leaving) = {}

-----------------------------------------------------------------------------
\* connect and disconnect begin with the four stores, listen with its check.
Begin(p) ==
  /\ pc[p] = "idle"
  /\ MayStart(p)
  /\ \E o \in {"connect", "disconnect", "listen"} :
       /\ op' = [op EXCEPT ![p] = o]
       /\ Goto(p, IF o # "listen" THEN "stop_requested"
                  ELSE IF flag["connected"] THEN "swap" ELSE "err")
  /\ UNCHANGED <<inputs, flag, lock, handle, listenerVars, client>>

\* (mutant) logged_in is not reset
NextStoreKeepsLoggedIn ==
  [stop_requested |-> "connected", connected |-> "listening",
   listening |-> "lock", logged_in |-> "lock"]

NextStore == [stop_requested |-> "connected", connected |-> "listening",
              listening |-> "logged_in", logged_in |-> "lock"]

\* The stores come before the mutex is asked for.
StoreFlag(p) ==
  /\ pc[p] \in Flags
  /\ Set(pc[p], pc[p] = "stop_requested" /\ op[p] = "disconnect")
  /\ Goto(p, NextStore[pc[p]])
  /\ UNCHANGED <<inputs, op, lock, handle, listenerVars, client>>

\* (mutant) the mutex is only held to take the handle
TakeHandleReleasing(p) ==
  /\ pc[p] = "lock"
  /\ op[p] # "listen"
  /\ lock = None
  /\ aborted' = aborted \cup ({handle} \ {None})
  /\ handle' = None
  /\ Goto(p, "drop_client")
  /\ UNCHANGED <<inputs, flag, op, lock, listener, client>>

\* (mutant) the handle is dropped without abort()
TakeHandleDetaching(p) ==
  /\ pc[p] = "lock"
  /\ op[p] # "listen"
  /\ lock = None
  /\ lock' = p
  /\ handle' = None
  /\ Goto(p, "drop_client")
  /\ UNCHANGED <<inputs, flag, op, listenerVars, client>>

\* With the mutex: take the JoinHandle and abort it.
TakeHandle(p) ==
  /\ pc[p] = "lock"
  /\ op[p] # "listen"
  /\ lock = None
  /\ lock' = p
  /\ aborted' = aborted \cup ({handle} \ {None})
  /\ handle' = None
  /\ Goto(p, "drop_client")
  /\ UNCHANGED <<inputs, flag, op, listener, client>>

\* client.disconnect(): the end of disconnect, an intermediate of connect.
DropClient(p) ==
  /\ pc[p] = "drop_client"
  /\ client' = "Disconnected"
  /\ IF op[p] = "disconnect" THEN Return(p, "ok")
                             ELSE Goto(p, "configure") /\ UNCHANGED lock
  /\ UNCHANGED <<inputs, flag, op, handle, listenerVars>>

\* An empty endpoint, or a real one without credentials, is an error.
Configure(p) ==
  /\ pc[p] = "configure"
  /\ \/ Return(p, "err")
     \/ Goto(p, "dial") /\ UNCHANGED lock
  /\ UNCHANGED <<inputs, flag, op, handle, listenerVars, client>>

Dial(p) ==
  /\ pc[p] = "dial"
  /\ \/ /\ Return(p, "err")
        /\ UNCHANGED client
     \/ /\ client' = "Connected"
        /\ Goto(p, IF credentials THEN "login" ELSE "publish")
        /\ UNCHANGED lock
  /\ UNCHANGED <<inputs, flag, op, handle, listenerVars>>

\* A refused login leaves the client connected.
Login(p) ==
  /\ pc[p] = "login"
  /\ \/ /\ Return(p, "err")
        /\ UNCHANGED client
     \/ /\ client' = "LoggedIn"
        /\ Goto(p, "mark_login")
        /\ UNCHANGED lock
  /\ UNCHANGED <<inputs, flag, op, handle, listenerVars>>

MarkLogin(p) ==
  /\ pc[p] = "mark_login"
  /\ Set("logged_in", TRUE)
  /\ Goto(p, "publish")
  /\ UNCHANGED <<inputs, op, lock, handle, listenerVars, client>>

Publish(p) ==
  /\ pc[p] = "publish"
  /\ Set("connected", TRUE)
  /\ Return(p, "ok")
  /\ UNCHANGED <<inputs, op, handle, listenerVars, client>>

\* listening.swap(true)
Swap(p) ==
  /\ pc[p] = "swap"
  /\ Set("listening", TRUE)
  /\ Goto(p, IF flag["listening"] THEN "err" ELSE "lock")
  /\ UNCHANGED <<inputs, op, lock, handle, listenerVars, client>>

\* spawn, and store the handle over whatever was there.
SpawnListener(p) ==
  /\ pc[p] = "lock"
  /\ op[p] = "listen"
  /\ lock = None
  /\ listener' = [listener EXCEPT ![p] = "looping"]
  /\ handle' = p
  /\ Goto(p, "ok")
  /\ UNCHANGED <<inputs, flag, op, lock, aborted, client>>

Connect(p) == Configure(p) \/ Dial(p) \/ Login(p) \/ MarkLogin(p) \/ Publish(p)
TearDown(p) == StoreFlag(p) \/ TakeHandle(p) \/ DropClient(p)
Listen(p) == Swap(p) \/ SpawnListener(p)
CallStep(p) == Connect(p) \/ TearDown(p) \/ Listen(p)

-----------------------------------------------------------------------------
\* (mutant) while !stop_requested
LoopTestStopOnly(l) ==
  /\ listener[l] = "looping"
  /\ listener' = [listener EXCEPT ![l] =
       IF ~flag["stop_requested"] THEN "receiving" ELSE "exiting"]
  /\ UNCHANGED <<inputs, flag, callVars, lock, handle, aborted, client>>

\* while connected && !stop_requested
LoopTest(l) ==
  /\ listener[l] = "looping"
  /\ listener' = [listener EXCEPT ![l] =
       IF flag["connected"] /\ ~flag["stop_requested"] THEN "receiving"
                                                       ELSE "exiting"]
  /\ UNCHANGED <<inputs, flag, callVars, lock, handle, aborted, client>>

\* receive_packet returns: a packet, nothing or an error (after the poll
\* delay) goes round the loop; a packet nobody is subscribed for ends it.
Receive(l) ==
  /\ listener[l] = "receiving"
  /\ \/ listener' = [listener EXCEPT ![l] = "looping"]
     \/ /\ client # "Disconnected"
        /\ listener' = [listener EXCEPT ![l] = "exiting"]
  /\ UNCHANGED <<inputs, flag, callVars, lock, handle, aborted, client>>

\* The Disconnected event is sent and the flag cleared.
Exit(l) ==
  /\ listener[l] = "exiting"
  /\ listener' = [listener EXCEPT ![l] = "gone"]
  /\ Set("listening", FALSE)
  /\ UNCHANGED <<inputs, callVars, lock, handle, aborted, client>>

\* abort() takes effect before the first poll or while the task awaits.
Die(l) ==
  /\ l \in aborted
  /\ listener[l] \in {"looping", "receiving"}
  /\ listener' = [listener EXCEPT ![l] = "gone"]
  /\ UNCHANGED <<inputs, flag, callVars, lock, handle, aborted, client>>

ListenerStep(l) == LoopTest(l) \/ Receive(l) \/ Exit(l)

Next == \E p \in Calls : Begin(p) \/ CallStep(p) \/ ListenerStep(p) \/ Die(p)

\* Calls under way go on (the mutex is never kept for good: the client calls
\* it is held across have timeouts), and so does every listener; an aborted
\* one is not polled for ever.
Fairness == \A p \in Calls : /\ WF_vars(CallStep(p))
                            /\ WF_vars(ListenerStep(p))
                            /\ WF_vars(Die(p))

Spec == Init /\ [][Next]_vars /\ Fairness

=============================================================================
