--------------------------- MODULE OneBotBackend ----------------------------
(***************************************************************************)
(* OneBotHttpBackend of crates/protocol: connect, disconnect, listen and   *)
(* the long-poll task listen spawns.  Nothing ever aborts that task: it    *)
(* ends when it sees the flags, after the HTTP request it is in.  Calls    *)
(* are numbered in the order they are made; a listen call's task is named  *)
(* after it.                                                               *)
(***************************************************************************)
EXTENDS Naturals

CONSTANTS
  MaxCalls,        \* bound on the calls of connect, disconnect and listen
  MaxOverlapping,  \* bound on them when they may overlap
  None             \* no listener

ASSUME OneBotAssumption == /\ {MaxCalls, MaxOverlapping} \subseteq Nat
                           /\ None \notin 1..MaxCalls

Calls == 1..MaxCalls

\* How the callers behave: any number of calls at a time, one at a time, or
\* one at a time and none while a listener outlives its connection.
Disciplines == {"overlapping", "serial", "settled"}

VARIABLES
  callers,   \* the callers' discipline (never changes)
  flag,      \* the three AtomicBools
  pc,        \* where each call stands
  op,        \* which operation the call is
  listener   \* where each listener task stands

vars == <<callers, flag, pc, op, listener>>

Flags == {"connected", "stop_requested", "listening"}
Live == {l \in Calls : listener[l] \in {"looping", "polling", "exiting"}}
Running == {p \in Calls : pc[p] \notin {"idle", "ok", "err"}}

Init ==
  /\ callers \in Disciplines
  /\ flag = [f \in Flags |-> FALSE]
  /\ pc = [p \in Calls |-> "idle"]
  /\ op = [p \in Calls |-> "none"]
  /\ listener = [l \in Calls |-> "none"]

Goto(p, label) == pc' = [pc EXCEPT ![p] = label]
Set(f, value) == flag' = [flag EXCEPT ![f] = value]

MayStart(p) ==
  /\ \A q \in 1..(p - 1) : pc[q] # "idle"
  /\ callers = "overlapping" => p <= MaxOverlapping
  /\ callers # "overlapping" => Running = {}
  /\ callers = "settled" => flag["connected"] \/ Live = {}

-----------------------------------------------------------------------------
\* (mutant) listen does not look at connected
BeginUnchecked(p) ==
  /\ pc[p] = "idle"
  /\ MayStart(p)
  /\ \E o \in {"connect", "disconnect", "listen"} :
       /\ op' = [op EXCEPT ![p] = o]
       /\ Goto(p, CASE o = "connect"    -> "get_status"
                    [] o = "disconnect" -> "connected"
                    [] o = "listen"     -> "swap")
  /\ UNCHANGED <<callers, flag, listener>>

Begin(p) ==
  /\ pc[p] = "idle"
  /\ MayStart(p)
  /\ \E o \in {"connect", "disconnect", "listen"} :
       /\ op' = [op EXCEPT ![p] = o]
       /\ Goto(p, CASE o = "connect"    -> "get_status"
                    [] o = "disconnect" -> "connected"
                    [] o = "listen"     -> IF flag["connected"] THEN "swap"
                                                                ELSE "err")
  /\ UNCHANGED <<callers, flag, listener>>

\* A bad endpoint or a failed status request changes nothing; a status that
\* is not online is a success.
GetStatus(p) ==
  /\ pc[p] = "get_status"
  /\ \E next \in {"connected", "err"} : Goto(p, next)
  /\ UNCHANGED <<callers, flag, op, listener>>

\* (mutant) connect leaves an old stop request standing
StoreFlagKeepsStop(p) ==
  /\ pc[p] \in Flags
  /\ IF pc[p] = "stop_requested" /\ op[p] = "connect"
       THEN UNCHANGED flag
       ELSE Set(pc[p], (pc[p] = "connected") <=> (op[p] = "connect"))
  /\ Goto(p, CASE pc[p] = "connected" -> "stop_requested"
               [] pc[p] = "stop_requested" /\ op[p] = "disconnect" -> "clear"
               [] OTHER -> "ok")
  /\ UNCHANGED <<callers, op, listener>>

\* (mutant) connect clears listening, as disconnect does
StoreFlagAlwaysClears(p) ==
  /\ pc[p] \in Flags
  /\ Set(pc[p], (pc[p] = "connected") <=> (op[p] = "connect"))
  /\ Goto(p, IF pc[p] = "connected" THEN "stop_requested" ELSE "clear")
  /\ UNCHANGED <<callers, op, listener>>

\* connect stores connected, stop_requested; disconnect also listening.
StoreFlag(p) ==
  /\ pc[p] \in Flags
  /\ Set(pc[p], (pc[p] = "connected") <=> (op[p] = "connect"))
  /\ Goto(p, CASE pc[p] = "connected" -> "stop_requested"
               [] pc[p] = "stop_requested" /\ op[p] = "disconnect" -> "clear"
               [] OTHER -> "ok")
  /\ UNCHANGED <<callers, op, listener>>

ClearListening(p) ==
  /\ pc[p] = "clear"
  /\ Set("listening", FALSE)
  /\ Goto(p, "ok")
  /\ UNCHANGED <<callers, op, listener>>

Swap(p) ==
  /\ pc[p] = "swap"
  /\ Set("listening", TRUE)
  /\ Goto(p, IF flag["listening"] THEN "err" ELSE "spawn")
  /\ UNCHANGED <<callers, op, listener>>

SpawnListener(p) ==
  /\ pc[p] = "spawn"
  /\ listener' = [listener EXCEPT ![p] = "looping"]
  /\ Goto(p, "ok")
  /\ UNCHANGED <<callers, flag, op>>

CallStep(p) == GetStatus(p) \/ StoreFlag(p) \/ ClearListening(p) \/ Swap(p)
                 \/ SpawnListener(p)

-----------------------------------------------------------------------------
\* (mutant) while !stop_requested
LoopTestStopOnly(l) ==
  /\ listener[l] = "looping"
  /\ listener' = [listener EXCEPT ![l] =
       IF ~flag["stop_requested"] THEN "polling" ELSE "exiting"]
  /\ UNCHANGED <<callers, flag, pc, op>>

LoopTest(l) ==
  /\ listener[l] = "looping"
  /\ listener' = [listener EXCEPT ![l] =
       IF flag["connected"] /\ ~flag["stop_requested"] THEN "polling"
                                                       ELSE "exiting"]
  /\ UNCHANGED <<callers, flag, pc, op>>

\* The request returns.  Whatever it brings, and also when nobody subscribes
\* to the events, the loop goes on.
Poll(l) ==
  /\ listener[l] = "polling"
  /\ listener' = [listener EXCEPT ![l] = "looping"]
  /\ UNCHANGED <<callers, flag, pc, op>>

Exit(l) ==
  /\ listener[l] = "exiting"
  /\ listener' = [listener EXCEPT ![l] = "gone"]
  /\ Set("listening", FALSE)
  /\ UNCHANGED <<callers, pc, op>>

ListenerStep(l) == LoopTest(l) \/ Poll(l) \/ Exit(l)

Next == \E p \in Calls : Begin(p) \/ CallStep(p) \/ ListenerStep(p)

\* The tasks are scheduled, but nothing makes the server answer a poll: the
\* request has a connect timeout and no other.
Fairness ==
  \A p \in Calls : WF_vars(CallStep(p)) /\ WF_vars(LoopTest(p)) /\ WF_vars(Exit(p))

Spec == Init /\ [][Next]_vars /\ Fairness

=============================================================================
