------------------------------ MODULE Desktop -------------------------------
(***************************************************************************)
(* DesktopRuntime of crates/desktop: a task that counts what it receives   *)
(* from an EventBus into a shared snapshot, and its owner, who starts and  *)
(* stops it.  start and stop take &mut self: there is one call at a time,  *)
(* but stop has two awaits, and may be dropped at either.                  *)
(***************************************************************************)
EXTENDS Broadcast

CONSTANTS
  Capacity,   \* capacity of the bus
  MaxEvents,  \* bound on the events published
  MaxStarts,  \* bound on the tasks started
  None        \* no task

ASSUME DesktopAssumption == /\ Capacity \in Nat \ {0}
                            /\ {MaxEvents, MaxStarts} \subseteq Nat
                            /\ None \notin 1..MaxStarts

Tasks == 1..MaxStarts

VARIABLES
  log,         \* the events the bus was sent: event n is n
  total,       \* snapshot.total_events
  last,        \* the event the rest of the snapshot is about
  counted,     \* the events it has counted (history)
  stop_tx,     \* the task whose stop_tx is stored
  join_handle, \* the task whose JoinHandle is stored
  owner,       \* where the owner stands: in stop ("send", "join"), or not
  stopping,    \* the task a stop is about
  mail,        \* the stop channel of each task, seen from its receiver
  step,        \* where each task stands
  cursor,      \* its receiver of the bus; the event it counts is before it
  faults       \* what has gone wrong so far

snapshot == <<total, last, counted>>
handles == <<stop_tx, join_handle, owner, stopping>>
desktopVars == <<log, snapshot, handles, mail, step, cursor, faults>>

DesktopInit ==
  /\ log = <<>> /\ total = 0 /\ last = 0 /\ counted = {}
  /\ stop_tx = None /\ join_handle = None /\ owner = "idle" /\ stopping = None
  /\ mail = [t \in Tasks |-> "open"]
  /\ step = [t \in Tasks |-> "unborn"]
  /\ cursor = [t \in Tasks |-> 0]
  /\ faults = {}

\* Any holder of the bus.
Publish ==
  /\ Len(log) < MaxEvents
  /\ log' = Append(log, Len(log) + 1)
  /\ UNCHANGED <<snapshot, handles, mail, step, cursor, faults>>

-----------------------------------------------------------------------------
\* start, unless there is a JoinHandle (AlreadyRunning).
StartTask(t) ==
  /\ owner = "idle" /\ join_handle = None
  /\ step[t] = "unborn" /\ \A u \in 1..(t - 1) : step[u] # "unborn"
  /\ step' = [step EXCEPT ![t] = "select"]
  /\ cursor' = [cursor EXCEPT ![t] = Subscribed(log)]
  /\ stop_tx' = t /\ join_handle' = t
  /\ UNCHANGED <<log, snapshot, owner, stopping, mail, faults>>

\* (mutant) the sender is cloned, not taken
StopTakeSenderCloned ==
  /\ owner = "idle" /\ stop_tx # None
  /\ owner' = "send" /\ stopping' = stop_tx
  /\ UNCHANGED <<log, snapshot, stop_tx, join_handle, mail, step, cursor, faults>>

\* stop, unless there is no sender (AlreadyStopped).
StopTakeSender ==
  /\ owner = "idle" /\ stop_tx # None
  /\ owner' = "send" /\ stopping' = stop_tx
  /\ stop_tx' = None
  /\ UNCHANGED <<log, snapshot, join_handle, mail, step, cursor, faults>>

\* (mutant) the JoinHandle is dropped instead of awaited
StopSendDetached ==
  /\ owner = "send"
  /\ IF step[stopping] = "gone"
       THEN mail' = [mail EXCEPT ![stopping] = "closed"] /\ UNCHANGED join_handle
       ELSE mail' = [mail EXCEPT ![stopping] = "stop"] /\ join_handle' = None
  /\ owner' = "idle" /\ stopping' = None
  /\ UNCHANGED <<log, snapshot, stop_tx, step, cursor, faults>>

\* The channel has room for the one message.  Without its receiver this is
\* ControlClosed, and the JoinHandle stays.
StopSend ==
  /\ owner = "send"
  /\ IF step[stopping] = "gone"
       THEN /\ mail' = [mail EXCEPT ![stopping] = "closed"]
            /\ owner' = "idle" /\ stopping' = None
            /\ UNCHANGED join_handle
       ELSE /\ mail' = [mail EXCEPT ![stopping] = "stop"]
            /\ owner' = "join" /\ join_handle' = None
            /\ UNCHANGED stopping
  /\ UNCHANGED <<log, snapshot, stop_tx, step, cursor, faults>>

StopJoin ==
  /\ owner = "join" /\ step[stopping] = "gone"
  /\ owner' = "idle" /\ stopping' = None
  /\ UNCHANGED <<log, snapshot, stop_tx, join_handle, mail, step, cursor, faults>>

\* The stop is dropped at an await, and its sender or JoinHandle with it.
CancelStop ==
  /\ owner \in {"send", "join"}
  /\ mail' = IF owner = "send" THEN [mail EXCEPT ![stopping] = "closed"] ELSE mail
  /\ owner' = "idle" /\ stopping' = None
  /\ faults' = faults \cup {"cancelled"}
  /\ UNCHANGED <<log, snapshot, stop_tx, join_handle, step, cursor>>

\* The DesktopRuntime is dropped, its task is not.
DropRuntime ==
  /\ owner = "idle"
  /\ owner' = "dropped" /\ stop_tx' = None /\ join_handle' = None
  /\ mail' = IF stop_tx = None THEN mail ELSE [mail EXCEPT ![stop_tx] = "closed"]
  /\ UNCHANGED <<log, snapshot, stopping, step, cursor, faults>>

-----------------------------------------------------------------------------
\* select!: an event; those that were overwritten are skipped without a trace.
Receive(t) ==
  /\ step[t] = "select" /\ HasNext(log, cursor[t])
  /\ IF HasLagged(log, cursor[t], Capacity)
       THEN /\ cursor' = [cursor EXCEPT ![t] = Len(log) + 1 - Capacity]
            /\ UNCHANGED step
       ELSE /\ cursor' = [cursor EXCEPT ![t] = @ + 1]
            /\ step' = [step EXCEPT ![t] = "count"]
  /\ UNCHANGED <<log, snapshot, handles, mail, faults>>

\* With the snapshot's lock.
Count(t) ==
  /\ step[t] = "count"
  /\ total' = total + 1
  /\ last' = log[cursor[t] - 1]
  /\ counted' = counted \cup {last'}
  /\ step' = [step EXCEPT ![t] = "select"]
  /\ UNCHANGED <<log, handles, mail, cursor, faults>>

\* (mutant) only a message ends the loop, not a dropped sender
BreakOnMessage(t) ==
  /\ step[t] = "select" /\ mail[t] = "stop"
  /\ step' = [step EXCEPT ![t] = "gone"]
  /\ UNCHANGED <<log, snapshot, handles, mail, cursor, faults>>

\* select!: the stop message, or the end of its channel.
Break(t) ==
  /\ step[t] = "select" /\ mail[t] # "open"
  /\ step' = [step EXCEPT ![t] = "gone"]
  /\ UNCHANGED <<log, snapshot, handles, mail, cursor, faults>>

\* The executor the task was spawned on shuts down, and drops it.
Kill(t) ==
  /\ step[t] \in {"select", "count"}
  /\ step' = [step EXCEPT ![t] = "gone"]
  /\ faults' = faults \cup {"killed"}
  /\ UNCHANGED <<log, snapshot, handles, mail, cursor>>

Owner == StopTakeSender \/ StopSend \/ StopJoin \/ CancelStop \/ DropRuntime

DesktopNext ==
  \/ Publish \/ Owner
  \/ \E t \in Tasks : StartTask(t) \/ Receive(t) \/ Count(t) \/ Break(t) \/ Kill(t)

\* A stop goes on; select! takes a branch that stays ready sooner or later,
\* also beside another that is ready each time.
DesktopFairness ==
  /\ WF_desktopVars(StopSend) /\ WF_desktopVars(StopJoin)
  /\ \A t \in Tasks : WF_desktopVars(Count(t)) /\ SF_desktopVars(Break(t))

DesktopSpec == DesktopInit /\ [][DesktopNext]_desktopVars /\ DesktopFairness

=============================================================================
