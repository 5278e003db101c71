------------------------------ MODULE Runtime ------------------------------
(***************************************************************************)
(* The service container of crates/core: Runtime::start, register_service  *)
(* / spawn_task and shutdown, at the grain at which other tokio tasks can  *)
(* run between two of their steps (every lock release and every await).    *)
(*                                                                         *)
(* A registration call c brings its own task, also named c: the code       *)
(* spawns it before it looks the name up, so a refused call has a task    *)
(* too.  A receiver of shutdown_tx lives exactly as long as the task it    *)
(* was moved into.  Calls are numbered in the order they are made.         *)
(***************************************************************************)
EXTENDS Naturals

CONSTANTS
  Names,      \* service and task names
  MaxCalls,   \* bound on the calls of register_service / spawn_task
  MaxStops,   \* bound on the calls of shutdown
  MaxOverlapping, \* bound on the registrations when calls may overlap
  NoTask,     \* "the map has no entry under this name"
  Obedient,   \* tasks that return once they receive the shutdown signal
  Panicky     \* tasks that may panic

Calls == 1..MaxCalls     \* each owns a task
Stoppers == 1..MaxStops

ASSUME RuntimeAssumption ==
  /\ {MaxCalls, MaxStops, MaxOverlapping} \subseteq Nat
  /\ NoTask \notin Calls
  /\ Obedient \subseteq Calls
  /\ Panicky \subseteq Calls

\* How the callers behave: any number of calls at a time, or one that awaits
\* each call before the next, as the tests and benches do.
Disciplines == {"overlapping", "serial"}

VARIABLES
  callers,    \* the callers' discipline (never changes)
  state,      \* Runtime.state
  tasks,      \* Runtime.tasks: name -> owner of the JoinHandle
  reg,        \* where each registration call stands
  nameOf,     \* the name it registers (never changes)
  timers,     \* may shutdown_timeout elapse before a task returns (never
              \* changes)
  task,       \* what its task is doing
  signalled,  \* tasks whose receiver holds a shutdown message
  stop,       \* where each shutdown call stands
  drained,    \* handles the shutdown call took out of the map
  joined,     \* handles it has counted in `stopped`
  expired     \* handles whose timeout wrapper has elapsed

inputs == <<callers, nameOf, timers>>
callVars == <<reg, inputs>>
taskVars == <<task, signalled>>
stopVars == <<stop, drained, joined, expired>>
vars == <<state, tasks, callVars, taskVars, stopVars>>

Receivers == {c \in Calls : task[c] = "running"}
\* (mutant) the entries of the map without looking whether there is one
ManagedUnfiltered == {tasks[n] : n \in Names}

Managed   == {tasks[n] : n \in Names} \ {NoTask}
\* (mutant) a handle that timed out is no longer waited for
PendingIgnoringTimeout(s) == (drained[s] \ joined[s]) \ expired[s]

Pending(s) == drained[s] \ joined[s]

Init ==
  /\ callers \in Disciplines
  /\ state = "Initialized"
  /\ tasks = [n \in Names |-> NoTask]
  /\ reg = [c \in Calls |-> "idle"]
  /\ nameOf \in [Calls -> Names]
  /\ timers \in BOOLEAN
  /\ task = [c \in Calls |-> "none"]
  /\ signalled = {}
  /\ stop = [s \in Stoppers |-> "idle"]
  /\ drained = [s \in Stoppers |-> {}]
  /\ joined = [s \in Stoppers |-> {}]
  /\ expired = [s \in Stoppers |-> {}]

InCall == {c \in Calls : reg[c] \in {"checked", "spawned"}}
InStop == {s \in Stoppers :
             stop[s] \in {"counting", "sending", "draining", "joining"}}
MayBegin == callers = "serial" => InCall = {} /\ InStop = {}

-----------------------------------------------------------------------------
\* start(): a failing call changes nothing and is left out.
Start ==
  /\ MayBegin
  /\ state \in {"Initialized", "Stopped"}
  /\ state' = "Running"
  /\ UNCHANGED <<tasks, callVars, taskVars, stopVars>>

\* register_service / spawn_task, first lock region: the state is read and
\* the lock is dropped again.
RegisterCheck(c) ==
  /\ reg[c] = "idle"
  /\ \A d \in 1..(c - 1) : reg[d] # "idle"
  /\ callers = "overlapping" => c <= MaxOverlapping
  /\ MayBegin
  /\ reg' = [reg EXCEPT ![c] = IF state = "Running" THEN "checked"
                                                    ELSE "rejected"]
  /\ UNCHANGED <<state, tasks, inputs, taskVars, stopVars>>

\* subscribe and tokio::spawn: the task runs from here on.
RegisterSpawn(c) ==
  /\ reg[c] = "checked"
  /\ reg' = [reg EXCEPT ![c] = "spawned"]
  /\ task' = [task EXCEPT ![c] = "running"]
  /\ UNCHANGED <<state, tasks, inputs, signalled, stopVars>>

\* (mutant) the name is inserted without looking for an older entry
RegisterInsertUnchecked(c) ==
  /\ reg[c] = "spawned"
  /\ tasks' = [tasks EXCEPT ![nameOf[c]] = c]
  /\ reg' = [reg EXCEPT ![c] = "ok"]
  /\ UNCHANGED <<state, inputs, taskVars, stopVars>>

\* Second lock region: a name already present makes the call fail and drops
\* the handle, which detaches the task without stopping it.
RegisterInsert(c) ==
  /\ reg[c] = "spawned"
  /\ IF tasks[nameOf[c]] = NoTask
       THEN /\ tasks' = [tasks EXCEPT ![nameOf[c]] = c]
            /\ reg' = [reg EXCEPT ![c] = "ok"]
       ELSE /\ reg' = [reg EXCEPT ![c] = "duplicate"]
            /\ UNCHANGED tasks
  /\ UNCHANGED <<state, inputs, taskVars, stopVars>>

Register(c) == RegisterCheck(c) \/ RegisterSpawn(c) \/ RegisterInsert(c)

-----------------------------------------------------------------------------
\* shutdown(), under the state lock.
ShutdownEnter(s) ==
  /\ stop[s] = "idle"
  /\ \A t \in 1..(s - 1) : stop[t] # "idle"
  /\ MayBegin
  /\ \/ /\ state = "Stopped"
        /\ stop' = [stop EXCEPT ![s] = "ok"]
        /\ UNCHANGED state
     \/ /\ state = "Initialized"
        /\ stop' = [stop EXCEPT ![s] = "err"]
        /\ UNCHANGED state
     \/ /\ state \in {"Running", "Stopping"}
        /\ state' = "Stopping"
        /\ stop' = [stop EXCEPT ![s] = "counting"]
  /\ UNCHANGED <<tasks, callVars, taskVars, drained, joined, expired>>

\* shutdown_tx.receiver_count() > 0, with no lock held.
ShutdownCount(s) ==
  /\ stop[s] = "counting"
  /\ stop' = [stop EXCEPT ![s] = IF Receivers # {} THEN "sending"
                                                  ELSE "draining"]
  /\ UNCHANGED <<state, tasks, callVars, taskVars, drained, joined, expired>>

\* (mutant) the signal is sent to nobody
ShutdownSendLost(s) ==
  /\ stop[s] = "sending"
  /\ stop' = [stop EXCEPT ![s] = IF Receivers # {} THEN "draining" ELSE "err"]
  /\ UNCHANGED <<state, tasks, callVars, taskVars, drained, joined, expired>>

\* shutdown_tx.send(()) fails when the last receiver went away after the
\* count; the call then returns with the state left at Stopping.
ShutdownSend(s) ==
  /\ stop[s] = "sending"
  /\ signalled' = signalled \cup Receivers
  /\ stop' = [stop EXCEPT ![s] = IF Receivers # {} THEN "draining" ELSE "err"]
  /\ UNCHANGED <<state, tasks, callVars, task, drained, joined, expired>>

\* mem::take of the task map; every handle goes to a wrapper in the JoinSet.
ShutdownDrain(s) ==
  /\ stop[s] = "draining"
  /\ drained' = [drained EXCEPT ![s] = Managed]
  /\ tasks' = [n \in Names |-> NoTask]
  /\ stop' = [stop EXCEPT ![s] = "joining"]
  /\ UNCHANGED <<state, callVars, taskVars, joined, expired>>

\* The timeout wrapper of handle c elapses while c still runs.
WrapperExpire(s, c) ==
  /\ timers
  /\ stop[s] = "joining"
  /\ c \in Pending(s) \ expired[s]
  /\ task[c] = "running"
  /\ expired' = [expired EXCEPT ![s] = @ \cup {c}]
  /\ UNCHANGED <<state, tasks, callVars, taskVars, stop, drained, joined>>

\* (mutant) a JoinError counts as a stopped task
ShutdownJoinAnyResult(s, c) ==
  /\ stop[s] = "joining"
  /\ c \in Pending(s) \ expired[s]
  /\ task[c] # "running"
  /\ joined' = [joined EXCEPT ![s] = @ \cup {c}]
  /\ UNCHANGED <<state, tasks, callVars, taskVars, stop, drained, expired>>

\* join_next yields a handle whose task returned in time.
ShutdownJoin(s, c) ==
  /\ stop[s] = "joining"
  /\ c \in Pending(s) \ expired[s]
  /\ task[c] = "returned"
  /\ joined' = [joined EXCEPT ![s] = @ \cup {c}]
  /\ UNCHANGED <<state, tasks, callVars, taskVars, stop, drained, expired>>

\* join_next yields a timeout or a JoinError: the `??` returns at once, with
\* the state left at Stopping and the other handles dropped.
ShutdownFail(s, c) ==
  /\ stop[s] = "joining"
  /\ c \in Pending(s)
  /\ c \in expired[s] \/ task[c] = "panicked"
  /\ stop' = [stop EXCEPT ![s] = "err"]
  /\ UNCHANGED <<state, tasks, callVars, taskVars, drained, joined, expired>>

\* The JoinSet is empty: Stopped is written whatever the state is by now.
ShutdownFinish(s) ==
  /\ stop[s] = "joining"
  /\ Pending(s) = {}
  /\ state' = "Stopped"
  /\ stop' = [stop EXCEPT ![s] = "ok"]
  /\ UNCHANGED <<tasks, callVars, taskVars, drained, joined, expired>>

ShutdownStep(s) ==
  \/ ShutdownEnter(s)
  \/ ShutdownCount(s)
  \/ ShutdownSend(s)
  \/ ShutdownDrain(s)
  \/ ShutdownFinish(s)
  \/ \E c \in Calls : ShutdownJoin(s, c) \/ ShutdownFail(s, c)

-----------------------------------------------------------------------------
\* The task's own code: it may return or panic at any time, and an obedient
\* one does return after the signal (see Fairness).
TaskReturn(c) ==
  /\ task[c] = "running"
  /\ task' = [task EXCEPT ![c] = "returned"]
  /\ UNCHANGED <<state, tasks, callVars, signalled, stopVars>>

TaskPanic(c) ==
  /\ c \in Panicky
  /\ task[c] = "running"
  /\ task' = [task EXCEPT ![c] = "panicked"]
  /\ UNCHANGED <<state, tasks, callVars, signalled, stopVars>>

Next ==
  \/ Start
  \/ \E c \in Calls : Register(c) \/ TaskReturn(c) \/ TaskPanic(c)
  \/ \E s \in Stoppers :
       ShutdownStep(s) \/ \E c \in Calls : WrapperExpire(s, c)

\* A call that was made keeps running, timers fire, and a signalled obedient
\* task returns.  Whether a call is made, and whether any other task ever
\* returns, is left open.
Fairness ==
  /\ \A c \in Calls :
       /\ WF_vars(RegisterSpawn(c) \/ RegisterInsert(c))
       /\ WF_vars(c \in Obedient \cap signalled /\ TaskReturn(c))
  /\ \A s \in Stoppers :
       /\ WF_vars(stop[s] # "idle" /\ ShutdownStep(s))
       /\ \A c \in Calls : WF_vars(WrapperExpire(s, c))

Spec == Init /\ [][Next]_vars /\ Fairness

=============================================================================
