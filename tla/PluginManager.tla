--------------------------- MODULE PluginManager ----------------------------
(***************************************************************************)
(* PluginManager of crates/plugin and the handlers of /plugin/...: load,   *)
(* unload, dispatch and the reads of the registry behind one RwLock.  The  *)
(* lock is tokio's: first come, first served, so a waiting writer holds    *)
(* back the readers behind it.  Only dispatch keeps it across awaits; the  *)
(* others' critical sections are a single step.  Calls are numbered in the *)
(* order they are made; a load call p makes the plugin instance p.         *)
(***************************************************************************)
EXTENDS Naturals, Sequences

CONSTANTS
  MaxCalls,  \* bound on the calls
  Names,     \* plugin names
  None,      \* no instance
  Kind,      \* load call -> the runtime of its instance
  Failing    \* load calls whose instance may fail (load, event, unload)

Calls == 1..MaxCalls

ASSUME PluginAssumption ==
  /\ MaxCalls \in Nat
  /\ None \notin Calls
  /\ Kind \in [Calls -> {"rust", "wasm", "http"}]
  /\ Failing \subseteq Calls

VARIABLES
  loads,      \* whether loads are made "overlapping" or "one_at_a_time"
              \* (never changes)
  registry,   \* name -> instance
  instance,   \* what each instance has been through
  pc, op,     \* where each call stands, and what it does
  nameOf,     \* the name it loads or unloads
  victim,     \* the instance an unload call took out
  queue,      \* calls waiting for the lock, in order of arrival
  readers,    \* dispatch calls holding it
  todo,       \* names a dispatch has still to call
  reached     \* instances a dispatch has got an answer from

lockVars == <<queue, readers>>
dispatchVars == <<todo, reached>>
vars == <<loads, registry, instance, pc, op, nameOf, victim, lockVars,
          dispatchVars>>

\* (mutant) every name ever known
RegisteredAll == Names

Registered == {n \in Names : registry[n] # None}

Init ==
  /\ loads \in {"overlapping", "one_at_a_time"}
  /\ registry = [n \in Names |-> None]
  /\ instance = [p \in Calls |-> "none"]
  /\ pc = [p \in Calls |-> "idle"]
  /\ op = [p \in Calls |-> "none"]
  /\ nameOf = [p \in Calls |-> None]
  /\ victim = [p \in Calls |-> None]
  /\ queue = <<>>
  /\ readers = {}
  /\ todo = [p \in Calls |-> {}]
  /\ reached = [p \in Calls |-> {}]

Goto(p, label) == pc' = [pc EXCEPT ![p] = label]
Wait(p, label) == Goto(p, label) /\ queue' = Append(queue, p)

\* p gives up its place in the queue, if it has one.
LeaveQueue(p) ==
  IF \A i \in DOMAIN queue : queue[i] # p THEN UNCHANGED queue
  ELSE \E i \in DOMAIN queue :
         /\ queue[i] = p
         /\ queue' = SubSeq(queue, 1, i - 1) \o SubSeq(queue, i + 1, Len(queue))

\* The lock is p's: to read, or to write.
MayRead(p)  == queue # <<>> /\ Head(queue) = p
MayWrite(p) == MayRead(p) /\ readers = {}

-----------------------------------------------------------------------------
\* A definition: its runtime, what its path or endpoint is, and its timeout.
Definitions ==
  [kind : {"rust", "wasm", "http"},
   source : {"missing", "directory", "file", "executable", "module", "http",
             "file url", "no url"},
   timeout_ms : {9, 10, 60000, 60001}]

\* backend_from_definition: validate_plugin_path and each runtime's own
\* validate_path, or validate_http_endpoint, and validate_timeout.
Validates(d) ==
  /\ d.source \in CASE d.kind = "rust" -> {"executable"}
                    [] d.kind = "wasm" -> {"module"}
                    [] d.kind = "http" -> {"http"}
  /\ d.timeout_ms \in 10..60000

Validations == {Validates(d) : d \in Definitions}

\* PluginAction::from_stdout_bytes; no output is no action, and no error.
FromStdout == [bytes \in {"not utf-8", "blank", "an action", "other json"} |->
                 IF bytes \in {"blank", "an action"} THEN "ok" ELSE "err"]

\* run_plugin of a Rust plugin: no process, a write it does not take, no end
\* within the timeout (the child is left running), an exit code.  The event is
\* written before the timeout starts: a plugin that does not read one that is
\* larger than the pipe is waited for without end.
RustPlugin(phase) ==
  {"err"} \cup {FromStdout[b] : b \in DOMAIN FromStdout}
    \cup (IF phase = "event" THEN {"stalled"} ELSE {})

\* run_plugin of a Wasm plugin: all of wasmtime's run is within the timeout.
WasmPlugin(phase) == {"err"} \cup {FromStdout[b] : b \in DOMAIN FromStdout}

\* request of an HTTP plugin: the client's timeout covers the whole exchange.
HttpPlugin(phase) == {"err"} \cup {FromStdout[b] : b \in DOMAIN FromStdout}

\* (mutant) a plugin that does not answer is waited for without a timeout
AnswersOrHangs(i, phase) == IF i \in Failing THEN {} ELSE {"ok"}

\* The result of asking instance i to load, unload or handle an event.
Answers(i, phase) ==
  IF i \notin Failing THEN {"ok"}
  ELSE CASE Kind[i] = "rust" -> RustPlugin(phase)
         [] Kind[i] = "wasm" -> WasmPlugin(phase)
         [] Kind[i] = "http" -> HttpPlugin(phase)

-----------------------------------------------------------------------------
\* Loads still going on, of any name.
Loading == {p \in Calls : pc[p] \in {"check", "load", "insert"}}

\* load: an empty name or a disabled plugin is refused at once.
BeginLoad(p, n) ==
  /\ loads = "one_at_a_time" => Loading = {}
  /\ op' = [op EXCEPT ![p] = "load"]
  /\ \/ Wait(p, "check") /\ nameOf' = [nameOf EXCEPT ![p] = n]
     \/ Goto(p, "err") /\ UNCHANGED <<queue, nameOf>>

BeginUnload(p, n) ==
  /\ op' = [op EXCEPT ![p] = "unload"]
  /\ nameOf' = [nameOf EXCEPT ![p] = n]
  /\ Wait(p, "remove")

BeginDispatch(p) ==
  /\ op' = [op EXCEPT ![p] = "dispatch"]
  /\ Wait(p, "snapshot")
  /\ UNCHANGED nameOf

\* list and kinds, which read the whole registry, and metadata.
BeginRead(p) ==
  /\ op' = [op EXCEPT ![p] = "read"]
  /\ Wait(p, "read")
  /\ UNCHANGED nameOf

Begin(p) ==
  /\ pc[p] = "idle"
  /\ \A q \in 1..(p - 1) : pc[q] # "idle"
  /\ \/ BeginDispatch(p) \/ BeginRead(p)
     \/ \E n \in Names : BeginLoad(p, n) \/ BeginUnload(p, n)
  /\ UNCHANGED <<loads, registry, instance, victim, readers, dispatchVars>>

\* contains_key under the read lock, which is dropped again; then the
\* definition's validation.
LoadCheck(p) ==
  /\ pc[p] = "check"
  /\ MayRead(p)
  /\ queue' = Tail(queue)
  /\ \E valid \in Validations :
       IF valid /\ registry[nameOf[p]] = None
         THEN /\ Goto(p, "load")
              /\ instance' = [instance EXCEPT ![p] = "loading"]
         ELSE Goto(p, "err") /\ UNCHANGED instance
  /\ UNCHANGED <<loads, registry, op, nameOf, victim, readers, dispatchVars>>

\* backend.load(), then wait to write.
LoadBackend(p) ==
  /\ pc[p] = "load"
  /\ \E answer \in Answers(p, "load") :
       IF answer = "ok"
         THEN Wait(p, "insert") /\ UNCHANGED instance
         ELSE /\ Goto(p, "err")
              /\ instance' = [instance EXCEPT ![p] = "failed"]
              /\ UNCHANGED queue
  /\ UNCHANGED <<loads, registry, op, nameOf, victim, readers, dispatchVars>>

\* (mutant) entry(name).or_insert(backend)
LoadInsertIfVacant(p) ==
  /\ pc[p] = "insert"
  /\ MayWrite(p)
  /\ queue' = Tail(queue)
  /\ registry' = [registry EXCEPT ![nameOf[p]] = IF @ = None THEN p ELSE @]
  /\ instance' = [instance EXCEPT ![p] = "active"]
  /\ Goto(p, "ok")
  /\ UNCHANGED <<loads, op, nameOf, victim, readers, dispatchVars>>

\* HashMap::insert: an instance already there is dropped, not unloaded.
LoadInsert(p) ==
  /\ pc[p] = "insert"
  /\ MayWrite(p)
  /\ queue' = Tail(queue)
  /\ registry' = [registry EXCEPT ![nameOf[p]] = p]
  /\ instance' = [i \in Calls |-> IF i = p THEN "active"
                                  ELSE IF i = registry[nameOf[p]] THEN "dropped"
                                  ELSE instance[i]]
  /\ Goto(p, "ok")
  /\ UNCHANGED <<loads, op, nameOf, victim, readers, dispatchVars>>

Remove(p) ==
  /\ pc[p] = "remove"
  /\ MayWrite(p)
  /\ queue' = Tail(queue)
  /\ registry' = [registry EXCEPT ![nameOf[p]] = None]
  /\ victim' = [victim EXCEPT ![p] = registry[nameOf[p]]]
  /\ IF victim'[p] = None
       THEN Goto(p, "err") /\ UNCHANGED instance
       ELSE /\ Goto(p, "unload")
            /\ instance' = [instance EXCEPT ![victim'[p]] = "unloading"]
  /\ UNCHANGED <<loads, op, nameOf, readers, dispatchVars>>

\* plugin.unload(), without the lock; when it fails the plugin is gone too.
UnloadBackend(p) ==
  /\ pc[p] = "unload"
  /\ \E answer \in Answers(victim[p], "unload") : Goto(p, answer)
  /\ instance' = [instance EXCEPT ![victim[p]] = "unloaded"]
  /\ UNCHANGED <<loads, registry, op, nameOf, victim, lockVars, dispatchVars>>

-----------------------------------------------------------------------------
\* (mutant) the read lock is dropped again, as load does
SnapshotReleasing(p) ==
  /\ pc[p] = "snapshot"
  /\ MayRead(p)
  /\ queue' = Tail(queue)
  /\ todo' = [todo EXCEPT ![p] = Registered]
  /\ Goto(p, "calling")
  /\ UNCHANGED <<loads, registry, instance, op, nameOf, victim, readers,
                 reached>>

\* The read lock is taken and kept until the dispatch is over.
Snapshot(p) ==
  /\ pc[p] = "snapshot"
  /\ MayRead(p)
  /\ queue' = Tail(queue)
  /\ readers' = readers \cup {p}
  /\ todo' = [todo EXCEPT ![p] = Registered]
  /\ Goto(p, "calling")
  /\ UNCHANGED <<loads, registry, instance, op, nameOf, victim, reached>>

\* The plugins are called one after the other, in HashMap order; the first
\* error ends the whole dispatch.
CallPlugin(p, n) ==
  /\ pc[p] = "calling"
  /\ n \in todo[p]
  /\ \E answer \in Answers(registry[n], "event") :
       CASE answer = "ok" ->
              /\ todo' = [todo EXCEPT ![p] = @ \ {n}]
              /\ reached' = [reached EXCEPT ![p] = @ \cup {registry[n]}]
              /\ UNCHANGED <<pc, readers>>
         [] answer = "err" ->
              /\ Goto(p, "err")
              /\ readers' = readers \ {p}
              /\ UNCHANGED dispatchVars
         [] answer = "stalled" ->
              Goto(p, "stalled") /\ UNCHANGED <<readers, dispatchVars>>
  /\ UNCHANGED <<loads, registry, instance, op, nameOf, victim, queue>>

DispatchDone(p) ==
  /\ pc[p] = "calling"
  /\ todo[p] = {}
  /\ Goto(p, "ok")
  /\ readers' = readers \ {p}
  /\ UNCHANGED <<loads, registry, instance, op, nameOf, victim, queue,
                 dispatchVars>>

\* The whole registry, or one entry; metadata of a name not there is refused.
Read(p) ==
  /\ pc[p] = "read"
  /\ MayRead(p)
  /\ queue' = Tail(queue)
  /\ \/ Goto(p, "ok")
     \/ (\E n \in Names : registry[n] = None) /\ Goto(p, "err")
  /\ UNCHANGED <<loads, registry, instance, op, nameOf, victim, readers,
                 dispatchVars>>

\* The HTTP client leaves: its load or unload is dropped at an await, wherever
\* the plugin stands then, and so is its place in the lock's queue.
CallDropped(p) ==
  /\ pc[p] \in {"check", "load", "insert", "remove", "unload"}
  /\ Goto(p, "dropped")
  /\ LeaveQueue(p)
  /\ instance' = [i \in Calls |-> IF i \in {p, victim[p]} /\ instance[i] # "none"
                                  THEN "abandoned" ELSE instance[i]]
  /\ UNCHANGED <<loads, registry, op, nameOf, victim, readers, dispatchVars>>

CallStep(p) ==
  \/ LoadCheck(p) \/ LoadBackend(p) \/ LoadInsert(p)
  \/ Remove(p) \/ UnloadBackend(p)
  \/ Snapshot(p) \/ DispatchDone(p) \/ (\E n \in Names : CallPlugin(p, n))
  \/ Read(p)

Next == \E p \in Calls : Begin(p) \/ CallStep(p) \/ CallDropped(p)

\* Calls under way go on: each call of a plugin ends by its timeout, but for a
\* write that stalls.
Fairness == \A p \in Calls : WF_vars(CallStep(p))

Spec == Init /\ [][Next]_vars /\ Fairness

=============================================================================
