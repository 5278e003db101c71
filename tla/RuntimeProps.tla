---------------------------- MODULE RuntimeProps ----------------------------
(***************************************************************************)
(* What the runtime promises.                                              *)
(***************************************************************************)
EXTENDS Runtime

\* Every variable has its type.
TypeOK ==
  /\ callers \in Disciplines
  /\ state \in {"Initialized", "Running", "Stopping", "Stopped"}
  /\ tasks \in [Names -> Calls \cup {NoTask}]
  /\ reg \in [Calls -> {"idle", "rejected", "checked", "spawned", "ok",
                        "duplicate"}]
  /\ nameOf \in [Calls -> Names]
  /\ timers \in BOOLEAN
  /\ task \in [Calls -> {"none", "running", "returned", "panicked"}]
  /\ signalled \subseteq Calls
  /\ stop \in [Stoppers -> {"idle", "counting", "sending", "draining",
                            "joining", "ok", "err"}]
  /\ drained \in [Stoppers -> SUBSET Calls]
  /\ joined \in [Stoppers -> SUBSET Calls]
  /\ expired \in [Stoppers -> SUBSET Calls]

\* A handle in the map belongs to a call that was told Ok, under its name.
MapEntriesOwned ==
  \A n \in Names :
    tasks[n] # NoTask => reg[tasks[n]] = "ok" /\ nameOf[tasks[n]] = n

\* A handle a shutdown took is in no other place: not in the map any more,
\* not with another shutdown.
HandlesMoveOnce ==
  \A s \in Stoppers :
    /\ \A c \in drained[s] : reg[c] = "ok" /\ c \notin Managed
    /\ \A t \in Stoppers \ {s} : drained[s] \cap drained[t] = {}

\* A registration that returned Ok is never forgotten: its handle is in the
\* map or with one shutdown call.
NoHandleLost ==
  \A c \in Calls :
    reg[c] = "ok" => c \in Managed \/ \E s \in Stoppers : c \in drained[s]

\* Whatever the interleaving of registrations and shutdowns, the handle of
\* every registered task has exactly one owner, so no task is waited for or
\* counted twice and none is dropped from the books.
HandleAccounting == MapEntriesOwned /\ HandlesMoveOnce /\ NoHandleLost

\* shutdown's Ok(n): each task it took out of the map has returned, without
\* a panic, and n counts each of them once.
OkMeansJoined ==
  \A s \in Stoppers :
    /\ joined[s] \subseteq drained[s]
    /\ \A c \in joined[s] : task[c] = "returned"
    /\ stop[s] = "ok" => joined[s] = drained[s]

\* One caller at a time, and no shutdown failed: when the runtime is Stopped
\* the only task that can still run is one whose registration was refused as
\* a duplicate after it had been spawned.
SerialStopIsClean ==
  callers = "serial" /\ state = "Stopped" /\ (\A s \in Stoppers : stop[s] # "err") =>
    \A c \in Calls : task[c] = "running" => reg[c] = "duplicate"

\* Every call of shutdown returns when its timeouts work: no task can hold
\* it longer, whether it ignores the signal or never got it.  For one caller at
\* a time, with tasks that observe the signal and do not panic, it succeeds with
\* no timeout to fall back on: a registered task is never left waiting for a
\* signal that does not come (send is before the drain, subscribe before the
\* insert).
ShutdownReturns ==
  \A s \in Stoppers :
    /\ timers /\ stop[s] \in {"counting", "sending", "draining", "joining"}
         ~> stop[s] \in {"ok", "err"}
    /\ callers = "serial" /\ ~timers /\ stop[s] = "joining"
         /\ drained[s] \subseteq Obedient \ Panicky
         ~> stop[s] = "ok"

\* "Runtime fully stopped." (the doc of RuntimeState::Stopped).
FullyStopped ==
  callers = "serial" /\ state = "Stopped" => \A c \in Calls : task[c] # "running"

=============================================================================
