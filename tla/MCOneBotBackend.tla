-------------------------- MODULE MCOneBotBackend ---------------------------
\* Properties of OneBotBackend and its model-checking instance.
EXTENDS OneBotBackend

Quiet == Running = {}

\* Every variable has its type.
TypeOK ==
  /\ flag \in [Flags -> BOOLEAN]
  /\ callers \in Disciplines
  /\ \A p \in Calls : pc[p] \in {"idle", "ok", "err"} \cup
       CASE op[p] = "none"       -> {}
         [] op[p] = "connect"    -> {"get_status", "connected", "stop_requested"}
         [] op[p] = "disconnect" -> {"connected", "stop_requested", "clear"}
         [] op[p] = "listen"     -> {"swap", "spawn"}
  /\ listener \in [Calls -> {"none", "looping", "polling", "exiting", "gone"}]

\* One call at a time, between calls: a connected backend has no stop request
\* pending (a listener started now would leave at once), and "listening" is
\* set only while a listener is alive, so listen() is not refused for good.
FlagsConsistent ==
  Quiet /\ callers # "overlapping" =>
    /\ flag["connected"] => ~flag["stop_requested"]
    /\ flag["listening"] => Live # {}

\* The backend as ListenSession sees it; two listeners at a time are Several,
\* which no session has.  Only settled callers are promised a session;
\* behaviours of the others map to one never opened.
Several == 0
Session == INSTANCE ListenSession WITH
  Listeners <- Calls,
  up <- callers = "settled" /\ flag["connected"],
  listener <- IF callers # "settled" \/ Live = {} THEN None
              ELSE IF \A k, l \in Live : k = l THEN CHOOSE l \in Live : TRUE
              ELSE Several

\* A caller that waits for the listener of the old connection to end before
\* it goes on sees a ListenSession.
ImplementsSession == Session!Spec

\* Whatever the callers do: when the backend stays disconnected, every
\* listener ends, although nothing aborts it, but for those whose last poll
\* the server never answers.
ListenersEnd ==
  <>[](~flag["connected"]) =>
    \A l \in Calls : <>[](l \notin Live) \/ <>[](listener[l] = "polling")

=============================================================================
