---------------------------- MODULE MCQQBackend -----------------------------
\* Properties of QQBackend and its model-checking instance.
EXTENDS QQBackend

Quiet == Running = {}

\* Every variable has its type; the client is only dialled, logged in or dropped
\* by the holder of the listen_task mutex.
TypeOK ==
  /\ callers \in Disciplines
  /\ credentials \in BOOLEAN
  /\ flag \in [Flags -> BOOLEAN]
  /\ op \in [Calls -> {"none", "connect", "disconnect", "listen"}]
  /\ pc \in [Calls -> Flags \cup {"idle", "lock", "drop_client", "configure",
       "dial", "login", "mark_login", "publish", "swap", "ok", "err"}]
  /\ lock \in Calls \cup {None}
  /\ handle \in Calls \cup {None}
  /\ listener \in
       [Calls -> {"none", "looping", "receiving", "exiting", "gone"}]
  /\ aborted \subseteq Calls
  /\ client \in {"Disconnected", "Connected", "LoggedIn"}
  /\ \A p \in Calls :
       pc[p] \in {"drop_client", "configure", "dial", "login", "mark_login",
                 "publish"} <=> lock = p

\* With one call at a time, between calls: the flags say what the backend is.
\* "connected" needs an open client, logged in when there are credentials;
\* "listening" is set only while a listener that nobody aborted is alive, so
\* listen() is not refused for good.
FlagsHonest ==
  Quiet /\ callers # "overlapping" =>
    /\ flag["connected"] => client # "Disconnected"
    /\ flag["logged_in"] => flag["connected"] /\ client = "LoggedIn"
    /\ flag["connected"] /\ credentials => IsLoggedIn
    /\ flag["stop_requested"] => ~flag["connected"]
    /\ flag["listening"] => Live \ aborted # {}

\* The backend as ListenSession sees it: up once connect has published, the
\* listener being the live one that was not aborted, which must also be the
\* one disconnect can abort; anything else is Several, which no session has.
\* Only settled callers are promised a session; behaviours of the others map
\* to one never opened.
Several == 0
Session == INSTANCE ListenSession WITH
  Listeners <- Calls,
  up <- callers = "settled" /\ flag["connected"],
  listener <- IF callers # "settled" \/ Live \ aborted = {} THEN None
              ELSE IF Live \ aborted = {handle} THEN handle ELSE Several

\* One call at a time and none during a listener's last steps: the backend
\* is a ListenSession.
ImplementsSession == Session!Spec

\* Whatever the callers do, every call returns, and when the backend stays
\* disconnected every listener ends, also one whose handle was overwritten and
\* cannot be aborted.
CallsAndListenersEnd ==
  /\ \A p \in Calls : p \in Running ~> p \notin Running
  /\ <>[](~flag["connected"]) => <>[](Live = {})

\* The state after disconnect as the tests assert it: never "connected" over
\* a client that is Disconnected once no call is under way.
NoGhostConnection ==
  Quiet /\ flag["connected"] => client # "Disconnected"

=============================================================================
