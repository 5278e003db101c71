------------------------------- MODULE MCApp --------------------------------
\* Properties of App and its model-checking instance.
EXTENDS App

\* Every variable of the main task has its type.
MainTypeOK ==
  /\ config \in [Keys -> (UNION {Values[k] : k \in Keys}) \cup {None}]
  /\ \A k \in Keys : config[k] \in Values[k] \cup {Default[k]}
  /\ at \in {"file", "env", "args", "build", "connect", "start", "listen",
             "bind", "serving", "disconnect", "failed", "stopped"}
  /\ running \in BOOLEAN

\* The value of the last layer that sets k, or the default.
Topmost(k) ==
  LET setting == {i \in 1..Len(Layers) : k \in DOMAIN patches[Layers[i]]}
  IN IF setting = {} THEN Default[k]
     ELSE patches[Layers[CHOOSE i \in setting : \A j \in setting : j <= i]][k]

\* Requests are only served with the settings of the topmost layers, by a
\* server whose status routes say that it runs, over a connected backend: in
\* qq mode one that is logged in and whose listener disconnect can still abort,
\* in onebot mode one whose listener polls and is not asked to stop.
ServesReady ==
  at = "serving" =>
    /\ \A s \in {LoginStatus, GetStatus, LoginInfo} :
         s.online /\ s.status = "ok" /\ s.retcode = 0
    /\ \A k \in Keys : config[k] = Topmost(k)
    /\ HasProtocol => flag["connected"] /\ ~flag["stop_requested"]
    /\ config.protocol_mode = "qq" => /\ flag["logged_in"]
                                      /\ client = "LoggedIn"
                                      /\ handle = CallNumber.listen
                                      /\ aborted = {}
    /\ config.protocol_mode = "onebot" => CallNumber.listen \in OneBot!Live

\* Once the main task has returned no status route says that it runs; when it
\* got as far as binding the port, its backend is disconnected and the listener
\* is gone, aborted, on its last steps or (onebot) asked to stop.  With an
\* address that does not parse the backend is left connected: it has no
\* listener then.
CleanReturn ==
  /\ at \in {"failed", "stopped"} =>
       TRUE \notin {s.online : s \in {LoginStatus, GetStatus, LoginInfo}}
  /\ at = "stopped" => /\ TRUE \notin {flag[f] : f \in Flags \
                                         {"stop_requested", "listening"}}
                       /\ client = "Disconnected"
                       /\ IF config.protocol_mode = "qq"
                            THEN Live \subseteq aborted \cup Leaving
                            ELSE OneBot!Live # {} => flag["stop_requested"]
  /\ at = "failed" => Live \cup OneBot!Live = {}

=============================================================================
