---------------------------- MODULE MCMockClient ----------------------------
\* Properties of MockClient and its model-checking instance.
EXTENDS MockClient

\* Every variable has its type; the state's Mutex is held from disconnect's
\* first step to its last, the token's by a login that waits for the state.
TypeOK ==
  /\ callers \in Disciplines
  /\ holder \in [Mutexes -> Calls \cup {None}]
  /\ state \in {"Disconnected", "Connected", "LoggedIn"}
  /\ token \in Calls \cup {None}
  /\ {endpoint, beaten} \subseteq BOOLEAN
  /\ timeout \in {"zero", "positive"}
  /\ sent \subseteq Calls /\ inbound \subseteq Calls
  /\ op \in [Calls -> Lifecycle \cup Traffic \cup {"none"}]
  /\ pc \in [Calls -> {"idle", "open", "store_endpoint", "store_timeout",
       "check", "take_token", "mark_login", "close", "clear_sent",
       "clear_inbound", "clear_endpoint", "clear_token", "clear_heartbeat",
       "check_timeout", "check_login", "push", "beat", "beat_timeout",
       "receive", "inject", "ok", "err"}]
  /\ \A p \in Calls :
       /\ holder["token"] = p <=> pc[p] = "mark_login"
       /\ holder["state"] = p <=>
            pc[p] \in {"clear_sent", "clear_inbound", "clear_endpoint",
                      "clear_token", "clear_heartbeat"}

\* Between the lifecycle calls of a caller that makes one at a time, whatever
\* traffic there is beside them: a session has an endpoint, a logged-in one
\* the token of a login that has returned, and an ended one neither.
SessionHonest ==
  callers = "backend" /\ (\A p \in Running : op[p] \in Traffic) =>
    /\ state # "Disconnected" <=> endpoint
    /\ state = "LoggedIn" <=> token # None
    /\ state = "LoggedIn" => op[token] = "login" /\ pc[token] = "ok"

\* The same caller sees a ClientSession.
Session == INSTANCE ClientSession WITH
  session <- IF callers # "backend" \/ state = "Disconnected" THEN "closed"
             ELSE IF state = "Connected" THEN "open" ELSE "logged_in"

ImplementsSession == Session!Spec

\* login waits for disconnect, which holds the state, and disconnect for
\* login, which holds the token.
Embrace ==
  \E p, q \in Calls : /\ pc[p] = "mark_login" /\ holder["state"] = q
                      /\ pc[q] = "clear_token" /\ holder["token"] = p

\* Every call returns, unless a login has met a disconnect half-way: no other
\* calls can block each other, and a caller that makes its lifecycle calls one
\* at a time is never blocked.
CallsReturn ==
  \A p \in Calls :
    p \in Running ~> p \notin Running \/ (callers = "overlapping" /\ Embrace)

=============================================================================
