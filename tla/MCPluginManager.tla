-------------------------- MODULE MCPluginManager ---------------------------
\* Properties of PluginManager and its model-checking instance.
EXTENDS PluginManager

\* The first plugin is a process, the others are endpoints.
MCKind == [p \in Calls |-> IF p = 1 THEN "rust" ELSE "http"]

\* Every variable has its type.
TypeOK ==
  /\ loads \in {"overlapping", "one_at_a_time"}
  /\ registry \in [Names -> Calls \cup {None}]
  /\ instance \in [Calls -> {"none", "loading", "failed", "active", "dropped",
                             "unloading", "unloaded", "abandoned"}]
  /\ pc \in [Calls -> {"idle", "check", "load", "insert", "remove", "unload",
                       "snapshot", "calling", "stalled", "read", "ok", "err",
                       "dropped"}]
  /\ op \in [Calls -> {"none", "load", "unload", "dispatch", "read"}]
  /\ nameOf \in [Calls -> Names \cup {None}]
  /\ victim \in [Calls -> Calls \cup {None}]
  /\ queue \in Seq(Calls)
  /\ readers \subseteq Calls
  /\ todo \in [Calls -> SUBSET Names]
  /\ reached \in [Calls -> SUBSET Calls]

\* The registry holds exactly the instances that loaded, were not replaced
\* and are not being unloaded; an instance is being unloaded by one call; and
\* when loads do not overlap, none is replaced without having been told.
RegistryExact ==
  /\ {i \in Calls : instance[i] = "active"} = {registry[n] : n \in Registered}
  /\ \A p, q \in Calls :
       pc[p] = "unload" /\ pc[q] = "unload" /\ p # q => victim[p] # victim[q]
  /\ \A p \in Calls : pc[p] = "unload" => instance[victim[p]] = "unloading"
  /\ loads = "one_at_a_time" => \A i \in Calls : instance[i] # "dropped"

\* While a dispatch runs, the plugins that have answered the event are exactly
\* those registered now and not still to be called: its Ok means that each
\* plugin got the event, and none before its load or after its unload began.
DispatchComplete ==
  \A p \in Calls : pc[p] \in {"calling", "stalled"} =>
    reached[p] = {registry[n] : n \in Registered \ todo[p]}

\* Every call returns or is dropped: the lock is handed on in order, however
\* loads, unloads, reads and dispatches overlap, and whatever fails.  Only a
\* plugin that does not read its event can keep everybody waiting.
CallsReturn ==
  \A p \in Calls : pc[p] # "idle" ~> \/ pc[p] \in {"ok", "err", "dropped"}
                                     \/ \E q \in Calls : pc[q] = "stalled"

=============================================================================
