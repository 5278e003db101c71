----------------------------- MODULE MCDesktop ------------------------------
\* Properties of Desktop and its model-checking instance.
EXTENDS Desktop, FiniteSets

\* Every variable has its type, and the two handles come and go together: an
\* owner between calls has both or neither, unless a stop was cancelled or
\* found its task killed.  With a JoinHandle only, start and stop are refused
\* for ever.
DesktopTypeOK ==
  /\ log = [n \in 1..Len(log) |-> n]
  /\ {total, last} \subseteq Nat /\ counted \subseteq Nat
  /\ {stop_tx, join_handle, stopping} \subseteq Tasks \cup {None}
  /\ owner \in {"idle", "send", "join", "dropped"}
  /\ stopping # None <=> owner \in {"send", "join"}
  /\ mail \in [Tasks -> {"open", "stop", "closed"}]
  /\ step \in [Tasks -> {"unborn", "select", "count", "gone"}]
  /\ cursor \in [Tasks -> Nat]
  /\ faults \subseteq {"cancelled", "killed"}
  /\ owner = "idle" /\ faults = {} => stop_tx = join_handle
  /\ stop_tx # None => join_handle = stop_tx

\* No event is counted twice, however often the task is stopped and started,
\* unless a stop was cancelled: then the task it has left behind may still
\* count beside its successor.
CountsOnce == "cancelled" \notin faults => total = Cardinality(counted)

\* A stop that nobody cancels returns, however busy the bus is, and a task
\* whose sender is gone ends, with nothing counted after that.
StopReturns ==
  /\ owner \in {"send", "join"} ~> owner = "idle"
  /\ \A t \in Tasks : step[t] # "unborn" /\ mail[t] # "open" ~> [](step[t] = "gone")

=============================================================================
