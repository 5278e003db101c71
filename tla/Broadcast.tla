----------------------------- MODULE Broadcast ------------------------------
(***************************************************************************)
(* tokio::sync::broadcast as the crates use it.  A channel is the log of   *)
(* all it was sent; only the last `capacity` entries can still be read.  A *)
(* receiver is the position it reads next.  Reading an entry that has been *)
(* overwritten is the error Lagged.                                        *)
(***************************************************************************)
EXTENDS Naturals, Sequences

\* A receiver created now sees what is sent from now on.
Subscribed(log) == Len(log) + 1

HasNext(log, cursor) == cursor <= Len(log)

HasLagged(log, cursor, capacity) == cursor + capacity <= Len(log)

CanRead(log, cursor, capacity) ==
  HasNext(log, cursor) /\ ~HasLagged(log, cursor, capacity)

=============================================================================
