---------------------------- MODULE ListenSession ---------------------------
(***************************************************************************)
(* What ProtocolBackend::connect / disconnect / listen promise, without    *)
(* flags, locks or tasks: a backend is up or down, at most one listener    *)
(* feeds events at a time, it is started only while the backend is up, and *)
(* a new connection never inherits the listener of an older one.           *)
(***************************************************************************)
CONSTANTS Listeners, None  \* None is not a listener

VARIABLES up, listener

vars == <<up, listener>>

Init == up = FALSE /\ listener = None

GoUp == /\ ~up
        /\ listener = None
        /\ up' = TRUE
        /\ UNCHANGED listener

GoDown == /\ up
          /\ up' = FALSE
          /\ UNCHANGED listener

StartListener(l) == /\ up
                    /\ listener = None
                    /\ listener' = l
                    /\ UNCHANGED up

EndListener == /\ listener # None
               /\ listener' = None
               /\ UNCHANGED up

Next == GoUp \/ GoDown \/ EndListener
          \/ \E l \in Listeners : StartListener(l)

Spec == Init /\ [][Next]_vars

=============================================================================
