---------------------------- MODULE ClientSession ---------------------------
(***************************************************************************)
(* What the QQClient trait promises whoever makes its lifecycle calls one  *)
(* after the other, without locks, sockets or tokens: a session is opened, *)
(* then logged in to, and ends from either state; nobody is logged in to a *)
(* session that was not opened, or that has ended.                         *)
(***************************************************************************)
VARIABLE session

Init == session = "closed"

Open  == session = "closed" /\ session' = "open"
LogIn == session = "open" /\ session' = "logged_in"
Close == session' = "closed"

Next == Open \/ LogIn \/ Close

Spec == Init /\ [][Next]_session

=============================================================================
