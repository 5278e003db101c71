----------------------------- MODULE MCRuntimes -----------------------------
\* Model-checking instance of the two parts that own tasks and stop them, one
\* of them in each behaviour.  Nothing is shared between them, so the steps of
\* the one add nothing to the other's.
EXTENDS MCRuntime, MCDesktop

VARIABLE runtime  \* which of the two it is (never changes)

\* Names are interchangeable, so the first registration may have any one of
\* them.  The inputs of Runtime have one value when it takes no step.
EitherInit ==
  /\ runtime \in {"Runtime", "DesktopRuntime"}
  /\ Init /\ DesktopInit
  /\ nameOf[1] = CHOOSE n \in Names : TRUE
  /\ runtime = "DesktopRuntime" =>
       callers = "serial" /\ timers /\ \A c \in Calls : nameOf[c] = nameOf[1]

EitherNext ==
  \/ runtime = "Runtime" /\ Next /\ UNCHANGED <<runtime, desktopVars>>
  \/ runtime = "DesktopRuntime" /\ DesktopNext /\ UNCHANGED <<runtime, vars>>

EitherSpec == /\ EitherInit
              /\ [][EitherNext]_<<runtime, vars, desktopVars>>
              /\ Fairness /\ DesktopFairness

=============================================================================
