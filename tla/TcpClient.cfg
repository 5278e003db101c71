\* A lifecycle call beside a receive call; packets in two parts and more than
\* one at a time.
CONSTANTS
  MaxCalls = 5
  MaxPackets = 2
  MaxRetries = 2
  None = None
SPECIFICATION Spec
INVARIANTS TypeOK LoginHonest DisconnectedIsClean PacketsIntact
CHECK_DEADLOCK FALSE
