\* More events than the channels hold, a full dispatch queue, one reader.
CONSTANTS
  Packets <- MCPackets
  MaxSends = 2
  Readers = {r1}
  Capacity = 1
  DispatchCapacity = 1
  Types = {"message"}
  MaxEvents = 2
  None = None
SPECIFICATION Spec
INVARIANTS TypeOK NoGapsInStream RelayInOrder SendAccounting
PROPERTIES NothingIsLost PollsEnd
CHECK_DEADLOCK FALSE
