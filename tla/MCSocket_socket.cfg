SPECIFICATION Spec
CONSTANTS
  p1 = p1
  s1 = s1
  Nobody = Nobody
  Publishes <- MCPublishes
  Subs <- MCSubs
  Capacity = 1
  Refused = {3}
  MaxMessages = 4
INVARIANT NothingLost
PROPERTY StreamsEnd
CHECK_DEADLOCK FALSE
