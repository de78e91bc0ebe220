CONSTANTS
  Kinds = {"child", "runner", "ssh"}
  Owners = {}
  LeaseTicks = 2
  WriterTicks = 1
  BeatLimit = 1
  Budget = 3
  MaxInbox = 1
  MaxGen = 2
  MaxToken = 0
SPECIFICATION FairSpec
INVARIANTS GuestIsLeased AdoptionFences
PROPERTY GuestFollowsWorker
CHECK_DEADLOCK FALSE
