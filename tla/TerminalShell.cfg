CONSTANTS
  Kinds = {"docker"}
  alice = alice
  bob = bob
  Owners = {alice, bob}
  LeaseTicks = 1
  WriterTicks = 1
  BeatLimit = 1
  Budget = 2
  MaxInbox = 1
  MaxGen = 2
  MaxToken = 2
SPECIFICATION Spec
INVARIANTS RecordedFirst ClosedIsDurable
PROPERTY InputIsFenced
SYMMETRY BrowserSymmetry
CHECK_DEADLOCK FALSE
