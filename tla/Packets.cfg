CONSTANTS
  SegmentCount = 3
  Bad = {2}
  Legacy = {1}
  Catalog = 2
  Window = 3
  Batch = 1
  MaxRows = 2
  PageSize = 1
  Viewed = {"odd"}
  MaxRebuilds = 1
  MaxExpiries = 1
  MaxStops = 2
  RunOf <- Alternating
  CaptureOf <- CaptureEach
SPECIFICATION FairSpec
INVARIANTS IndexedOnce CompletedIsComplete WalkIsASnapshot
PROPERTY IndexCatchesUp
CHECK_DEADLOCK FALSE
