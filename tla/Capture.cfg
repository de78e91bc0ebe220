CONSTANTS
  ByteBudget = 12
  RotateBytes = 8
  Snaplen = 1
  SectionBytes = 1
  InterfaceBytes = 1
  TrailerBytes = 1
  PacketBytes = 1
  Overhead = 4
  MaxSegments = 3
  MaxPackets = 4
  MaxGeneration = 2
  MaxFaults = 2
  MaxLaunches = 2
SPECIFICATION FairSpec
INVARIANTS ClosedIsComplete RoomAfterRotation ArtifactsComplete ManifestIsTrue WithinBudget
PROPERTIES ManifestAdvances StopEnds
CHECK_DEADLOCK FALSE
