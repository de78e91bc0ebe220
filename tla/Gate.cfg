CONSTANTS
  Lease = 3
  PollTime = 1
  RecordTime = 2
  InputTime = 1
  ProbeTime = 2
  Record = 2
  EdgeTelemetry = TRUE
  Generator = TRUE
  MaxTime = 7
SPECIFICATION FairSpec
INVARIANTS HeldIsDeaf LapseIsPrompt
PROPERTIES GateImplements CommandEnds
CHECK_DEADLOCK FALSE
