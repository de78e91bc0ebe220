CONSTANTS
  MaxStops = 3
  MaxFaults = 2
  MaxCrashes = 2
SPECIFICATION FairSpec
INVARIANTS ShellIsKnown StopIsClean
PROPERTY AgentReturns
CHECK_DEADLOCK FALSE
