CONSTANTS
  r1 = r1
  Runs = {r1}
  Recording = {r1}
  MaxJobs = 2
  Keys = {k1, k2}
  Faults = {}
  Owner <- SameOwner
  Lane <- SameLane
  Slots = {1, 2}
  Gated = {1}
  Edges = {2}
  MaxCrashes = 0
  MaxFailures = 1
  MaxSaveFailures = 0
SPECIFICATION FairSpec
PROPERTY RecoverCleansUp
