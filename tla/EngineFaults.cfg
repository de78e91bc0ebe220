CONSTANTS
  r1 = r1
  Runs = {r1}
  Recording = {}
  MaxJobs = 4
  Keys = {k1, k2, k3, k4}
  Faults = {f1, f2}
  Owner <- SameOwner
  Lane <- SameLane
  Slots = {1}
  Gated = {1}
  Edges = {}
  MaxCrashes = 1
  MaxFailures = 1
  MaxSaveFailures = 0
SYMMETRY KeySymmetry
SPECIFICATION Spec
INVARIANT LaneIsExclusive
