CONSTANTS
  r1 = r1
  Runs = {r1, r2}
  Recording = {r1}
  MaxJobs = 4
  Keys = {k1, k2, k3, k4}
  Faults = {}
  Owner <- SameOwner
  Lane <- SameLane
  Slots = {1, 2}
  Gated = {1}
  Edges = {2}
  MaxCrashes = 1
  MaxFailures = 0
  MaxSaveFailures = 0
SYMMETRY KeySymmetry
SPECIFICATION Spec
INVARIANT StartFindsHostFree
