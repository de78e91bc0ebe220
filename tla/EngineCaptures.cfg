CONSTANTS
  r1 = r1
  Runs = {r1}
  Recording = {r1}
  MaxJobs = 3
  Keys = {k1, k2, k3}
  Faults = {}
  Owner <- SameOwner
  Lane <- SameLane
  Slots = {1, 2, 3, 4}
  Gated = {1, 2}
  Edges = {3, 4}
  MaxCrashes = 1
  MaxFailures = 2
  MaxSaveFailures = 0
SYMMETRY KeySymmetry
SPECIFICATION Spec
INVARIANTS CaptureBarrier StoppedIsQuiet CoverageIsHonest
PROPERTY GapIsSticky
