CONSTANTS
  r1 = r1
  Runs = {r1}
  Recording = {r1}
  MaxJobs = 3
  Keys = {k1, k2, k3}
  Faults = {f1}
  Owner <- SameOwner
  Lane <- SameLane
  Slots = {1, 2}
  Gated = {1}
  Edges = {2}
  MaxCrashes = 1
  MaxFailures = 1
  MaxSaveFailures = 1
SYMMETRY KeySymmetry
SPECIFICATION Spec
INVARIANTS TypeOK VisibleIsDurable RepliesAreDurable NoOrphans DestroyedIsClean EpochIsFresh GenerationIsDurable
