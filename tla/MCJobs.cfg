SPECIFICATION Spec
CONSTANTS
  Nodes = {n1, n2}
  Workers = {w1}
  Names = {"plugin.a"}
  Periodic = {}
  MaxRows = 2
  MaxOnDemand = 2
  MaxUnknown = 1
  AttemptCap = 1
  MaxInterrupts = 1
  NoRow = NoRow
SYMMETRY NodeSymmetry
INVARIANTS NoOrphan ExclusiveClaim
