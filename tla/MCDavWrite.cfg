SPECIFICATION AllSpec
CONSTANTS
  Requests = {r1, r2, r3}
  Setups <- Deployments
  Original = Original
  NoFile = NoFile
  MaxIds = 3
  MaxWidth = 2
  UplScenes <- Transfers
  ChunkCount = 2
SYMMETRY RequestSymmetry
INVARIANTS AckedKept  AssembledWhole  NothingInherited
 
CHECK_DEADLOCK FALSE
