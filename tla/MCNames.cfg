SPECIFICATION AllSpec
CONSTANTS
  Scenes <- MCScenes
  Sweeps = {1, 2}
  Dirs <- MCDirs
  Leafs <- MCLeafs
  SealScenes <- MCSealScenes
  StorageKeys <- MCPaths
  OwnerUID <- MCOwnerUID
  Accounts = {"ann"}
  KeyPaths = {1, 2, 3}
  MaxKeys = 2
  ChunkSize = 2
  TagSize = 1
  HeaderSize <- MCHeaderSize
INVARIANTS NamesSound 
PROPERTY SweepKeepsView
CHECK_DEADLOCK FALSE
