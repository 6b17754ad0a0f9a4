SPECIFICATION Spec
CONSTANTS
  Clients = {c1, c2}
  Scenes <- TreeAndFlat
  NoLock = NoLock
  TTL = 1
  MaxIds = 2
  Prompt = TRUE
SYMMETRY ClientSymmetry
INVARIANTS LocksSound
PROPERTIES LockRespected
CHECK_DEADLOCK FALSE
