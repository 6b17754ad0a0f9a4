SPECIFICATION FairSpec
CONSTANTS
  Versions = {1, 2}
  Caps = {c1, c2}
  Objs = {1, 2}
  MaxCmds = 3
  MaxFails = 1
  MaxWrites = 1
  MaxBoots = 1
  MaxTurns = 2
  None = None
INVARIANTS InstallSound ReachesRunning
PROPERTIES Converges
