SPECIFICATION FairSpec
CONSTANTS
  Nodes = {n1}
  Workers = {w1}
  Names = {"shares.expire", "plugin.a"}
  Periodic = {"shares.expire"}
  MaxRows = 3
  MaxOnDemand = 1
  MaxUnknown = 1
  AttemptCap = 1
  MaxInterrupts = 1
  NoRow = NoRow
INVARIANTS PeriodicAlive
PROPERTIES HandedOver StopReturns
