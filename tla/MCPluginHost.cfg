SPECIFICATION HostSpec
CONSTANTS
  t1 = t1
  t2 = t2
  A = A
  B = B
  u1 = u1
  u2 = u2
  Threads <- MCThreads
  Plugins <- MCPlugins
  Users = {u1, u2}
  Insts = {1, 2, 3, 4}
  Names = {m1, m2}
  Scenes <- MCScenes
  StreamLimit = 2
  RowsLimit = 2
  HTTPLimit = 1
  DBMax = 1
  MaxSpool = 2
  Quota = 1
  Burst = 1
  MaxOps = 5
  MaxDepth = 3
  Nil = Nil
INVARIANTS  InstancesExclusive NoCircularWait
CHECK_DEADLOCK FALSE
