SPECIFICATION Spec
CONSTANTS
  Users = {u1, u2}
  Tasks = {t1, t2}
  MaxShares = 2
  MaxKeys = 2
  MaxTime = 1
  Traffics <- Mixes
SYMMETRY Symmetry
INVARIANTS NoStrayWrap  UnwrapAfterDelete 
CHECK_DEADLOCK FALSE
