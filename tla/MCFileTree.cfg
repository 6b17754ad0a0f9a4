SPECIFICATION Spec
CONSTANTS
  t1 = t1
  t2 = t2
  Paths <- TwoFolders
  MaxId = 6
  MaxContent = 4
  MaxSuffix = 2
  Tasks = {t1, t2}
  Scenes <- Situations
INVARIANTS TreeSound  SizesRight
CHECK_DEADLOCK FALSE
