SPECIFICATION Spec
CONSTANTS
  Mixes <- Both
  Tasks = {t1, t2}
  MaxMint = 4
SYMMETRY TaskSymmetry
INVARIANTS NoKeyLost 
PROPERTIES IntegrityMeansStale PivotComplete
