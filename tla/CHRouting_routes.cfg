\* Contraction and queries on rings, paths and triangles of four nodes.
SPECIFICATION Spec
CONSTANTS
  N = 4
  Threads = {t1, t2}
  Hash <- MCHash
  SearchSpace <- MCSearchSpace
  RenumberPercent = 100
  Significand <- MCSignificand
  Scales <- MCScales
  Inputs <- MCInputs
  FilterLists <- MCFilters
  Bounds <- MCBounds
  BaseCore = 1
  Phantoms <- MCPhantoms
SYMMETRY MCSymmetry
INVARIANTS
  ContractorTypeOK
  ContractedApart
  ArrayConsistent
  DistancesPreserved
  RoundContracts
  QueryShortest
  UnpacksToRoute
  ContractorInv
