\* Queries that exclude a node.
SPECIFICATION Spec
CONSTANTS
  N = 4
  Threads = {t1, t2}
  Hash <- MCHash
  SearchSpace <- MCSearchSpace
  RenumberPercent = 100
  Significand <- MCSignificand
  Scales <- MCScales
  Inputs <- DetourInputs
  FilterLists <- DetourFilters
  Bounds <- MCBounds
  BaseCore = 0
  Phantoms <- MCPhantoms
SYMMETRY MCSymmetry
INVARIANTS
  QueryShortestExcluding
