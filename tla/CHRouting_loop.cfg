\* Routes that come back to the one-way street they start on.
SPECIFICATION Spec
CONSTANTS
  N = 3
  Threads = {t1, t2}
  Hash <- MCHash
  SearchSpace <- MCSearchSpace
  RenumberPercent = 100
  Significand <- MCSignificand
  Scales <- MCScales
  Inputs <- LoopInputs
  FilterLists <- LoopFilters
  Bounds <- MCBounds
  BaseCore = 0
  Phantoms <- LoopPhantoms
SYMMETRY MCSymmetry
INVARIANTS
  QueryShortestWithLoop
