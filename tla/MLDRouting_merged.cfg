\* Turns that share an edge and differ in penalty.
SPECIFICATION Spec
CONSTANTS
  N = 6
  Levels = 2
  Networks <- MCMergedNetworks
  Partitions <- MCPartitions
  NodeFilters <- MCNodeFilters
  Phantoms <- MCPhantoms
INVARIANT
  FastestRoute
