\* Customisation and queries on rows of six nodes.
SPECIFICATION Spec
CONSTANTS
  N = 6
  Levels = 2
  Networks <- MCAllNetworks
  Partitions <- MCPartitions
  NodeFilters <- MCNodeFilters
  Phantoms <- MCPhantoms
INVARIANTS
  MetricExact
  SearchShortest
  SearchUnpacks
