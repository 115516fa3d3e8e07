SPECIFICATION FairSpec
CONSTANTS
  ds1 = ds1 ds2 = ds2 d1 = d1 d2 = d2 d3 = d3 w1 = w1 w2 = w2 q1 = q1
  None = None
  MAX_SHARED_REGIONS = 2
  Datasets <- TwoDatasets
  Datastores <- TwoStores
  Watchers <- OneWatcher
  WatchedDataset <- AllWatchFirst
  Queries <- OneQuery
  MaxMonitors = 2
  MaxKills = 1
INVARIANTS UpdateInv ResourceInv RegisteredInPairs FreeKeysUnbound
PROPERTIES DatastoreEnds WatcherCatchesUp DestructorReturns
CHECK_DEADLOCK FALSE
