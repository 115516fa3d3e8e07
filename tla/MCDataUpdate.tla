---------------------------- MODULE MCDataUpdate ----------------------------
(* Instances of DataUpdate for TLC. *)
EXTENDS DataUpdateKeys, TLC

CONSTANTS ds1, ds2, d1, d2, d3, w1, w2, q1

OneDataset == {ds1}
TwoDatasets == {ds1, ds2}
TwoStores == {d1, d2}
ThreeStores == {d1, d2, d3}
OneWatcher == {w1}
TwoWatchers == {w1, w2}
OneQuery == {q1}
AllWatchFirst == [w \in Watchers |-> ds1]

\* Bound: a monitor is removed under one routed process only.
RemovalMeetsOneWatcher ==
    created > 1 \/ (created = 1 /\ ~linked) => Cardinality({w \in Watchers : wpc[w] # "off"}) <= 1

ProcessSymmetry == Permutations(Datastores) \cup Permutations(Watchers)
=============================================================================
