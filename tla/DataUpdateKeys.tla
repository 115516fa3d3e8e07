--------------------------- MODULE DataUpdateKeys ---------------------------
(***************************************************************************)
(* The second inductive invariant of DataUpdate, about resources: which    *)
(* keys are in use, how full the register is, and which segments exist.    *)
(* It rests on UpdateInv.                                                  *)
(***************************************************************************)
EXTENDS DataUpdateInv

\* The names for which the register of monitor m has a region.
FoundNames(m) == {n \in Names : Find(regions[m], n)}

\* A datastore that has not begun to load data, or has ended, has no handles.
HandleInv ==
    \A d \in Datastores : dpc[d] \in BeforeSetup("static") \cup FinalPCs =>
        /\ newKey[d] = NoKeys /\ oldKey[d] = NoKeys
        /\ oldSegment[d] = NoFacade /\ attached[d] = {}

\* The program points at which a datastore has swapped its region of kind k.
AfterSwap(k) == CleanupPCs \ {SwapPC(k)}

\* What a datastore has published stays registered until it ends.
PublishedInv ==
    \A d \in Datastores, k \in Kinds :
        dpc[d] \in AfterSwap(k) /\ newKey[d][k] # None =>
            /\ Registered(dataset[d], k)
            /\ newKey[d][k] = Newest(dataset[d], k).shm_key
            /\ Leads(dataset[d], k) = <<d, k>>

\* The array of regions is never overfull.
FoundInv ==
    \A m \in Monitors :
        IsFiniteSet(FoundNames(m)) /\ Cardinality(FoundNames(m)) <= MAX_SHARED_REGIONS

\* The datastore that holds the mutex of m, alive or not, has registered the first half
\* of ds there.
HalfRegistered(m, ds) ==
    \E d \in Datastores : /\ mutex[m] = d /\ dmon[d] = m
                          /\ dataset[d] = ds
                          /\ dpc[d] \in {"swapUpdatable", "killed"}

\* Half a dataset is registered in the critical section only, and it is the static half.
PairedInv ==
    \A m \in Monitors, ds \in Datasets :
        \/ Find(regions[m], <<ds, "static">>) <=> Find(regions[m], <<ds, "updatable">>)
        \/ Find(regions[m], <<ds, "static">>) /\ HalfRegistered(m, ds)

\* What a datastore maps: its new regions, the static region that --only-metric goes on
\* using, and the regions it has replaced, which are of the same dataset.
AttachedInv ==
    \A d \in Datastores :
        /\ \A s \in attached[d] :
             \/ \E k \in Kinds : s = <<d, k>> /\ newKey[d][k] # None
             \/ \E k \in Kinds : s = oldSegment[d][k]
             \/ Registered(dataset[d], "static") /\ s = Leads(dataset[d], "static")
        /\ \A k \in Kinds : oldSegment[d][k] # None =>
             \E e \in Datastores : /\ oldSegment[d][k] = <<e, k>>
                                   /\ dataset[e] = dataset[d]
                                   /\ populated[e]

\* The segments of a name that a routed process may map: the one that is registered, and
\* the one that the datastore at work has replaced.
Live(ds, k) ==
    {s \in Segments :
        \/ Registered(ds, k) /\ s = Leads(ds, k)
        \/ \E d \in Datastores : /\ dpc[d] \in CleanupPCs
                                 /\ dataset[d] = ds
                                 /\ s = oldSegment[d][k]}

ViewInv ==
    created <= 1 => \A w \in Watchers, k \in Kinds :
        /\ facade[w][k] \in Live(WatchedDataset[w], k) \cup {None}
        /\ \A q \in Queries : query[w][q][k] \in Live(WatchedDataset[w], k) \cup {None}

\* A region registered in monitor m has the key.
HasKey(m, key) == \E n \in Names : Find(regions[m], n) /\ regions[m][n].shm_key = key

\* A datastore that works on monitor m has the key in one of its handles.
HoldsKey(m, key) ==
    \E d \in Datastores, k \in Kinds :
        dmon[d] = m /\ (newKey[d][k] = key \/ oldKey[d][k] = key)

\* The keys in use are those of the registered regions and of the datastores' handles.
KeyInv ==
    \A m \in Monitors, key \in ShmKey :
        key \in keyInUse[m] <=> HasKey(m, key) \/ HoldsKey(m, key)

\* Whatever happens, the register is never overfull and every handle is accounted for.
\* Regions come in pairs when their number is even.  Without failures every key is
\* accounted for too, and no routed process maps anything but live segments.
ResourceInv ==
    /\ HandleInv
    /\ PublishedInv
    /\ FoundInv
    /\ MAX_SHARED_REGIONS % 2 = 0 => PairedInv
    /\ AttachedInv
    /\ NoFailure => ViewInv /\ KeyInv
=============================================================================
