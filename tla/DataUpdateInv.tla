---------------------------- MODULE DataUpdateInv ----------------------------
(***************************************************************************)
(* The inductive invariant of DataUpdate.  Each part says why one step of  *)
(* the protocol is safe: who holds which lock, to which segment a key      *)
(* leads, which keys a datastore owns, and what a watcher has copied.      *)
(* Everything is about the newest monitor: the monitors that --remove-locks*)
(* has unlinked are beyond the reach of the datastores that follow.        *)
(***************************************************************************)
EXTENDS DataUpdate

\* The register that datastores work on, and the segments it leads to.
Newest(ds, k) == regions[created][<<ds, k>>]
Registered(ds, k) == created \in Monitors /\ ~ IsEmpty(Newest(ds, k))
Leads(ds, k) == bound[Newest(ds, k).shm_key]

BeforeSetup(k) == {"idle", "lock", "open", "static"} \cup
                  (IF k = "static" THEN {} ELSE {"updatable"})
\* The datastore has created its region of kind k and has not published it yet.
BeforeSwap(k) == {"populate", "swap", "swapStatic"} \cup
                 (IF k = "static" THEN {"updatable"} ELSE {"swapUpdatable"})
AfterPopulate == {"swap", "swapStatic", "swapUpdatable", "unlock", "notify", "remove", "detach"}
CleanupPCs == {"swapUpdatable", "unlock", "notify", "remove", "detach"}

\* Only the holder of the file lock is past it, and it works on the newest monitor.
StoreLockInv ==
    \A d \in Datastores : dpc[d] \in LockedPCs =>
        /\ fileLock = d
        /\ dpc[d] # "open" => dmon[d] = created /\ created \in Monitors

MonitorInv ==
    /\ linked => created \in Monitors
    /\ \A w \in Watchers : wpc[w] # "off" => wmon[w] \in Monitors /\ wmon[w] <= created
    /\ \A w \in Watchers : wpc[w] = "off" => wmon[w] = None
    /\ \A m \in Monitors : m > created =>
         mutex[m] = None /\ \A n \in Names : IsEmpty(regions[m][n])

MutexInv ==
    /\ \A d \in Datastores : dpc[d] \in SwapPCs => mutex[dmon[d]] = d
    /\ \A w \in Watchers : wpc[w] \in WatchMutexPCs => mutex[wmon[w]] = w

\* What a segment contains is settled before anyone can find it.
ContentInv ==
    \A d \in Datastores :
        /\ dpc[d] # "idle" => dataset[d] \in Datasets
        /\ dpc[d] = "swapStatic" => ~ onlyMetric[d]
        /\ dpc[d] \in AfterPopulate => populated[d]
        /\ populated[d] => dpc[d] \notin BeforeSetup("updatable") \cup {"populate"}

\* A segment has one key at most, and none before it is created.
BoundInv ==
    /\ \A k1, k2 \in ShmKey : bound[k1] = bound[k2] /\ bound[k1] # None => k1 = k2
    /\ \A key \in ShmKey, d \in Datastores, k \in Kinds :
         bound[key] = <<d, k>> => dpc[d] \notin BeforeSetup(k)

\* A registered region's key is in use and leads to a fully loaded segment.
RegisterInv ==
    \A ds \in Datasets, k \in Kinds : Registered(ds, k) =>
        /\ Newest(ds, k).shm_key \in keyInUse[created]
        /\ \E e \in Datastores : Leads(ds, k) = <<e, k>> /\ dataset[e] = ds /\ populated[e]

\* The keys of a datastore that has not published its regions yet.
NewKeyInv ==
    \A d \in Datastores, k \in Kinds :
        dpc[d] \in BeforeSwap(k) /\ (k = "static" => ~ onlyMetric[d]) =>
            /\ newKey[d][k] \in ShmKey
            /\ newKey[d][k] \in keyInUse[created]
            /\ bound[newKey[d][k]] = <<d, k>>
            /\ \A ds \in Datasets : Registered(ds, k) => Leads(ds, k) # <<d, k>>

\* A region that is not set up (yet) has no key.
NoKeyInv ==
    \A d \in Datastores, k \in Kinds :
        dpc[d] \in BeforeSetup(k) \/ (k = "static" /\ onlyMetric[d]) => newKey[d][k] = None

\* The static region that a datastore's updatable data belongs to.
BaseInv ==
    \A d \in Datastores :
        /\ dpc[d] \in BeforeSwap("static") /\ ~ onlyMetric[d] => base[d] = <<d, "static">>
        /\ dpc[d] = "swapUpdatable" \/ (dpc[d] \in BeforeSwap("static") /\ onlyMetric[d]) =>
             /\ Registered(dataset[d], "static")
             /\ base[d] = Leads(dataset[d], "static")

\* Some datastore is, or died, between the two halves of publishing ds.
HalfPublished(ds) ==
    \E d \in Datastores : /\ mutex[created] = d
                          /\ dataset[d] = ds
                          /\ dpc[d] \in {"swapUpdatable", "killed"}

PairInv ==
    \A ds \in Datasets :
        (\A k \in Kinds : Registered(ds, k)) /\ ~ HalfPublished(ds) =>
            \A e \in Datastores :
                Leads(ds, "updatable") = <<e, "updatable">> => base[e] = Leads(ds, "static")

\* The keys a datastore has replaced and not released yet.
OldKeyInv ==
    \A d \in Datastores, k \in Kinds :
        /\ dpc[d] \notin CleanupPCs \/ dpc[d] = SwapPC(k) =>
             oldKey[d][k] = None /\ oldSegment[d][k] = None
        /\ oldKey[d][k] # None =>
             /\ oldKey[d][k] \in keyInUse[created]
             /\ \E e \in Datastores : oldSegment[d][k] = <<e, k>> /\ populated[e]
             /\ \A ds \in Datasets, j \in Kinds :
                  Registered(ds, j) => Newest(ds, j).shm_key # oldKey[d][k]
             /\ dpc[d] # "detach" \/ k # OldKind(d) => bound[oldKey[d][k]] = oldSegment[d][k]
        /\ dpc[d] = "detach" /\ k = OldKind(d) =>
             /\ oldKey[d][k] # None
             /\ bound[oldKey[d][k]] = None
             /\ \A key \in ShmKey : bound[key] # oldSegment[d][k]
        /\ oldSegment[d][k] # None /\ oldKey[d][k] = None => dpc[d] \in {"remove", "detach"}

\* What a watcher has copied is the register's present contents or an older version.
CopyInv ==
    \A w \in Watchers, k \in Kinds :
        wmon[w] = created /\ wpc[w] \in RunningPCs \cup {"ctorAttach"} =>
            /\ Registered(WatchedDataset[w], k)
            /\ region[w][k].timestamp <= Newest(WatchedDataset[w], k).timestamp
            /\ \/ region[w][k].timestamp = Newest(WatchedDataset[w], k).timestamp
               \/ wpc[w] \in {"ctorAttach", "attach"}
               => region[w][k] = Newest(WatchedDataset[w], k)

\* Queries begin after the constructor.
QueryInv ==
    \A w \in Watchers, q \in Queries : wpc[w] = "off" => query[w][q] = NoFacade

SettledKeys ==
    /\ created = 0 => \A key \in ShmKey : bound[key] = None
    /\ FreeKeysUnbound

UpdateInv ==
    /\ TypeOK
    /\ StoreLockInv
    /\ MonitorInv
    /\ MutexInv
    /\ ContentInv
    /\ BoundInv
    /\ RegisterInv
    /\ NewKeyInv
    /\ NoKeyInv
    /\ BaseInv
    /\ PairInv
    /\ OldKeyInv
    /\ CopyInv
    /\ QueryInv
    /\ SettledKeys
    /\ FacadeCoherent
    /\ AllClientsSwitched
=============================================================================
