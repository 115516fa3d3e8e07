----------------------------- MODULE DataUpdate -----------------------------
(***************************************************************************)
(* The hot swap of routing data between processes: osrm-datastore          *)
(* processes (Storage::Run, setupRegion, swapData) load a dataset into SHM *)
(* segments and publish it in the register of the shared monitor; the      *)
(* DataWatchdog of every osrm-routed process notices the new timestamps,   *)
(* maps the new segments and drops the old facade, which running queries   *)
(* may still hold; the datastore waits until nobody maps the old segments  *)
(* and releases their keys.                                                *)
(*                                                                         *)
(* One datastore is one process and one run.  A segment is identified by   *)
(* the datastore that created it and by its kind, so a segment never comes *)
(* back under the identity of another one although its key does.           *)
(*                                                                         *)
(* The monitor's condition variable is abstracted to the set of watchers   *)
(* that wait un-notified; module SharedMonitor models its ring buffer of   *)
(* semaphores.                                                             *)
(***************************************************************************)
EXTENDS SharedRegionRegister

CONSTANTS Datasets,     \* dataset names
          Datastores,   \* osrm-datastore processes
          Watchers,     \* osrm-routed processes, each with one DataWatchdog
          WatchedDataset, \* the dataset_name of each watcher
          Queries,      \* requests an osrm-routed process serves at a time
          MaxMonitors,  \* bound: creations of the shared monitor
          MaxKills,     \* bound: processes killed from outside
          None

Kinds == {"static", "updatable"}
Names == Datasets \X Kinds
Monitors == 1 .. MaxMonitors
Segments == Datastores \X Kinds
Processes == Datastores \cup Watchers
NoFacade == [k \in Kinds |-> None]
NoKeys == [k \in Kinds |-> None]

ASSUME DataUpdateAssumption ==
    /\ WatchedDataset \in [Watchers -> Datasets]
    /\ Datastores \cap Watchers = {}
    /\ MaxMonitors \in Nat
    /\ MaxKills \in Nat
    /\ None \notin Processes \cup Segments \cup ShmKey \cup Monitors

VARIABLES
    fileLock,   \* holder of osrm-datastore.lock
    created,    \* number of monitors created so far: the newest one
    linked,     \* does the name "osrm-region" refer to the newest monitor?
    regions,    \* register of each monitor: name -> region
    keyInUse,   \* register of each monitor: shm_key_in_use
    mutex,      \* holder of each monitor's interprocess mutex
    waiting,    \* watchers blocked on each monitor's condition variable
    bound,      \* SHM key -> the segment it names
    kills,      \* processes killed so far
    \* osrm-datastore
    dpc, dmon, dataset, onlyMetric, timed, newKey, oldKey, oldSegment,
    attached,   \* segments the datastore maps
    base,       \* contents: static segment its updatable data was built for
    populated,  \* contents: have the blocks been filled in?
    \* osrm-routed
    wpc, wmon, region, facade, query, active, closing

monitorVars == <<created, linked>>
registerVars == <<regions, keyInUse>>
syncVars == <<mutex, waiting>>
sharedVars == <<fileLock, monitorVars, registerVars, syncVars, bound>>
jobVars == <<dmon, dataset, onlyMetric, timed>>
handleVars == <<newKey, oldKey, oldSegment, attached>>
contentVars == <<base, populated>>
storeVars == <<dpc, jobVars, handleVars, contentVars>>
viewVars == <<wmon, region, facade, query>>
endVars == <<active, closing>>
watchVars == <<wpc, viewVars, endVars>>
vars == <<sharedVars, kills, storeVars, watchVars>>

-----------------------------------------------------------------------------

StorePCs == {"idle", "lock", "open", "static", "updatable", "populate", "swap",
             "swapStatic", "swapUpdatable", "unlock", "notify", "remove", "detach",
             "done", "timedout", "failed", "killed"}
FinalPCs == {"done", "timedout", "failed", "killed"}
\* Program points at which a datastore holds osrm-datastore.lock.
LockedPCs == StorePCs \ ({"idle", "lock"} \cup FinalPCs)
\* Program points inside the critical section of swapData.
SwapPCs == {"swapStatic", "swapUpdatable", "unlock"}

WatchPCs == {"off", "ctorLock", "ctorFind", "ctorAttach", "top", "check", "enqueue",
             "attach", "wait", "stopped", "dead"}
\* Program points at which a watcher holds the monitor's mutex.
WatchMutexPCs == {"ctorFind", "ctorAttach", "check", "enqueue", "attach"}
\* The constructor has returned and the process serves queries.
RunningPCs == {"top", "check", "enqueue", "attach", "wait", "stopped"}

Running(w) == wpc[w] \in RunningPCs

\* Does any process other than datastore d map segment s?  (shm_nattch > 1)
MappedByOthers(d, s) ==
    \/ \E e \in Datastores \ {d} : s \in attached[e]
    \/ \E w \in Watchers, k \in Kinds :
          facade[w][k] = s \/ \E q \in Queries : query[w][q][k] = s

-----------------------------------------------------------------------------
Init ==
    /\ fileLock = None
    /\ created = 0
    /\ linked = FALSE
    /\ regions = [m \in Monitors |-> [n \in Names |-> EmptyRegion]]
    /\ keyInUse = [m \in Monitors |-> {}]
    /\ mutex = [m \in Monitors |-> None]
    /\ waiting = [m \in Monitors |-> {}]
    /\ bound = [k \in ShmKey |-> None]
    /\ kills = 0
    /\ dpc = [d \in Datastores |-> "idle"]
    /\ dmon = [d \in Datastores |-> None]
    /\ dataset = [d \in Datastores |-> None]
    /\ onlyMetric = [d \in Datastores |-> FALSE]
    /\ timed = [d \in Datastores |-> FALSE]
    /\ newKey = [d \in Datastores |-> NoKeys]
    /\ oldKey = [d \in Datastores |-> NoKeys]
    /\ oldSegment = [d \in Datastores |-> NoFacade]
    /\ attached = [d \in Datastores |-> {}]
    /\ base = [d \in Datastores |-> None]
    /\ populated = [d \in Datastores |-> FALSE]
    /\ wpc = [w \in Watchers |-> "off"]
    /\ wmon = [w \in Watchers |-> None]
    /\ region = [w \in Watchers |-> [k \in Kinds |-> EmptyRegion]]
    /\ facade = [w \in Watchers |-> NoFacade]
    /\ query = [w \in Watchers |-> [q \in Queries |-> NoFacade]]
    /\ active = [w \in Watchers |-> TRUE]
    /\ closing = [w \in Watchers |-> "no"]

-----------------------------------------------------------------------------
(* osrm-datastore: Storage::Run                                            *)

\* The command line: dataset name, --only-metric, and a --max-wait or none.
Start(d) ==
    /\ dpc[d] = "idle"
    /\ dpc' = [dpc EXCEPT ![d] = "lock"]
    /\ \E ds \in Datasets : dataset' = [dataset EXCEPT ![d] = ds]
    /\ \E b \in BOOLEAN : onlyMetric' = [onlyMetric EXCEPT ![d] = b]
    /\ \E b \in BOOLEAN : timed' = [timed EXCEPT ![d] = b]
    /\ UNCHANGED <<sharedVars, kills, dmon, handleVars, contentVars, watchVars>>

\* try_lock, or else a blocking lock: either way the run goes on as the holder.
AcquireFileLock(d) ==
    /\ dpc[d] = "lock"
    /\ fileLock = None
    /\ fileLock' = d
    /\ dpc' = [dpc EXCEPT ![d] = "open"]
    /\ UNCHANGED <<monitorVars, registerVars, syncVars, bound, kills, jobVars,
                   handleVars, contentVars, watchVars>>

\* open_or_create: map the monitor the name refers to, or create an empty one.
OpenMonitor(d) ==
    /\ dpc[d] = "open"
    /\ dpc' = [dpc EXCEPT ![d] = "static"]
    /\ created' = IF linked THEN created ELSE created + 1
    /\ created' \in Monitors
    /\ linked' = TRUE
    /\ dmon' = [dmon EXCEPT ![d] = created']
    /\ UNCHANGED <<fileLock, registerVars, syncVars, bound, kills, dataset, onlyMetric,
                   timed, handleVars, contentVars, watchVars>>

\* The process ends: its memory is unmapped and the OS drops its file lock.
Exit(d, pc) ==
    /\ dpc' = [dpc EXCEPT ![d] = pc]
    /\ fileLock' = IF fileLock = d THEN None ELSE fileLock
    /\ attached' = [attached EXCEPT ![d] = {}]
    /\ newKey' = [newKey EXCEPT ![d] = NoKeys]
    /\ oldKey' = [oldKey EXCEPT ![d] = NoKeys]
    /\ oldSegment' = [oldSegment EXCEPT ![d] = NoFacade]
    /\ UNCHANGED <<jobVars, contentVars>>

\* A util::exception, which main does not catch: std::terminate unwinds nothing, so that a
\* held mutex stays locked, and CleanupSharedBarriers, the handler of SIGABRT, unlinks the
\* monitor.
Abort(d) ==
    /\ linked' = FALSE
    /\ Exit(d, "failed")
    /\ UNCHANGED <<created, registerVars, syncVars, bound, kills, watchVars>>

\* Mutant of ReuseStatic: the registered region is used without being looked for.
ReuseStaticUnchecked(d) ==
    LET segment == bound[regions[dmon[d]][<<dataset[d], "static">>].shm_key]
    IN  /\ dpc[d] = "static"
        /\ onlyMetric[d]
        /\ attached' = [attached EXCEPT ![d] = @ \cup {segment}]
        /\ base' = [base EXCEPT ![d] = segment]
        /\ dpc' = [dpc EXCEPT ![d] = "updatable"]
        /\ UNCHANGED <<sharedVars, kills, jobVars, newKey, oldKey, oldSegment,
                       populated, watchVars>>

\* --only-metric maps the registered static region instead of loading one.
ReuseStatic(d) ==
    LET name == <<dataset[d], "static">>
        segment == bound[regions[dmon[d]][name].shm_key]
    IN  /\ dpc[d] = "static"
        /\ onlyMetric[d]
        /\ Find(regions[dmon[d]], name)
        /\ attached' = [attached EXCEPT ![d] = @ \cup {segment}]
        /\ base' = [base EXCEPT ![d] = segment]
        /\ dpc' = [dpc EXCEPT ![d] = "updatable"]
        /\ UNCHANGED <<sharedVars, kills, jobVars, newKey, oldKey, oldSegment,
                       populated, watchVars>>

\* "Cannot update the metric to a dataset that does not exist yet."
ReuseStaticThrows(d) ==
    /\ dpc[d] = "static"
    /\ onlyMetric[d]
    /\ ~ Find(regions[dmon[d]], <<dataset[d], "static">>)
    /\ Abort(d)

\* setupRegion: reserve a key; a segment that still has this key is marked for
\* removal, which unbinds the key; then create and map the new segment.
SetupRegion(d, kind) ==
    \E key \in ShmKey :
        /\ IsReservedKey(keyInUse[dmon[d]], key)
        /\ keyInUse' = [keyInUse EXCEPT ![dmon[d]] = @ \cup {key}]
        /\ bound' = [bound EXCEPT ![key] = <<d, kind>>]
        /\ newKey' = [newKey EXCEPT ![d][kind] = key]
        /\ attached' = [attached EXCEPT ![d] = @ \cup {<<d, kind>>}]
        /\ UNCHANGED <<fileLock, monitorVars, regions, syncVars, kills, jobVars, oldKey,
                       oldSegment, populated, watchVars>>

SetupStatic(d) ==
    /\ dpc[d] = "static"
    /\ ~ onlyMetric[d]
    /\ SetupRegion(d, "static")
    /\ base' = [base EXCEPT ![d] = <<d, "static">>]
    /\ dpc' = [dpc EXCEPT ![d] = "updatable"]

SetupUpdatable(d) ==
    /\ dpc[d] = "updatable"
    /\ SetupRegion(d, "updatable")
    /\ dpc' = [dpc EXCEPT ![d] = "populate"]
    /\ UNCHANGED base

\* The program points at which files are looked for and read.
ReadsFiles(d) ==
    /\ dpc[d] \in {"static", "updatable", "populate"}
    /\ ~ (dpc[d] = "static" /\ onlyMetric[d])

\* A read fails: main catches the RuntimeError, and nothing gives the reserved keys back.
InputError(d) ==
    /\ ReadsFiles(d)
    /\ Exit(d, "failed")
    /\ UNCHANGED <<monitorVars, registerVars, syncVars, bound, kills, watchVars>>

\* "Could not find required file(s)", or connectivity checksums that differ.
InputAborts(d) == ReadsFiles(d) /\ Abort(d)

\* "Could not reserve a new SHM key. All keys are in use"
ReserveKeyThrows(d) ==
    /\ \/ dpc[d] = "static" /\ ~ onlyMetric[d]
       \/ dpc[d] = "updatable"
    /\ FreeKeys(keyInUse[dmon[d]]) = {}
    /\ Abort(d)

\* PopulateStaticData (unless --only-metric) and PopulateUpdatableData.
Populate(d) ==
    /\ dpc[d] = "populate"
    /\ populated' = [populated EXCEPT ![d] = TRUE]
    /\ dpc' = [dpc EXCEPT ![d] = "swap"]
    /\ UNCHANGED <<sharedVars, kills, jobVars, handleVars, base, watchVars>>

-----------------------------------------------------------------------------
(* osrm-datastore: swapData                                                *)

LockMonitor(d) ==
    /\ dpc[d] = "swap"
    /\ mutex[dmon[d]] = None
    /\ mutex' = [mutex EXCEPT ![dmon[d]] = d]
    /\ dpc' = [dpc EXCEPT ![d] = IF onlyMetric[d] THEN "swapUpdatable" ELSE "swapStatic"]
    /\ UNCHANGED <<fileLock, monitorVars, registerVars, waiting, bound, kills, jobVars,
                   handleVars, contentVars, watchVars>>

\* timed_lock gives up after max_wait: the new segments are marked for removal.
LockTimeout(d) ==
    /\ dpc[d] = "swap"
    /\ timed[d]
    /\ mutex[dmon[d]] # None
    /\ bound' = [key \in ShmKey |->
                    IF \E kind \in Kinds : newKey[d][kind] = key THEN None ELSE bound[key]]
    /\ Exit(d, "timedout")
    /\ UNCHANGED <<monitorVars, registerVars, syncVars, kills, watchVars>>

\* The handles are swapped in the order of their names.
SwapPC(kind) == IF kind = "static" THEN "swapStatic" ELSE "swapUpdatable"
AfterSwapPC(kind) == IF kind = "static" THEN "swapUpdatable" ELSE "unlock"

RegisterRegion(d, kind) ==
    LET m == dmon[d]
        name == <<dataset[d], kind>>
    IN  /\ dpc[d] = SwapPC(kind)
        /\ ~ Find(regions[m], name)
        /\ CanRegister(regions[m])
        /\ regions' = [regions EXCEPT ![m] = Register(regions[m], name, newKey[d][kind])]
        /\ dpc' = [dpc EXCEPT ![d] = AfterSwapPC(kind)]
        /\ UNCHANGED <<fileLock, monitorVars, keyInUse, syncVars, bound, kills, jobVars,
                       handleVars, contentVars, watchVars>>

ReplaceRegion(d, kind) ==
    LET m == dmon[d]
        name == <<dataset[d], kind>>
        key == regions[m][name].shm_key
    IN  /\ dpc[d] = SwapPC(kind)
        /\ Find(regions[m], name)
        /\ oldKey' = [oldKey EXCEPT ![d][kind] = key]
        /\ oldSegment' = [oldSegment EXCEPT ![d][kind] = bound[key]]
        /\ attached' = [attached EXCEPT ![d] = @ \cup {bound[key]}]
        /\ regions' = [regions EXCEPT ![m] = Replace(regions[m], name, newKey[d][kind])]
        /\ dpc' = [dpc EXCEPT ![d] = AfterSwapPC(kind)]
        /\ UNCHANGED <<fileLock, monitorVars, keyInUse, syncVars, bound, kills, jobVars,
                       newKey, contentVars, watchVars>>

\* "No shared memory regions left": the process dies with the mutex held.
RegisterThrows(d, kind) ==
    /\ dpc[d] = SwapPC(kind)
    /\ ~ Find(regions[dmon[d]], <<dataset[d], kind>>)
    /\ ~ CanRegister(regions[dmon[d]])
    /\ Abort(d)

\* Mutant of UnlockMonitor: notify_all is called inside the scope of the lock.
NotifyInside(d) ==
    /\ dpc[d] = "unlock"
    /\ dpc' = [dpc EXCEPT ![d] = "notify"]
    /\ UNCHANGED <<sharedVars, kills, jobVars, handleVars, contentVars, watchVars>>

UnlockMonitor(d) ==
    /\ dpc[d] = "unlock"
    /\ mutex' = [mutex EXCEPT ![dmon[d]] = None]
    /\ dpc' = [dpc EXCEPT ![d] = "notify"]
    /\ UNCHANGED <<fileLock, monitorVars, registerVars, waiting, bound, kills, jobVars,
                   handleVars, contentVars, watchVars>>

\* Mutant of NotifyAll: no one is notified.
NotifyNobody(d) ==
    /\ dpc[d] = "notify"
    /\ mutex[dmon[d]] = None
    /\ dpc' = [dpc EXCEPT ![d] = "remove"]
    /\ UNCHANGED <<sharedVars, kills, jobVars, handleVars, contentVars, watchVars>>

\* notify_all takes the mutex itself.
NotifyAll(d) ==
    /\ dpc[d] = "notify"
    /\ mutex[dmon[d]] = None
    /\ waiting' = [waiting EXCEPT ![dmon[d]] = {}]
    /\ dpc' = [dpc EXCEPT ![d] = "remove"]
    /\ UNCHANGED <<fileLock, monitorVars, registerVars, mutex, bound, kills, jobVars,
                   handleVars, contentVars, watchVars>>

\* The old handle the clean-up loop is at: static before updatable.
OldKind(d) == IF oldKey[d]["static"] # None THEN "static" ELSE "updatable"

\* Mutant of RemoveOld: the old segment keeps its key.
KeepOldSegment(d) ==
    /\ dpc[d] = "remove"
    /\ oldKey[d] # NoKeys
    /\ dpc' = [dpc EXCEPT ![d] = "detach"]
    /\ UNCHANGED <<sharedVars, kills, jobVars, handleVars, contentVars, watchVars>>

\* Mark the old segment for removal: from now on its key names nothing.
RemoveOld(d) ==
    /\ dpc[d] = "remove"
    /\ oldKey[d] # NoKeys
    /\ bound' = [bound EXCEPT ![oldKey[d][OldKind(d)]] = None]
    /\ dpc' = [dpc EXCEPT ![d] = "detach"]
    /\ UNCHANGED <<fileLock, monitorVars, registerVars, syncVars, kills, jobVars,
                   handleVars, contentVars, watchVars>>

\* Mutant of WaitForDetach: it does not wait.
DetachAtOnce(d) ==
    /\ dpc[d] = "detach"
    /\ keyInUse' = [keyInUse EXCEPT ![dmon[d]] = ReleaseKey(@, oldKey[d][OldKind(d)])]
    /\ oldKey' = [oldKey EXCEPT ![d][OldKind(d)] = None]
    /\ dpc' = [dpc EXCEPT ![d] = "remove"]
    /\ UNCHANGED <<fileLock, monitorVars, regions, syncVars, bound, kills, jobVars,
                   newKey, oldSegment, attached, contentVars, watchVars>>

\* Mutant of WaitForDetach: the key is not released.
KeepOldKey(d) ==
    /\ dpc[d] = "detach"
    /\ ~ MappedByOthers(d, oldSegment[d][OldKind(d)])
    /\ oldKey' = [oldKey EXCEPT ![d][OldKind(d)] = None]
    /\ dpc' = [dpc EXCEPT ![d] = "remove"]
    /\ UNCHANGED <<sharedVars, kills, jobVars, newKey, oldSegment, attached,
                   contentVars, watchVars>>

\* WaitForDetach returns once this process is the only one to map the segment.
WaitForDetach(d) ==
    /\ dpc[d] = "detach"
    /\ ~ MappedByOthers(d, oldSegment[d][OldKind(d)])
    /\ keyInUse' = [keyInUse EXCEPT ![dmon[d]] = ReleaseKey(@, oldKey[d][OldKind(d)])]
    /\ oldKey' = [oldKey EXCEPT ![d][OldKind(d)] = None]
    /\ dpc' = [dpc EXCEPT ![d] = "remove"]
    /\ UNCHANGED <<fileLock, monitorVars, regions, syncVars, bound, kills, jobVars,
                   newKey, oldSegment, attached, contentVars, watchVars>>

\* "All clients switched."
Finish(d) ==
    /\ dpc[d] = "remove"
    /\ oldKey[d] = NoKeys
    /\ Exit(d, "done")
    /\ UNCHANGED <<monitorVars, registerVars, syncVars, bound, kills, watchVars>>

-----------------------------------------------------------------------------
(* osrm-routed: DataWatchdog                                               *)

\* The name of the region of the given kind that w watches.
Watched(w, kind) == <<WatchedDataset[w], kind>>

\* What the watcher's pointers into the register show.
Current(w, kind) == regions[wmon[w]][Watched(w, kind)]

Changed(w, kind) == region[w][kind].timestamp # Current(w, kind).timestamp

\* open_only succeeds only when the name refers to a monitor.
OpenWatched(w) ==
    /\ wpc[w] = "off"
    /\ linked
    /\ wmon' = [wmon EXCEPT ![w] = created]
    /\ wpc' = [wpc EXCEPT ![w] = "ctorLock"]
    /\ UNCHANGED <<sharedVars, kills, storeVars, region, facade, query, endVars>>

CtorLock(w) ==
    /\ wpc[w] = "ctorLock"
    /\ mutex[wmon[w]] = None
    /\ mutex' = [mutex EXCEPT ![wmon[w]] = w]
    /\ wpc' = [wpc EXCEPT ![w] = "ctorFind"]
    /\ UNCHANGED <<fileLock, monitorVars, registerVars, waiting, bound, kills,
                   storeVars, viewVars, endVars>>

CtorFind(w) ==
    /\ wpc[w] = "ctorFind"
    /\ \A kind \in Kinds : Find(regions[wmon[w]], Watched(w, kind))
    /\ region' = [region EXCEPT ![w] = [kind \in Kinds |-> Current(w, kind)]]
    /\ wpc' = [wpc EXCEPT ![w] = "ctorAttach"]
    /\ UNCHANGED <<sharedVars, kills, storeVars, wmon, facade, query, endVars>>

\* The routed process ends; a thread that dies with the mutex leaves it locked.
WatcherDies(w) ==
    /\ wpc' = [wpc EXCEPT ![w] = "dead"]
    /\ facade' = [facade EXCEPT ![w] = NoFacade]
    /\ query' = [query EXCEPT ![w] = [q \in Queries |-> NoFacade]]
    /\ region' = [region EXCEPT ![w] = [k \in Kinds |-> EmptyRegion]]
    /\ active' = [active EXCEPT ![w] = FALSE]
    /\ closing' = [closing EXCEPT ![w] = "no"]
    /\ UNCHANGED wmon

\* "Could not find shared memory region": the constructor throws, osrm-routed catches no
\* util::exception, and the process dies with the mutex held.
CtorThrows(w) ==
    /\ wpc[w] = "ctorFind"
    /\ \E kind \in Kinds : ~ Find(regions[wmon[w]], Watched(w, kind))
    /\ WatcherDies(w)
    /\ UNCHANGED <<sharedVars, kills, storeVars>>

\* The segments that the copied keys name now: what makeSharedMemory opens.
Target(w) == [kind \in Kinds |-> bound[region[w][kind].shm_key]]

\* SharedMemoryAllocator maps both regions; the facade of the factory is replaced
\* (the old one lives on while queries hold it) and the mutex is released.
AttachRegions(w) ==
    /\ wpc[w] \in {"ctorAttach", "attach"}
    /\ \A kind \in Kinds : Target(w)[kind] # None
    /\ facade' = [facade EXCEPT ![w] = Target(w)]
    /\ mutex' = [mutex EXCEPT ![wmon[w]] = None]
    /\ wpc' = [wpc EXCEPT ![w] = "top"]
    /\ UNCHANGED <<fileLock, monitorVars, registerVars, waiting, bound, kills,
                   storeVars, wmon, region, query, endVars>>

\* A key that names no segment: the exception ends the process with the mutex held, be it
\* thrown in the constructor or in the thread.
AttachThrows(w) ==
    /\ wpc[w] \in {"ctorAttach", "attach"}
    /\ \E kind \in Kinds : Target(w)[kind] = None
    /\ WatcherDies(w)
    /\ UNCHANGED <<sharedVars, kills, storeVars>>

\* Run: the head of the outer loop, and the lock it takes.
LoopTop(w) ==
    /\ wpc[w] = "top"
    /\ IF active[w]
         THEN /\ mutex[wmon[w]] = None
              /\ mutex' = [mutex EXCEPT ![wmon[w]] = w]
              /\ wpc' = [wpc EXCEPT ![w] = "check"]
         ELSE /\ wpc' = [wpc EXCEPT ![w] = "stopped"]
              /\ UNCHANGED mutex
    /\ UNCHANGED <<fileLock, monitorVars, registerVars, waiting, bound, kills,
                   storeVars, viewVars, endVars>>

\* Nothing new, and active is still set: wait is called.
NothingNew(w) ==
    /\ wpc[w] = "check"
    /\ active[w]
    /\ \A kind \in Kinds : ~ Changed(w, kind)
    /\ wpc' = [wpc EXCEPT ![w] = "enqueue"]
    /\ UNCHANGED <<sharedVars, kills, storeVars, viewVars, endVars>>

\* wait: enqueue on the condition variable and release the mutex.
Wait(w) ==
    /\ wpc[w] = "enqueue"
    /\ waiting' = [waiting EXCEPT ![wmon[w]] = @ \cup {w}]
    /\ mutex' = [mutex EXCEPT ![wmon[w]] = None]
    /\ wpc' = [wpc EXCEPT ![w] = "wait"]
    /\ UNCHANGED <<fileLock, monitorVars, registerVars, bound, kills, storeVars,
                   viewVars, endVars>>

\* Notified: take the mutex again and re-evaluate the loop's condition.
Wake(w) ==
    /\ wpc[w] = "wait"
    /\ w \notin waiting[wmon[w]]
    /\ mutex[wmon[w]] = None
    /\ mutex' = [mutex EXCEPT ![wmon[w]] = w]
    /\ wpc' = [wpc EXCEPT ![w] = "check"]
    /\ UNCHANGED <<fileLock, monitorVars, registerVars, waiting, bound, kills,
                   storeVars, viewVars, endVars>>

Break(w) ==
    /\ wpc[w] = "check"
    /\ ~ active[w]
    /\ mutex' = [mutex EXCEPT ![wmon[w]] = None]
    /\ wpc' = [wpc EXCEPT ![w] = "stopped"]
    /\ UNCHANGED <<fileLock, monitorVars, registerVars, waiting, bound, kills,
                   storeVars, viewVars, endVars>>

\* Mutant of Copy: at most one region is copied.
CopyFirst(w) ==
    /\ wpc[w] = "check"
    /\ active[w]
    /\ \E kind \in Kinds : Changed(w, kind)
    /\ region' = [region EXCEPT ![w] = [kind \in Kinds |->
                    IF Changed(w, kind) /\ (kind = "static" \/ ~ Changed(w, "static"))
                      THEN Current(w, kind) ELSE region[w][kind]]]
    /\ wpc' = [wpc EXCEPT ![w] = "attach"]
    /\ UNCHANGED <<sharedVars, kills, storeVars, wmon, facade, query, endVars>>

\* Mutant of Copy: the mutex is released before the regions are mapped.
CopyUnlocked(w) ==
    /\ wpc[w] = "check"
    /\ active[w]
    /\ \E kind \in Kinds : Changed(w, kind)
    /\ region' = [region EXCEPT ![w] = [kind \in Kinds |-> Current(w, kind)]]
    /\ mutex' = [mutex EXCEPT ![wmon[w]] = None]
    /\ wpc' = [wpc EXCEPT ![w] = "attach"]
    /\ UNCHANGED <<fileLock, monitorVars, registerVars, waiting, bound, kills, storeVars,
                   wmon, facade, query, endVars>>

\* Copy every region whose timestamp changed.
Copy(w) ==
    /\ wpc[w] = "check"
    /\ active[w]
    /\ \E kind \in Kinds : Changed(w, kind)
    /\ region' = [region EXCEPT ![w] = [kind \in Kinds |->
                    IF Changed(w, kind) THEN Current(w, kind) ELSE region[w][kind]]]
    /\ wpc' = [wpc EXCEPT ![w] = "attach"]
    /\ UNCHANGED <<sharedVars, kills, storeVars, wmon, facade, query, endVars>>

-----------------------------------------------------------------------------
(* osrm-routed: queries and the watchdog's destructor                      *)

\* Get: the query shares the ownership of the facade of that moment.
Get(w, q) ==
    /\ Running(w)
    /\ closing[w] = "no"
    /\ query[w][q] = NoFacade
    /\ query' = [query EXCEPT ![w][q] = facade[w]]
    /\ UNCHANGED <<sharedVars, kills, storeVars, wpc, wmon, region, facade, endVars>>

EndQuery(w, q) ==
    /\ query[w][q] # NoFacade
    /\ query' = [query EXCEPT ![w][q] = NoFacade]
    /\ UNCHANGED <<sharedVars, kills, storeVars, wpc, wmon, region, facade, endVars>>

\* ~DataWatchdog runs when the engine is destroyed, after its last query.
Deactivate(w) ==
    /\ Running(w)
    /\ closing[w] = "no"
    /\ \A q \in Queries : query[w][q] = NoFacade
    /\ active' = [active EXCEPT ![w] = FALSE]
    /\ closing' = [closing EXCEPT ![w] = "notify"]
    /\ UNCHANGED <<sharedVars, kills, storeVars, wpc, viewVars>>

\* Mutant of NotifyWatcher: the mutex is not taken for it.
NotifyUnlocked(w) ==
    /\ closing[w] = "notify"
    /\ waiting' = [waiting EXCEPT ![wmon[w]] = {}]
    /\ closing' = [closing EXCEPT ![w] = "join"]
    /\ UNCHANGED <<fileLock, monitorVars, registerVars, mutex, bound, kills, storeVars,
                   wpc, viewVars, active>>

NotifyWatcher(w) ==
    /\ closing[w] = "notify"
    /\ mutex[wmon[w]] = None
    /\ waiting' = [waiting EXCEPT ![wmon[w]] = {}]
    /\ closing' = [closing EXCEPT ![w] = "join"]
    /\ UNCHANGED <<fileLock, monitorVars, registerVars, mutex, bound, kills, storeVars,
                   wpc, viewVars, active>>

Join(w) ==
    /\ closing[w] = "join"
    /\ wpc[w] = "stopped"
    /\ WatcherDies(w)
    /\ UNCHANGED <<sharedVars, kills, storeVars>>

-----------------------------------------------------------------------------
(* What happens to the processes from outside                              *)

\* SIGKILL or power to the OOM killer: no handler runs, a held mutex stays locked.
KillDatastore(d) ==
    /\ kills < MaxKills
    /\ kills' = kills + 1
    /\ dpc[d] \in LockedPCs \cup {"lock"}
    /\ Exit(d, "killed")
    /\ UNCHANGED <<monitorVars, registerVars, syncVars, bound, watchVars>>

KillWatcher(w) ==
    /\ kills < MaxKills
    /\ kills' = kills + 1
    /\ wpc[w] \notin {"off", "dead"}
    /\ WatcherDies(w)
    /\ UNCHANGED <<sharedVars, storeVars>>

\* CleanupSharedBarriers: a datastore that gets SIGTERM, SIGINT, ... unlinks the
\* monitor and exits.  Whoever has mapped the monitor goes on using it.
TerminateDatastore(d) ==
    /\ kills < MaxKills
    /\ kills' = kills + 1
    /\ dpc[d] \in LockedPCs \cup {"lock"}
    /\ created < MaxMonitors
    /\ linked' = FALSE
    /\ Exit(d, "killed")
    /\ UNCHANGED <<created, registerVars, syncVars, bound, watchVars>>

\* osrm-datastore --remove-locks
RemoveLocks ==
    /\ linked
    /\ created < MaxMonitors
    /\ linked' = FALSE
    /\ UNCHANGED <<fileLock, created, registerVars, syncVars, bound, kills, storeVars,
                   watchVars>>

-----------------------------------------------------------------------------

\* The steps a datastore takes on its own until it ends.
StoreStep(d) ==
    \/ AcquireFileLock(d) \/ OpenMonitor(d)
    \/ ReuseStatic(d) \/ ReuseStaticThrows(d) \/ SetupStatic(d) \/ SetupUpdatable(d)
    \/ ReserveKeyThrows(d) \/ Populate(d)
    \/ LockMonitor(d)
    \/ \E kind \in Kinds :
          RegisterRegion(d, kind) \/ ReplaceRegion(d, kind) \/ RegisterThrows(d, kind)
    \/ UnlockMonitor(d) \/ NotifyAll(d) \/ RemoveOld(d) \/ WaitForDetach(d) \/ Finish(d)

\* The steps of the threads of an osrm-routed process.
ThreadStep(w) ==
    \/ CtorLock(w) \/ CtorFind(w) \/ CtorThrows(w) \/ AttachRegions(w) \/ AttachThrows(w)
    \/ LoopTop(w) \/ NothingNew(w) \/ Wait(w) \/ Wake(w) \/ Break(w) \/ Copy(w)

CloseStep(w) == NotifyWatcher(w) \/ Join(w)

Next ==
    \/ \E d \in Datastores :
          \/ Start(d) \/ StoreStep(d) \/ InputError(d) \/ InputAborts(d) \/ LockTimeout(d)
          \/ KillDatastore(d) \/ TerminateDatastore(d)
    \/ \E w \in Watchers :
          \/ OpenWatched(w) \/ ThreadStep(w) \/ Deactivate(w) \/ CloseStep(w) \/ KillWatcher(w)
          \/ \E q \in Queries : Get(w, q) \/ EndQuery(w, q)
    \/ RemoveLocks

Spec == Init /\ [][Next]_vars

\* Every started process keeps running, a timed wait ends, and every query does.  Nothing
\* makes a datastore, a watcher or a query start, and nothing makes a process die.
Fairness ==
    /\ \A d \in Datastores : WF_vars(StoreStep(d)) /\ WF_vars(LockTimeout(d))
    /\ \A w \in Watchers :
         /\ WF_vars(ThreadStep(w))
         /\ WF_vars(CloseStep(w))
         /\ \A q \in Queries : WF_vars(EndQuery(w, q))

FairSpec == Spec /\ Fairness

-----------------------------------------------------------------------------
(* Properties                                                              *)

TypeOK ==
    /\ fileLock \in Datastores \cup {None}
    /\ created \in 0 .. MaxMonitors
    /\ linked \in BOOLEAN
    /\ regions \in [Monitors -> [Names -> SharedRegion]]
    /\ keyInUse \in [Monitors -> SUBSET ShmKey]
    /\ mutex \in [Monitors -> Processes \cup {None}]
    /\ waiting \in [Monitors -> SUBSET Watchers]
    /\ bound \in [ShmKey -> Segments \cup {None}]
    /\ kills \in Nat
    /\ dpc \in [Datastores -> StorePCs]
    /\ dmon \in [Datastores -> Monitors \cup {None}]
    /\ dataset \in [Datastores -> Datasets \cup {None}]
    /\ onlyMetric \in [Datastores -> BOOLEAN]
    /\ timed \in [Datastores -> BOOLEAN]
    /\ newKey \in [Datastores -> [Kinds -> ShmKey \cup {None}]]
    /\ oldKey \in [Datastores -> [Kinds -> ShmKey \cup {None}]]
    /\ oldSegment \in [Datastores -> [Kinds -> Segments \cup {None}]]
    /\ attached \in [Datastores -> SUBSET Segments]
    /\ base \in [Datastores -> Segments \cup {None}]
    /\ populated \in [Datastores -> BOOLEAN]
    /\ wpc \in [Watchers -> WatchPCs]
    /\ wmon \in [Watchers -> Monitors \cup {None}]
    /\ region \in [Watchers -> [Kinds -> SharedRegion]]
    /\ facade \in [Watchers -> [Kinds -> Segments \cup {None}]]
    /\ query \in [Watchers -> [Queries -> [Kinds -> Segments \cup {None}]]]
    /\ active \in [Watchers -> BOOLEAN]
    /\ closing \in [Watchers -> {"no", "notify", "join"}]

\* Two segments that belong together: completely loaded, of dataset ds, and the
\* updatable one was built for this very static one.
Coherent(f, ds) ==
    /\ \A k \in Kinds : /\ f[k] \in Segments
                         /\ f[k][2] = k
                         /\ dataset[f[k][1]] = ds
                         /\ populated[f[k][1]]
    /\ base[f["updatable"][1]] = f["static"]

\* The facade a routed process hands to its queries, and the one any running query
\* still holds, consists of completely loaded regions that belong together, no
\* matter which updates, failures and restarts of datastores it lived through.
\* (A process that still uses a monitor that --remove-locks took away is excepted.)
FacadeCoherent ==
    \A w \in Watchers : wmon[w] = created =>
        /\ Running(w) => Coherent(facade[w], WatchedDataset[w])
        /\ \A q \in Queries :
              query[w][q] # NoFacade => Coherent(query[w][q], WatchedDataset[w])

\* Between copying the keys out of the register and mapping them the segments cannot
\* vanish: SharedMemoryAllocator never throws in the watchdog thread, where the
\* exception would end the process with the monitor's mutex held.
AttachFindsRegions ==
    \A w \in Watchers :
        wmon[w] = created /\ wpc[w] \in {"ctorAttach", "attach"} =>
            Coherent(Target(w), WatchedDataset[w])

\* setupRegion's removal of an old segment is needed "only for failure recovery":
\* while the first monitor is in use no free key names a segment.
FreeKeysUnbound ==
    created = 1 => \A key \in FreeKeys(keyInUse[1]) : bound[key] = None

\* swapData's "All clients switched": once WaitForDetach has returned for an old
\* segment and its key is released, no process maps it and none can map it again.
AllClientsSwitched ==
    \A d \in Datastores, k \in Kinds :
        /\ dpc[d] \in {"remove", "detach"}
        /\ oldSegment[d][k] # None
        /\ oldKey[d][k] = None
        => /\ ~ MappedByOthers(d, oldSegment[d][k])
           /\ \A key \in ShmKey : bound[key] # oldSegment[d][k]

\* No datastore has been killed, has thrown or has given up waiting.
NoFailure == \A d \in Datastores : dpc[d] \notin {"killed", "failed", "timedout"}

RegisteredKeys(m) ==
    {regions[m][n].shm_key : n \in {n \in Names : Find(regions[m], n)}}

HandleKeys(m) ==
    UNION {{newKey[d][k], oldKey[d][k]} : d \in {d \in Datastores : dmon[d] = m}, k \in Kinds}

\* Without failures the register's keys are exactly those of the registered regions
\* and of the handles of the datastore at work: none leaks, none is released early.
KeysAccountedFor ==
    NoFailure => \A m \in Monitors :
        keyInUse[m] = RegisteredKeys(m) \cup (HandleKeys(m) \ {None})

\* Twice as many keys as regions are enough: without failures ReserveKey never throws.
KeysSuffice ==
    NoFailure => \A d \in Datastores :
        dpc[d] \in {"static", "updatable"} => FreeKeys(keyInUse[dmon[d]]) # {}

\* Memory that exists: a key names the segment or a process maps it.
Exists(s) ==
    \/ \E key \in ShmKey : bound[key] = s
    \/ \E d \in Datastores : s \in attached[d]
    \/ \E w \in Watchers, k \in Kinds :
          facade[w][k] = s \/ \E q \in Queries : query[w][q][k] = s

\* Without failures memory never holds more than the old and the new copy of a region.
AtMostTwoCopies ==
    NoFailure /\ created <= 1 => \A n \in Names :
        Cardinality({d \in Datastores : dataset[d] = n[1] /\ Exists(<<d, n[2]>>)}) <= 2

\* A dataset's two regions are registered together or not at all, outside the critical
\* section of a datastore that is at work there or was killed: when the register is full,
\* Register throws before it has taken the last region for half a dataset.
RegisteredInPairs ==
    \A m \in Monitors :
        (\A d \in Datastores : mutex[m] = d => dpc[d] = "failed") =>
            \A ds \in Datasets :
                Find(regions[m], <<ds, "static">>) <=> Find(regions[m], <<ds, "updatable">>)

\* Some process died inside the critical section of monitor m: it was killed, or an
\* exception that nobody catches ended it.
MutexLost(m) ==
    \/ \E d \in Datastores : mutex[m] = d /\ dpc[d] \in {"killed", "failed"}
    \/ \E w \in Watchers : mutex[m] = w /\ wpc[w] = "dead"

\* A datastore that was started ends, unless a process died with the mutex: neither
\* the wait for the clients to detach nor the locks can block it for ever.
DatastoreEnds ==
    \A d \in Datastores :
        dpc[d] = "lock" ~> dpc[d] \in FinalPCs \/ \E m \in Monitors : MutexLost(m)

\* The facade of w is older than what the register of its monitor shows.
OutOfDate(w) == Running(w) /\ \E kind \in Kinds : Changed(w, kind)

\* A watcher whose dataset was replaced maps the new regions, unless it is closed or
\* dies: no notification is lost.  (A datastore that is killed after it has published
\* the regions and before notify_all notifies nobody; the next one does.)
WatcherCatchesUp ==
    \A w \in Watchers :
        OutOfDate(w) ~> \/ ~ OutOfDate(w) \/ ~ active[w]
                        \/ \E m \in Monitors : MutexLost(m)
                        \/ \E d \in Datastores : dpc[d] = "killed"

\* The destructor's join returns, unless a process died with the mutex: the watchdog thread
\* sees active = false although the destructor clears it without the mutex.
DestructorReturns ==
    \A w \in Watchers :
        closing[w] = "notify" ~> wpc[w] = "dead" \/ \E m \in Monitors : MutexLost(m)

-----------------------------------------------------------------------------
(* What the documentation says and the code does not do                    *)

\* osrm-datastore --help: --max-wait is the "Maximum number of seconds to wait on a
\* running data update before aquiring the lock by force": unless it is killed, a
\* datastore whose wait in swapData ends has the monitor's mutex.
WaitEndsWithLock ==
    [][\A d \in Datastores :
          dpc[d] = "swap" /\ dpc'[d] \notin {"swap", "killed"} => mutex'[dmon[d]] = d]_vars
=============================================================================
