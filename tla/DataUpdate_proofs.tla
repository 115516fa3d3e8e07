-------------------------- MODULE DataUpdate_proofs --------------------------
(***************************************************************************)
(* Proofs about DataUpdate for every number of datasets, datastores,       *)
(* routed processes, queries and monitors.  UpdateInv is inductive.  Each  *)
(* lemma below shows that the steps preserve one part of it, given that    *)
(* the whole held before the step.  The second part is about resources:    *)
(* keys, regions and segments.                                             *)
(***************************************************************************)
EXTENDS DataUpdateKeys, FiniteSetTheorems, TLAPS

StoreAction(d) ==
    \/ Start(d) \/ StoreStep(d) \/ InputError(d) \/ InputAborts(d) \/ LockTimeout(d)
    \/ KillDatastore(d) \/ TerminateDatastore(d)

WatchAction(w) ==
    \/ OpenWatched(w) \/ ThreadStep(w) \/ Deactivate(w) \/ CloseStep(w) \/ KillWatcher(w)
    \/ \E q \in Queries : Get(w, q) \/ EndQuery(w, q)

USE DEF sharedVars, monitorVars, registerVars, syncVars, jobVars, handleVars, contentVars,
        storeVars, viewVars, endVars, watchVars

registerSide == <<fileLock, created, regions, keyInUse, bound, storeVars>>

\* A step is one of a datastore, of a routed process, or of osrm-datastore --remove-locks.
LEMMA NextCases ==
    Next <=> \/ \E d \in Datastores : StoreAction(d)
             \/ \E w \in Watchers : WatchAction(w)
             \/ RemoveLocks
  BY DEF Next, StoreAction, WatchAction

\* No step of a routed process touches the register, the segments or a datastore.
LEMMA WatchFrame ==
    ASSUME NEW w \in Watchers, WatchAction(w)
    PROVE  UNCHANGED registerSide /\ UNCHANGED linked
  BY DEF WatchAction, ThreadStep, CloseStep, OpenWatched, CtorLock, CtorFind, CtorThrows,
         AttachRegions, AttachThrows, LoopTop, NothingNew, Wait, Wake, Break, Copy, Deactivate,
         NotifyWatcher, Join, KillWatcher, Get, EndQuery, WatcherDies, registerSide,
         sharedVars, monitorVars, registerVars, syncVars, storeVars

\* No step of a datastore touches a routed process.
LEMMA StoreFrame ==
    ASSUME NEW d \in Datastores, StoreAction(d)
    PROVE  UNCHANGED watchVars
  BY DEF StoreAction, StoreStep, Start, AcquireFileLock, OpenMonitor, ReuseStatic,
         ReuseStaticThrows, SetupStatic, SetupUpdatable, SetupRegion, ReserveKeyThrows,
         Populate, LockMonitor, RegisterRegion, ReplaceRegion, RegisterThrows, UnlockMonitor,
         NotifyAll, RemoveOld, WaitForDetach, Finish, InputError, InputAborts, Abort, ReadsFiles,
         LockTimeout, KillDatastore,
         TerminateDatastore

-----------------------------------------------------------------------------

\* A datastore past the creation of the monitor.
LEMMA ActiveStore ==
    ASSUME UpdateInv, NEW d \in Datastores, dpc[d] \in LockedPCs \ {"open"}
    PROVE  /\ fileLock = d
           /\ dmon[d] = created
           /\ created \in Monitors
           /\ dataset[d] \in Datasets
  BY DEF UpdateInv, StoreLockInv, ContentInv, LockedPCs, FinalPCs, StorePCs

\* What the newest register holds under a registered name.
LEMMA RegisteredRegion ==
    ASSUME UpdateInv, NEW ds \in Datasets, NEW k \in Kinds, Registered(ds, k)
    PROVE  /\ Newest(ds, k) \in SharedRegion
           /\ Newest(ds, k).shm_key \in ShmKey
           /\ Newest(ds, k).shm_key \in keyInUse[created]
           /\ Leads(ds, k) \in Segments
           /\ \E e \in Datastores : Leads(ds, k) = <<e, k>> /\ dataset[e] = ds /\ populated[e]
  <1>1. /\ Newest(ds, k).shm_key \in keyInUse[created]
        /\ \E e \in Datastores : Leads(ds, k) = <<e, k>> /\ dataset[e] = ds /\ populated[e]
    BY DEF UpdateInv, RegisterInv
  <1>2. Newest(ds, k) \in SharedRegion
    BY DEF UpdateInv, TypeOK, Registered, Newest, Names
  <1>. QED
    BY <1>1, <1>2 DEF SharedRegion, Segments

\* The key of a region that is about to be published.
LEMMA UnpublishedKey ==
    ASSUME UpdateInv, NEW d \in Datastores, NEW k \in Kinds, dpc[d] = SwapPC(k)
    PROVE  /\ dpc[d] \in LockedPCs \ {"open"}
           /\ newKey[d][k] \in ShmKey
           /\ newKey[d][k] \in keyInUse[created]
           /\ bound[newKey[d][k]] = <<d, k>>
           /\ \A ds \in Datasets : Registered(ds, k) => Leads(ds, k) # <<d, k>>
           /\ populated[d]
  <1>1. dpc[d] \in BeforeSwap(k) /\ (k = "static" => ~ onlyMetric[d]) /\ populated[d]
    BY DEF UpdateInv, SwapPC, BeforeSwap, ContentInv, Kinds, AfterPopulate
  <1>2. dpc[d] \in LockedPCs \ {"open"}
    BY DEF SwapPC, LockedPCs, StorePCs, FinalPCs
  <1>. QED
    BY <1>1, <1>2 DEF UpdateInv, NewKeyInv

-----------------------------------------------------------------------------

\* The steps of a datastore keep every variable in its type.
LEMMA TypeStore ==
    ASSUME UpdateInv, NEW d \in Datastores, StoreAction(d)
    PROVE  TypeOK'
  <1>0. TypeOK
    BY DEF UpdateInv
  <1>. USE <1>0 DEF TypeOK, StorePCs, Processes
  <1>1. CASE Start(d)
    BY <1>1 DEF Start
  <1>2. CASE AcquireFileLock(d)
    BY <1>2 DEF AcquireFileLock
  <1>3. CASE OpenMonitor(d)
    BY <1>3 DEF OpenMonitor, Monitors
  <1>4. CASE ReuseStatic(d)
    <2>1. dataset[d] \in Datasets /\ dmon[d] = created /\ created \in Monitors
      BY <1>4, ActiveStore DEF ReuseStatic, LockedPCs, FinalPCs
    <2>2. bound[regions[dmon[d]][<<dataset[d], "static">>].shm_key] \in Segments
      BY ONLY <1>4, <2>1, UpdateInv, RegisteredRegion
         DEF ReuseStatic, Registered, Leads, Newest, Find, Kinds
    <2>. QED
      BY <1>4, <2>2 DEF ReuseStatic
  <1>5. CASE ReuseStaticThrows(d)
    BY <1>5 DEF Abort, ReuseStaticThrows, Exit, NoKeys, NoFacade
  <1>6. CASE SetupStatic(d)
    <2>1. PICK key \in ShmKey : SetupRegion(d, "static")!(key)
      BY <1>6 DEF SetupStatic, SetupRegion
    <2>2. newKey' \in [Datastores -> [Kinds -> ShmKey \cup {None}]]
      BY <2>1 DEF Kinds
    <2>3. <<d, "static">> \in Segments
      BY DEF Segments, Kinds
    <2>4. /\ keyInUse' \in [Monitors -> SUBSET ShmKey]
          /\ bound' \in [ShmKey -> Segments \cup {None}]
          /\ attached' \in [Datastores -> SUBSET Segments]
      BY <2>1, <2>3
    <2>. QED
      BY <1>6, <2>1, <2>2, <2>3, <2>4 DEF SetupStatic
  <1>7. CASE SetupUpdatable(d)
    <2>1. PICK key \in ShmKey : SetupRegion(d, "updatable")!(key)
      BY <1>7 DEF SetupUpdatable, SetupRegion
    <2>2. newKey' \in [Datastores -> [Kinds -> ShmKey \cup {None}]]
      BY <2>1 DEF Kinds
    <2>3. <<d, "updatable">> \in Segments
      BY DEF Segments, Kinds
    <2>4. /\ keyInUse' \in [Monitors -> SUBSET ShmKey]
          /\ bound' \in [ShmKey -> Segments \cup {None}]
          /\ attached' \in [Datastores -> SUBSET Segments]
      BY <2>1, <2>3
    <2>. QED
      BY <1>7, <2>1, <2>2, <2>3, <2>4 DEF SetupUpdatable
  <1>8. CASE ReserveKeyThrows(d)
    BY <1>8 DEF Abort, ReserveKeyThrows, Exit, NoKeys, NoFacade
  <1>9. CASE Populate(d)
    BY <1>9 DEF Populate
  <1>10. CASE LockMonitor(d)
    BY <1>10 DEF LockMonitor
  <1>11. ASSUME NEW kind \in Kinds, RegisterRegion(d, kind) PROVE TypeOK'
    <2>1. /\ newKey[d][kind] \in ShmKey
          /\ dataset[d] \in Datasets /\ dmon[d] \in Monitors
      BY ONLY <1>11, UpdateInv, UnpublishedKey, ActiveStore DEF RegisterRegion
    <2>2. [timestamp |-> INITIAL_TIMESTAMP, shm_key |-> newKey[d][kind]] \in SharedRegion
      BY ONLY <2>1 DEF INITIAL_TIMESTAMP, SharedRegion
    <2>3. regions' \in [Monitors -> [Names -> SharedRegion]]
      BY <1>11, <2>1, <2>2 DEF RegisterRegion, Register
    <2>. QED
      BY <1>11, <2>3 DEF RegisterRegion, AfterSwapPC
  <1>12. ASSUME NEW kind \in Kinds, ReplaceRegion(d, kind) PROVE TypeOK'
    <2>1. /\ newKey[d][kind] \in ShmKey
          /\ dataset[d] \in Datasets /\ dmon[d] = created /\ created \in Monitors
      BY ONLY <1>12, UpdateInv, UnpublishedKey, ActiveStore DEF ReplaceRegion
    <2>2. Registered(dataset[d], kind)
      BY ONLY <1>12, <2>1 DEF ReplaceRegion, Registered, Newest, Find
    <2>3. /\ Newest(dataset[d], kind).timestamp \in Nat
          /\ Newest(dataset[d], kind).shm_key \in ShmKey
          /\ Leads(dataset[d], kind) \in Segments
      BY ONLY <2>1, <2>2, UpdateInv, RegisteredRegion DEF SharedRegion
    <2>4. [timestamp |-> Newest(dataset[d], kind).timestamp + 1,
           shm_key |-> newKey[d][kind]] \in SharedRegion
      BY ONLY <2>1, <2>3 DEF SharedRegion
    <2>5. regions' \in [Monitors -> [Names -> SharedRegion]]
      BY <1>12, <2>1, <2>4 DEF ReplaceRegion, Replace, Newest
    <2>. QED
      BY <1>12, <2>1, <2>3, <2>5 DEF ReplaceRegion, AfterSwapPC, Newest, Leads
  <1>13. ASSUME NEW kind \in Kinds, RegisterThrows(d, kind) PROVE TypeOK'
    BY <1>13 DEF Abort, RegisterThrows, Exit, NoKeys, NoFacade
  <1>14. CASE UnlockMonitor(d)
    BY <1>14 DEF UnlockMonitor
  <1>15. CASE NotifyAll(d)
    BY <1>15 DEF NotifyAll
  <1>16. CASE RemoveOld(d)
    BY <1>16 DEF RemoveOld
  <1>17. CASE WaitForDetach(d)
    BY <1>17 DEF WaitForDetach, ReleaseKey
  <1>18. CASE Finish(d)
    BY <1>18 DEF Finish, Exit, NoKeys, NoFacade
  <1>19. CASE InputError(d)
    BY <1>19 DEF InputError, Exit, NoKeys, NoFacade
  <1>23. CASE InputAborts(d)
    BY <1>23 DEF InputAborts, Abort, Exit, NoKeys, NoFacade
  <1>20. CASE LockTimeout(d)
    BY <1>20 DEF LockTimeout, Exit, NoKeys, NoFacade
  <1>21. CASE KillDatastore(d)
    BY <1>21 DEF KillDatastore, Exit, NoKeys, NoFacade
  <1>22. CASE TerminateDatastore(d)
    <2>1. linked' \in BOOLEAN
      BY <1>22 DEF TerminateDatastore
    <2>2. kills' \in Nat
      BY <1>22 DEF TerminateDatastore
    <2>3. /\ newKey' \in [Datastores -> [Kinds -> ShmKey \cup {None}]]
          /\ oldKey' \in [Datastores -> [Kinds -> ShmKey \cup {None}]]
          /\ oldSegment' \in [Datastores -> [Kinds -> Segments \cup {None}]]
      BY <1>22 DEF TerminateDatastore, Exit, NoKeys, NoFacade
    <2>. QED
      BY <1>22, <2>1, <2>2, <2>3 DEF TerminateDatastore, Exit
  <1>. QED
    BY <1>1, <1>2, <1>3, <1>4, <1>5, <1>6, <1>7, <1>8, <1>9, <1>10, <1>11, <1>12, <1>13,
       <1>14, <1>15, <1>16, <1>17, <1>18, <1>19, <1>20, <1>21, <1>22, <1>23
       DEF StoreAction, StoreStep

\* The steps of a routed process keep the types.
LEMMA TypeWatch ==
    ASSUME UpdateInv, NEW w \in Watchers, WatchAction(w)
    PROVE  TypeOK'
  <1>0. TypeOK /\ UNCHANGED registerSide /\ UNCHANGED linked
    BY WatchFrame DEF UpdateInv
  <1>1. wpc[w] # "off" => wmon[w] \in Monitors
    BY DEF UpdateInv, MonitorInv
  <1>2. Target(w) \in [Kinds -> Segments \cup {None}]
    BY <1>0 DEF Target, TypeOK, SharedRegion
  <1>3. \A kind \in Kinds : Watched(w, kind) \in Names
    BY DataUpdateAssumption DEF Watched, Names
  <1>. USE <1>0 DEF TypeOK, WatchPCs, Processes, registerSide
  <1>4. CASE OpenWatched(w)
    <2>1. created \in Monitors
      BY <1>4 DEF OpenWatched, UpdateInv, MonitorInv
    <2>. QED
      BY <1>4, <2>1 DEF OpenWatched
  <1>5. CASE CtorLock(w)
    BY <1>5 DEF CtorLock
  <1>6. CASE CtorFind(w)
    <2>1. \A kind \in Kinds : Current(w, kind) \in SharedRegion
      BY <1>1, <1>3, <1>6 DEF CtorFind, Current
    <2>2. region' \in [Watchers -> [Kinds -> SharedRegion]]
      BY <1>6, <2>1 DEF CtorFind
    <2>. QED
      BY <1>6, <2>2 DEF CtorFind
  <1>7. ASSUME WatcherDies(w) PROVE
             /\ facade' \in [Watchers -> [Kinds -> Segments \cup {None}]]
             /\ query' \in [Watchers -> [Queries -> [Kinds -> Segments \cup {None}]]]
             /\ region' \in [Watchers -> [Kinds -> SharedRegion]]
             /\ active' \in [Watchers -> BOOLEAN]
             /\ wpc' \in [Watchers -> WatchPCs]
             /\ closing' \in [Watchers -> {"no", "notify", "join"}]
             /\ wmon' = wmon
    <2>1. EmptyRegion \in SharedRegion
      BY MaxSharedRegionsAssumption DEF EmptyRegion, SharedRegion, ShmKey, MAX_SHM_KEYS
    <2>2. active' \in [Watchers -> BOOLEAN]
      BY <1>7 DEF WatcherDies
    <2>. QED
      BY <1>7, <2>1, <2>2 DEF WatcherDies, NoFacade
  <1>8. CASE CtorThrows(w)
    BY <1>7, <1>8 DEF CtorThrows
  <1>9. CASE AttachRegions(w)
    BY <1>2, <1>9 DEF AttachRegions
  <1>10. CASE AttachThrows(w)
    BY <1>7, <1>10 DEF AttachThrows
  <1>11. CASE LoopTop(w)
    <2>1. \/ mutex' = [mutex EXCEPT ![wmon[w]] = w] /\ wpc' = [wpc EXCEPT ![w] = "check"]
          \/ mutex' = mutex /\ wpc' = [wpc EXCEPT ![w] = "stopped"]
      BY ONLY <1>11, Zenon DEF LoopTop
    <2>2. mutex' \in [Monitors -> Processes \cup {None}] /\ wpc' \in [Watchers -> WatchPCs]
      <3>1. /\ mutex \in [Monitors -> Processes \cup {None}]
            /\ wpc \in [Watchers -> WatchPCs]
            /\ w \in Processes
            /\ "check" \in WatchPCs /\ "stopped" \in WatchPCs
        OBVIOUS
      <3>. QED
        BY ONLY <2>1, <3>1
    <2>. QED
      BY <1>11, <2>1, <2>2 DEF LoopTop
  <1>12. CASE NothingNew(w)
    BY <1>12 DEF NothingNew
  <1>22. CASE Wait(w)
    BY <1>22 DEF Wait
  <1>13. CASE Wake(w)
    BY <1>13 DEF Wake
  <1>14. CASE Break(w)
    BY <1>14 DEF Break
  <1>15. CASE Copy(w)
    <2>1. \A kind \in Kinds : Current(w, kind) \in SharedRegion
      BY <1>1, <1>3, <1>15 DEF Copy, Current
    <2>2. region' \in [Watchers -> [Kinds -> SharedRegion]]
      BY <1>15, <2>1 DEF Copy
    <2>. QED
      BY <1>15, <2>2 DEF Copy
  <1>16. ASSUME NEW q \in Queries, Get(w, q) PROVE TypeOK'
    <2>1. query' \in [Watchers -> [Queries -> [Kinds -> Segments \cup {None}]]]
      BY <1>16 DEF Get
    <2>. QED
      BY <1>16, <2>1 DEF Get
  <1>17. ASSUME NEW q \in Queries, EndQuery(w, q) PROVE TypeOK'
    <2>1. query' \in [Watchers -> [Queries -> [Kinds -> Segments \cup {None}]]]
      BY <1>17 DEF EndQuery, NoFacade
    <2>. QED
      BY <1>17, <2>1 DEF EndQuery
  <1>18. CASE Deactivate(w)
    <2>1. active' \in [Watchers -> BOOLEAN]
      BY <1>18 DEF Deactivate
    <2>. QED
      BY <1>18, <2>1 DEF Deactivate
  <1>19. CASE NotifyWatcher(w)
    BY <1>19 DEF NotifyWatcher
  <1>20. CASE Join(w)
    BY <1>7, <1>20 DEF Join
  <1>21. CASE KillWatcher(w)
    BY <1>7, <1>21 DEF KillWatcher
  <1>. QED
    BY <1>4, <1>5, <1>6, <1>8, <1>9, <1>10, <1>11, <1>12, <1>13, <1>14, <1>15, <1>16, <1>17,
       <1>18, <1>19, <1>20, <1>21, <1>22 DEF WatchAction, ThreadStep, CloseStep

\* Types are kept by every step.
LEMMA TypeNext == UpdateInv /\ [Next]_vars => TypeOK'
  <1>. SUFFICES ASSUME UpdateInv, [Next]_vars PROVE TypeOK'
    OBVIOUS
  <1>1. CASE RemoveLocks
    <2>1. linked' \in BOOLEAN
      BY <1>1 DEF RemoveLocks
    <2>. QED
      BY <1>1, <2>1 DEF RemoveLocks, UpdateInv, TypeOK
  <1>2. CASE UNCHANGED vars
    BY <1>2 DEF vars, UpdateInv, TypeOK
  <1>. QED
    BY <1>1, <1>2, NextCases, TypeStore, TypeWatch

-----------------------------------------------------------------------------

\* A step of a datastore changes no other datastore's own state.
LEMMA OtherStores ==
    ASSUME UpdateInv, NEW d \in Datastores, StoreAction(d), NEW e \in Datastores, e # d
    PROVE  /\ dpc'[e] = dpc[e] /\ dmon'[e] = dmon[e] /\ dataset'[e] = dataset[e]
           /\ onlyMetric'[e] = onlyMetric[e] /\ newKey'[e] = newKey[e]
           /\ oldKey'[e] = oldKey[e] /\ oldSegment'[e] = oldSegment[e]
           /\ attached'[e] = attached[e] /\ base'[e] = base[e] /\ populated'[e] = populated[e]
  <1>. USE DEF Exit
  <1>0. TypeOK
    BY DEF UpdateInv
  <1>1. CASE Start(d) \/ AcquireFileLock(d) \/ OpenMonitor(d) \/ ReuseStatic(d)
    BY <1>0, <1>1 DEF TypeOK, Start, AcquireFileLock, OpenMonitor, ReuseStatic
  <1>2. CASE ReuseStaticThrows(d) \/ ReserveKeyThrows(d) \/ InputError(d) \/ InputAborts(d)
             \/ LockTimeout(d)
             \/ Finish(d) \/ KillDatastore(d) \/ TerminateDatastore(d)
             \/ \E k \in Kinds : RegisterThrows(d, k)
    BY <1>0, <1>2 DEF TypeOK, ReuseStaticThrows, ReserveKeyThrows, InputError, InputAborts, Abort,
                      ReadsFiles, LockTimeout, Finish,
                      KillDatastore, TerminateDatastore, RegisterThrows
  <1>3. CASE SetupStatic(d) \/ SetupUpdatable(d)
    BY <1>0, <1>3 DEF TypeOK, SetupStatic, SetupUpdatable, SetupRegion
  <1>4. CASE \E k \in Kinds : RegisterRegion(d, k) \/ ReplaceRegion(d, k)
    BY <1>0, <1>4 DEF TypeOK, RegisterRegion, ReplaceRegion
  <1>5. CASE Populate(d) \/ LockMonitor(d) \/ UnlockMonitor(d) \/ NotifyAll(d) \/ RemoveOld(d)
             \/ WaitForDetach(d)
    BY <1>0, <1>5 DEF TypeOK, Populate, LockMonitor, UnlockMonitor, NotifyAll, RemoveOld,
                      WaitForDetach
  <1>. QED
    BY <1>1, <1>2, <1>3, <1>4, <1>5 DEF StoreAction, StoreStep

\* How a datastore gets from one program point to the next, with the file lock and the
\* newest monitor.
StoreControl(d) ==
    \/ /\ dpc[d] = "idle" /\ dpc'[d] = "lock"
       /\ UNCHANGED <<fileLock, created, dmon>>
    \/ /\ dpc[d] = "lock" /\ dpc'[d] = "open"
       /\ fileLock = None /\ fileLock' = d
       /\ UNCHANGED <<created, dmon>>
    \/ /\ dpc[d] = "open" /\ dpc'[d] = "static"
       /\ dmon'[d] = created' /\ created' \in Monitors
       /\ UNCHANGED fileLock
    \/ /\ dpc[d] \in LockedPCs \ {"open"} /\ dpc'[d] \in LockedPCs \ {"open"}
       /\ UNCHANGED <<fileLock, created, dmon>>
    \/ /\ dpc[d] \in LockedPCs \cup {"lock"} /\ dpc'[d] \in FinalPCs
       /\ fileLock' = IF fileLock = d THEN None ELSE fileLock
       /\ UNCHANGED <<created, dmon>>

\* Every step of a datastore follows this order.
LEMMA StoreMoves ==
    ASSUME UpdateInv, NEW d \in Datastores, StoreAction(d)
    PROVE  StoreControl(d)
  <1>0. dpc \in [Datastores -> StorePCs] /\ dmon \in [Datastores -> Monitors \cup {None}]
    BY DEF UpdateInv, TypeOK
  <1>. USE DEF StoreControl, LockedPCs, StorePCs, FinalPCs
  <1>1. CASE Start(d) \/ AcquireFileLock(d)
    BY ONLY <1>0, <1>1 DEF Start, AcquireFileLock
  <1>2. CASE OpenMonitor(d)
    BY ONLY <1>0, <1>2 DEF OpenMonitor
  <1>3. CASE ReuseStaticThrows(d) \/ ReserveKeyThrows(d) \/ InputError(d) \/ InputAborts(d)
             \/ LockTimeout(d)
             \/ Finish(d) \/ KillDatastore(d) \/ TerminateDatastore(d)
             \/ \E k \in Kinds : RegisterThrows(d, k)
    BY ONLY <1>0, <1>3 DEF Exit, ReuseStaticThrows, ReserveKeyThrows, InputError, InputAborts,
                           Abort, ReadsFiles, LockTimeout, Finish,
                      KillDatastore, TerminateDatastore, RegisterThrows, SwapPC
  <1>4. CASE ReuseStatic(d) \/ SetupStatic(d) \/ SetupUpdatable(d)
    BY ONLY <1>0, <1>4 DEF ReuseStatic, SetupStatic, SetupUpdatable, SetupRegion
  <1>5. CASE \E k \in Kinds : RegisterRegion(d, k) \/ ReplaceRegion(d, k)
    BY ONLY <1>0, <1>5 DEF RegisterRegion, ReplaceRegion, SwapPC, AfterSwapPC
  <1>6. CASE Populate(d) \/ LockMonitor(d) \/ UnlockMonitor(d) \/ NotifyAll(d) \/ RemoveOld(d)
             \/ WaitForDetach(d)
    BY ONLY <1>0, <1>6 DEF Populate, LockMonitor, UnlockMonitor, NotifyAll, RemoveOld,
                      WaitForDetach
  <1>. QED
    BY <1>1, <1>2, <1>3, <1>4, <1>5, <1>6 DEF StoreAction, StoreStep

\* The file lock and the newest monitor.
LEMMA StoreLockNext == UpdateInv /\ [Next]_vars => StoreLockInv'
  <1>. SUFFICES ASSUME UpdateInv, [Next]_vars PROVE StoreLockInv'
    OBVIOUS
  <1>0. StoreLockInv
    BY DEF UpdateInv
  <1>1. ASSUME NEW d \in Datastores, StoreAction(d) PROVE StoreLockInv'
    <2>0. StoreControl(d)
      BY <1>1, StoreMoves
    <2>1. ASSUME NEW e \in Datastores, dpc'[e] \in LockedPCs
          PROVE  /\ fileLock' = e
                 /\ dpc'[e] # "open" => dmon'[e] = created' /\ created' \in Monitors
      <3>1. CASE e = d
        BY ONLY <1>0, <2>0, <2>1, <3>1, e \in Datastores
           DEF StoreControl, StoreLockInv, LockedPCs, FinalPCs, StorePCs
      <3>2. CASE e # d
        <4>1. dpc[e] \in LockedPCs /\ dpc'[e] = dpc[e] /\ dmon'[e] = dmon[e]
          BY <1>1, <2>1, <3>2, OtherStores
        <4>2. fileLock = e /\ dpc[d] \notin LockedPCs
          BY ONLY <1>0, <3>2, <4>1, d \in Datastores, e \in Datastores DEF StoreLockInv
        <4>3. UNCHANGED <<fileLock, created>>
          BY ONLY <2>0, <3>2, <4>2, DataUpdateAssumption, e \in Datastores
             DEF StoreControl, LockedPCs, StorePCs, FinalPCs, Processes
        <4>. QED
          BY ONLY <1>0, <4>1, <4>3, e \in Datastores DEF StoreLockInv
      <3>. QED
        BY <3>1, <3>2
    <2>. QED
      BY <2>1 DEF StoreLockInv
  <1>2. ASSUME UNCHANGED <<fileLock, dpc, dmon, created>> PROVE StoreLockInv'
    BY <1>0, <1>2 DEF StoreLockInv
  <1>3. CASE RemoveLocks
    BY <1>2, <1>3 DEF RemoveLocks
  <1>4. ASSUME NEW w \in Watchers, WatchAction(w) PROVE StoreLockInv'
    BY <1>2, <1>4, WatchFrame DEF registerSide
  <1>5. CASE UNCHANGED vars
    BY <1>2, <1>5 DEF vars
  <1>. QED
    BY <1>1, <1>3, <1>4, <1>5, NextCases

\* --remove-locks, and steps in which nothing happens.
LEMMA StepCases ==
    ASSUME [Next]_vars
    PROVE  \/ \E d \in Datastores : StoreAction(d)
           \/ \E w \in Watchers : WatchAction(w)
           \/ /\ UNCHANGED <<registerSide, mutex, waiting, watchVars>>
              /\ linked' = linked \/ ~ linked'
  BY NextCases DEF RemoveLocks, vars, registerSide

\* What a datastore does to the monitors: it works on the newest one, or creates it.
LEMMA StoreEffect ==
    ASSUME UpdateInv, NEW d \in Datastores, StoreAction(d)
    PROVE  /\ \A m \in Monitors : m # created =>
                /\ mutex'[m] = mutex[m]
                /\ regions'[m] = regions[m]
                /\ keyInUse'[m] = keyInUse[m]
           /\ created' = created \/ (OpenMonitor(d) /\ ~ linked /\ created' = created + 1)
           /\ linked' => linked \/ created' \in Monitors
  <1>0. dpc[d] \in LockedPCs \ {"open"} => dmon[d] = created
    BY ActiveStore
  <1>00. /\ mutex \in [Monitors -> Processes \cup {None}]
         /\ regions \in [Monitors -> [Names -> SharedRegion]]
         /\ keyInUse \in [Monitors -> SUBSET ShmKey]
    BY DEF UpdateInv, TypeOK
  <1>. USE DEF LockedPCs, StorePCs, FinalPCs
  <1>1. CASE Start(d) \/ AcquireFileLock(d)
    BY ONLY <1>1 DEF Start, AcquireFileLock
  <1>2. CASE OpenMonitor(d)
    BY ONLY <1>2 DEF OpenMonitor
  <1>3. CASE ReuseStaticThrows(d) \/ ReserveKeyThrows(d) \/ InputError(d) \/ InputAborts(d)
             \/ LockTimeout(d)
             \/ Finish(d) \/ KillDatastore(d) \/ TerminateDatastore(d)
    BY ONLY <1>3 DEF Exit, ReuseStaticThrows, ReserveKeyThrows, InputError, InputAborts, Abort,
                     ReadsFiles, LockTimeout, Finish,
                     KillDatastore, TerminateDatastore
  <1>4. CASE \E k \in Kinds : RegisterThrows(d, k)
    BY ONLY <1>0, <1>00, <1>4 DEF Abort, RegisterThrows, SwapPC
  <1>5. CASE ReuseStatic(d) \/ SetupStatic(d) \/ SetupUpdatable(d)
    BY ONLY <1>0, <1>00, <1>5 DEF ReuseStatic, SetupStatic, SetupUpdatable, SetupRegion
  <1>6. CASE \E k \in Kinds : RegisterRegion(d, k) \/ ReplaceRegion(d, k)
    BY ONLY <1>0, <1>00, <1>6 DEF RegisterRegion, ReplaceRegion, SwapPC
  <1>7. CASE Populate(d) \/ LockMonitor(d) \/ UnlockMonitor(d) \/ NotifyAll(d) \/ RemoveOld(d)
             \/ WaitForDetach(d)
    BY ONLY <1>0, <1>00, <1>7 DEF Populate, LockMonitor, UnlockMonitor, NotifyAll, RemoveOld,
                                  WaitForDetach
  <1>. QED
    BY <1>1, <1>2, <1>3, <1>4, <1>5, <1>6, <1>7 DEF StoreAction, StoreStep

\* A step of a routed process changes no other routed process.
LEMMA OtherWatchers ==
    ASSUME UpdateInv, NEW w \in Watchers, WatchAction(w), NEW v \in Watchers, v # w
    PROVE  /\ wpc'[v] = wpc[v] /\ wmon'[v] = wmon[v] /\ region'[v] = region[v]
           /\ facade'[v] = facade[v] /\ query'[v] = query[v]
  <1>0. TypeOK
    BY DEF UpdateInv
  <1>1. CASE WatcherDies(w)
    BY ONLY <1>0, <1>1, w \in Watchers, v \in Watchers, v # w DEF TypeOK, WatcherDies
  <1>2. CASE OpenWatched(w) \/ CtorLock(w) \/ CtorFind(w) \/ AttachRegions(w) \/ NothingNew(w)
             \/ Wait(w) \/ Wake(w)
             \/ Break(w) \/ Copy(w) \/ Deactivate(w) \/ NotifyWatcher(w)
             \/ \E q \in Queries : Get(w, q) \/ EndQuery(w, q)
    BY <1>0, <1>2 DEF TypeOK, OpenWatched, CtorLock, CtorFind, AttachRegions, NothingNew, Wait,
                      Wake, Break,
                      Copy, Deactivate, NotifyWatcher, Get, EndQuery
  <1>3. CASE LoopTop(w)
    <2>1. (wpc' = [wpc EXCEPT ![w] = "check"] \/ wpc' = [wpc EXCEPT ![w] = "stopped"])
          /\ UNCHANGED viewVars
      BY ONLY <1>3, Zenon DEF LoopTop
    <2>. QED
      BY ONLY <1>0, <2>1, w \in Watchers, v \in Watchers, v # w DEF TypeOK, viewVars
  <1>. QED
    BY <1>1, <1>2, <1>3 DEF WatchAction, ThreadStep, CloseStep, CtorThrows, AttachThrows, Join,
                            KillWatcher

\* How a routed process gets from one program point to the next, with the monitor's mutex.
WatchControl(w) ==
    \/ /\ wpc[w] = "off" /\ wpc'[w] = "ctorLock"
       /\ linked /\ wmon'[w] = created
       /\ UNCHANGED mutex
    \/ /\ \/ wpc[w] = "ctorLock" /\ wpc'[w] = "ctorFind"
          \/ wpc[w] \in {"top", "wait"} /\ wpc'[w] = "check"
       /\ mutex[wmon[w]] = None /\ mutex' = [mutex EXCEPT ![wmon[w]] = w]
       /\ UNCHANGED wmon
    \/ /\ \/ wpc[w] = "ctorFind" /\ wpc'[w] = "ctorAttach"
          \/ wpc[w] = "check" /\ wpc'[w] \in {"attach", "enqueue"}
          \/ wpc[w] = "top" /\ wpc'[w] = "stopped"
          \/ wpc[w] # "off" /\ wpc'[w] = "dead"
       /\ UNCHANGED <<mutex, wmon>>
    \/ /\ wpc[w] \in WatchMutexPCs /\ wpc'[w] \in {"top", "wait", "stopped"}
       /\ mutex' = [mutex EXCEPT ![wmon[w]] = None]
       /\ UNCHANGED wmon
    \/ UNCHANGED <<wpc, mutex, wmon>>

\* Every step of a routed process follows this order.
LEMMA WatchMoves ==
    ASSUME UpdateInv, NEW w \in Watchers, WatchAction(w)
    PROVE  WatchControl(w)
  <1>0. wpc \in [Watchers -> WatchPCs] /\ wmon \in [Watchers -> Monitors \cup {None}]
    BY DEF UpdateInv, TypeOK
  <1>. USE DEF WatchControl, WatchMutexPCs
  <1>1. CASE OpenWatched(w) \/ CtorLock(w) \/ CtorFind(w) \/ Wake(w) \/ Copy(w)
    BY ONLY <1>0, <1>1, w \in Watchers DEF OpenWatched, CtorLock, CtorFind, Wake, Copy
  <1>2. CASE AttachRegions(w) \/ NothingNew(w) \/ Wait(w) \/ Break(w)
    BY ONLY <1>0, <1>2, w \in Watchers DEF AttachRegions, NothingNew, Wait, Break
  <1>3. CASE CtorThrows(w) \/ AttachThrows(w)
    BY ONLY <1>0, <1>3, w \in Watchers DEF CtorThrows, AttachThrows, WatcherDies
  <1>4. CASE LoopTop(w)
    <2>1. \/ /\ mutex[wmon[w]] = None
             /\ mutex' = [mutex EXCEPT ![wmon[w]] = w] /\ wpc' = [wpc EXCEPT ![w] = "check"]
          \/ mutex' = mutex /\ wpc' = [wpc EXCEPT ![w] = "stopped"]
      BY ONLY <1>4, Zenon DEF LoopTop
    <2>2. wpc[w] = "top" /\ wmon' = wmon
      BY ONLY <1>4 DEF LoopTop
    <2>. QED
      BY ONLY <1>0, <2>1, <2>2, w \in Watchers
  <1>5. CASE Join(w) \/ KillWatcher(w)
    BY ONLY <1>0, <1>5, w \in Watchers DEF Join, KillWatcher, WatcherDies
  <1>6. CASE Deactivate(w) \/ NotifyWatcher(w) \/ \E q \in Queries : Get(w, q) \/ EndQuery(w, q)
    BY ONLY <1>6 DEF Deactivate, NotifyWatcher, Get, EndQuery
  <1>. QED
    BY <1>1, <1>2, <1>3, <1>4, <1>5, <1>6 DEF WatchAction, ThreadStep, CloseStep

\* How a datastore uses the monitor's mutex.
StoreMutex(d) ==
    \/ /\ dpc[d] = "swap" /\ dpc'[d] \in {"swapStatic", "swapUpdatable"}
       /\ mutex[dmon[d]] = None /\ mutex' = [mutex EXCEPT ![dmon[d]] = d]
    \/ /\ dpc[d] \in SwapPCs /\ dpc'[d] \notin SwapPCs
       /\ mutex' = [mutex EXCEPT ![dmon[d]] = None]
    \/ /\ dpc'[d] \in SwapPCs => dpc[d] \in SwapPCs
       /\ UNCHANGED mutex

\* swapData takes the mutex at the beginning of its critical section only.
LEMMA StoreMutexMoves ==
    ASSUME UpdateInv, NEW d \in Datastores, StoreAction(d)
    PROVE  StoreMutex(d) /\ (dpc'[d] \in SwapPCs => dmon' = dmon)
  <1>0. dpc \in [Datastores -> StorePCs]
    BY DEF UpdateInv, TypeOK
  <1>. USE DEF StoreMutex, SwapPCs
  <1>1. CASE Start(d) \/ AcquireFileLock(d) \/ OpenMonitor(d) \/ Populate(d) \/ NotifyAll(d)
             \/ RemoveOld(d) \/ WaitForDetach(d)
    BY ONLY <1>0, <1>1, d \in Datastores
       DEF Start, AcquireFileLock, OpenMonitor, Populate, NotifyAll, RemoveOld, WaitForDetach
  <1>2. CASE ReuseStaticThrows(d) \/ ReserveKeyThrows(d) \/ InputError(d) \/ InputAborts(d)
             \/ LockTimeout(d)
             \/ Finish(d) \/ KillDatastore(d) \/ TerminateDatastore(d)
    BY ONLY <1>0, <1>2, d \in Datastores
       DEF Exit, ReuseStaticThrows, ReserveKeyThrows, InputError, InputAborts, Abort, ReadsFiles,
           LockTimeout, Finish,
           KillDatastore, TerminateDatastore
  <1>3. CASE ReuseStatic(d) \/ SetupStatic(d) \/ SetupUpdatable(d)
    BY ONLY <1>0, <1>3, d \in Datastores DEF ReuseStatic, SetupStatic, SetupUpdatable, SetupRegion
  <1>4. CASE \E k \in Kinds : RegisterRegion(d, k) \/ ReplaceRegion(d, k) \/ RegisterThrows(d, k)
    BY ONLY <1>0, <1>4, d \in Datastores
       DEF Abort, Exit, RegisterRegion, ReplaceRegion, RegisterThrows, SwapPC, AfterSwapPC
  <1>5. CASE LockMonitor(d) \/ UnlockMonitor(d)
    BY ONLY <1>0, <1>5, d \in Datastores DEF LockMonitor, UnlockMonitor
  <1>. QED
    BY <1>1, <1>2, <1>3, <1>4, <1>5 DEF StoreAction, StoreStep

\* The monitors that exist and the ones that are still to come.
LEMMA MonitorNext == UpdateInv /\ [Next]_vars => MonitorInv'
  <1>. SUFFICES ASSUME UpdateInv, [Next]_vars PROVE MonitorInv'
    OBVIOUS
  <1>0. /\ MonitorInv /\ created \in Nat
        /\ wmon \in [Watchers -> Monitors \cup {None}]
        /\ mutex \in [Monitors -> Processes \cup {None}]
    BY DataUpdateAssumption DEF UpdateInv, TypeOK
  <1>1. ASSUME NEW d \in Datastores, StoreAction(d) PROVE MonitorInv'
    <2>1. UNCHANGED watchVars
      BY <1>1, StoreFrame
    <2>2. /\ \A m \in Monitors : m # created => mutex'[m] = mutex[m] /\ regions'[m] = regions[m]
          /\ created' = created \/ created' = created + 1
          /\ linked' => linked \/ created' \in Monitors
      BY <1>1, StoreEffect
    <2>3. linked' => created' \in Monitors
      <3>1. created' = created + 1 => created' \in Monitors
        <4>1. StoreControl(d)
          BY <1>1, StoreMoves
        <4>. QED
          BY ONLY <1>0, <4>1 DEF StoreControl
      <3>. QED
        BY <1>0, <2>2, <3>1 DEF MonitorInv
    <2>4. \A w \in Watchers : /\ wpc'[w] # "off" => wmon'[w] \in Monitors /\ wmon'[w] <= created'
                              /\ wpc'[w] = "off" => wmon'[w] = None
      BY ONLY <1>0, <2>1, <2>2 DEF MonitorInv, Monitors
    <2>5. \A m \in Monitors : m > created' =>
             mutex'[m] = None /\ \A n \in Names : IsEmpty(regions'[m][n])
      BY ONLY <1>0, <2>2 DEF MonitorInv, Monitors
    <2>. QED
      BY <2>3, <2>4, <2>5 DEF MonitorInv, IsEmpty
  <1>2. ASSUME NEW w \in Watchers, WatchAction(w) PROVE MonitorInv'
    <2>1. UNCHANGED <<registerSide, linked>> /\ WatchControl(w)
      BY <1>2, WatchFrame, WatchMoves
    <2>2. ASSUME NEW v \in Watchers
          PROVE /\ wpc'[v] # "off" => wmon'[v] \in Monitors /\ wmon'[v] <= created'
                /\ wpc'[v] = "off" => wmon'[v] = None
      <3>1. CASE v # w
        <4>1. wpc'[v] = wpc[v] /\ wmon'[v] = wmon[v]
          BY <1>2, <3>1, OtherWatchers
        <4>. QED
          BY <1>0, <2>1, <4>1 DEF MonitorInv, registerSide
      <3>2. CASE v = w
        BY ONLY <1>0, <2>1, <3>2, v \in Watchers
           DEF MonitorInv, registerSide, WatchControl, Monitors, WatchMutexPCs
      <3>. QED
        BY <3>1, <3>2
    <2>3. \A m \in Monitors : m > created => mutex'[m] = None
      <3>1. wpc[w] # "off" => wmon[w] \in Monitors /\ wmon[w] <= created
        BY <1>0 DEF MonitorInv
      <3>2. \/ mutex' = mutex
            \/ wpc[w] # "off" /\ mutex' = [mutex EXCEPT ![wmon[w]] = w]
            \/ wpc[w] # "off" /\ mutex' = [mutex EXCEPT ![wmon[w]] = None]
        BY ONLY <2>1 DEF WatchControl, WatchMutexPCs
      <3>3. \A m \in Monitors : m > created => mutex[m] = None
        BY <1>0 DEF MonitorInv
      <3>4. \A m \in Monitors : m > created => mutex'[m] = mutex[m]
        <4>1. \A m \in Monitors : m > created /\ wpc[w] # "off" => m # wmon[w]
          BY ONLY <3>1, <1>0, DataUpdateAssumption DEF Monitors
        <4>. QED
          BY ONLY <1>0, <3>2, <4>1
      <3>. QED
        BY ONLY <3>3, <3>4
    <2>. QED
      BY ONLY <1>0, <2>1, <2>2, <2>3 DEF MonitorInv, registerSide
  <1>3. CASE UNCHANGED <<registerSide, mutex, waiting, watchVars>> /\ (linked' = linked \/ ~ linked')
    BY ONLY <1>0, <1>3 DEF MonitorInv, registerSide
  <1>. QED
    BY <1>1, <1>2, <1>3, StepCases

\* Whoever is in a critical section of a monitor holds its mutex.
LEMMA MutexNext == UpdateInv /\ [Next]_vars => MutexInv'
  <1>. SUFFICES ASSUME UpdateInv, [Next]_vars PROVE MutexInv'
    OBVIOUS
  <1>0. /\ MutexInv /\ StoreLockInv
        /\ mutex \in [Monitors -> Processes \cup {None}]
        /\ \A w \in Watchers : wpc[w] # "off" => wmon[w] \in Monitors
        /\ \A x \in Datastores \cup Watchers : x # None
        /\ \A d \in Datastores, w \in Watchers : d # w
    BY DataUpdateAssumption DEF UpdateInv, TypeOK, MonitorInv, Processes
  <1>. USE DEF SwapPCs, WatchMutexPCs
  <1>1. ASSUME NEW d \in Datastores, StoreAction(d) PROVE MutexInv'
    <2>1. UNCHANGED watchVars
      BY <1>1, StoreFrame
    <2>2. StoreMutex(d) /\ (dpc'[d] \in SwapPCs => dmon' = dmon)
      BY <1>1, StoreMutexMoves
    <2>3. dpc[d] \in SwapPCs \cup {"swap"} => dmon[d] \in Monitors /\ fileLock = d
      BY ONLY <1>0, d \in Datastores DEF StoreLockInv, LockedPCs, StorePCs, FinalPCs
    <2>4. dpc'[d] \in SwapPCs => mutex'[dmon'[d]] = d
      BY ONLY <1>0, <2>2, <2>3, d \in Datastores DEF StoreMutex, MutexInv
    <2>5. ASSUME NEW e \in Datastores, e # d, dpc'[e] \in SwapPCs
          PROVE  mutex'[dmon'[e]] = e
      <3>1. dpc[e] = dpc'[e] /\ dmon[e] = dmon'[e]
        BY <1>1, <2>5, OtherStores
      <3>2. fileLock = e
        BY ONLY <1>0, <2>5, <3>1, e \in Datastores DEF StoreLockInv, LockedPCs, StorePCs, FinalPCs
      <3>3. mutex' = mutex
        BY ONLY <2>2, <2>3, <2>5, <3>2 DEF StoreMutex
      <3>. QED
        BY ONLY <1>0, <2>5, <3>1, <3>3, e \in Datastores DEF MutexInv
    <2>6. ASSUME NEW w \in Watchers, wpc'[w] \in WatchMutexPCs PROVE mutex'[wmon'[w]] = w
      <3>1. mutex[wmon[w]] = w /\ wmon[w] \in Monitors /\ UNCHANGED <<wpc, wmon>>
        BY ONLY <1>0, <2>1, <2>6, w \in Watchers DEF MutexInv, watchVars, viewVars
      <3>2. dpc[d] \in SwapPCs => mutex[dmon[d]] = d
        BY <1>0 DEF MutexInv
      <3>. QED
        BY ONLY <1>0, <2>2, <2>3, <3>1, <3>2, d \in Datastores, w \in Watchers DEF StoreMutex
    <2>. QED
      BY <2>4, <2>5, <2>6 DEF MutexInv
  <1>2. ASSUME NEW w \in Watchers, WatchAction(w) PROVE MutexInv'
    <2>1. UNCHANGED registerSide /\ WatchControl(w)
      BY <1>2, WatchFrame, WatchMoves
    <2>2. ASSUME NEW d \in Datastores, dpc'[d] \in SwapPCs PROVE mutex'[dmon'[d]] = d
      <3>1. mutex[dmon[d]] = d /\ dmon[d] \in Monitors /\ UNCHANGED <<dpc, dmon>>
        BY ONLY <1>0, <2>1, <2>2, d \in Datastores
           DEF MutexInv, registerSide, StoreLockInv, LockedPCs, StorePCs, FinalPCs
      <3>2. wpc[w] \in WatchMutexPCs => mutex[wmon[w]] = w
        BY <1>0 DEF MutexInv
      <3>. QED
        BY ONLY <1>0, <2>1, <3>1, <3>2, d \in Datastores, w \in Watchers DEF WatchControl
    <2>3. ASSUME NEW v \in Watchers, v # w, wpc'[v] \in WatchMutexPCs PROVE mutex'[wmon'[v]] = v
      <3>1. wpc'[v] = wpc[v] /\ wmon'[v] = wmon[v]
        BY <1>2, <2>3, OtherWatchers
      <3>2. mutex[wmon[v]] = v /\ wmon[v] \in Monitors
        BY ONLY <1>0, <2>3, <3>1, v \in Watchers DEF MutexInv
      <3>3. wpc[w] \in WatchMutexPCs => mutex[wmon[w]] = w
        BY <1>0 DEF MutexInv
      <3>. QED
        BY ONLY <1>0, <2>1, <2>3, <3>1, <3>2, <3>3, v \in Watchers, w \in Watchers DEF WatchControl
    <2>4. wpc'[w] \in WatchMutexPCs => mutex'[wmon'[w]] = w
      BY ONLY <1>0, <2>1, w \in Watchers DEF WatchControl, MutexInv
    <2>. QED
      BY <2>2, <2>3, <2>4 DEF MutexInv
  <1>3. CASE UNCHANGED <<registerSide, mutex, waiting, watchVars>>
    BY ONLY <1>0, <1>3 DEF MutexInv, registerSide
  <1>. QED
    BY <1>1, <1>2, <1>3, StepCases

-----------------------------------------------------------------------------
(* The steps of a datastore once more, each reduced to what it does to its own state, *)
(* to the newest register and to the keys.                                            *)

KeepRegister == UNCHANGED <<created, regions, keyInUse, bound>>
KeepHandles(d) == /\ newKey'[d] = newKey[d] /\ oldKey'[d] = oldKey[d]
                  /\ oldSegment'[d] = oldSegment[d]
KeepJob(d) == dataset'[d] = dataset[d] /\ onlyMetric'[d] = onlyMetric[d]
KeepContent(d) == base'[d] = base[d] /\ populated'[d] = populated[d]
DropHandles(d) == newKey'[d] = NoKeys /\ oldKey'[d] = NoKeys /\ oldSegment'[d] = NoFacade

StartStep(d) ==
    /\ dpc[d] = "idle" /\ dpc'[d] = "lock" /\ dataset'[d] \in Datasets
    /\ KeepRegister /\ KeepHandles(d) /\ KeepContent(d)

ExitStep(d) ==
    /\ dpc[d] \in LockedPCs \cup {"lock"} /\ dpc'[d] \in FinalPCs
    /\ KeepRegister /\ DropHandles(d) /\ KeepJob(d) /\ KeepContent(d)

TimeoutStep(d) ==
    /\ dpc[d] = "swap" /\ dpc'[d] = "timedout"
    /\ \A key \in ShmKey : \/ bound'[key] = bound[key] /\ \A k \in Kinds : newKey[d][k] # key
                           \/ bound'[key] = None /\ \E k \in Kinds : newKey[d][k] = key
    /\ UNCHANGED <<created, regions, keyInUse>>
    /\ DropHandles(d) /\ KeepJob(d) /\ KeepContent(d)

MoveStep(d) ==
    /\ \/ dpc[d] = "lock" /\ dpc'[d] = "open"
       \/ dpc[d] = "open" /\ dpc'[d] = "static"
       \/ dpc[d] = "swap" /\ dpc'[d] = "swapStatic" /\ ~ onlyMetric[d]
       \/ dpc[d] = "swap" /\ dpc'[d] = "swapUpdatable" /\ onlyMetric[d]
       \/ dpc[d] = "unlock" /\ dpc'[d] = "notify"
       \/ dpc[d] = "notify" /\ dpc'[d] = "remove"
    /\ KeepRegister /\ KeepHandles(d) /\ KeepJob(d) /\ KeepContent(d)

PopulateStep(d) ==
    /\ dpc[d] = "populate" /\ dpc'[d] = "swap"
    /\ populated'[d] /\ base'[d] = base[d]
    /\ KeepRegister /\ KeepHandles(d) /\ KeepJob(d)

ReuseStep(d) ==
    /\ dpc[d] = "static" /\ dpc'[d] = "updatable" /\ onlyMetric[d]
    /\ Registered(dataset[d], "static")
    /\ base'[d] = Leads(dataset[d], "static") /\ populated'[d] = populated[d]
    /\ KeepRegister /\ KeepHandles(d) /\ KeepJob(d)

MonitorStep(d) ==
    /\ dpc[d] = "open" /\ dpc'[d] = "static"
    /\ created' = created + 1 /\ created' \in Monitors
    /\ UNCHANGED <<regions, keyInUse, bound>>
    /\ KeepHandles(d) /\ KeepJob(d) /\ KeepContent(d)

SetupStep(d, k, key) ==
    /\ \/ k = "static" /\ dpc[d] = "static" /\ dpc'[d] = "updatable" /\ ~ onlyMetric[d]
          /\ base'[d] = <<d, "static">>
       \/ k = "updatable" /\ dpc[d] = "updatable" /\ dpc'[d] = "populate"
          /\ base'[d] = base[d]
    /\ key \notin keyInUse[created] /\ keyInUse'[created] = keyInUse[created] \cup {key}
    /\ bound'[key] = <<d, k>>
    /\ \A other \in ShmKey : other # key => bound'[other] = bound[other]
    /\ newKey'[d][k] = key
    /\ \A j \in Kinds : j # k => newKey'[d][j] = newKey[d][j]
    /\ oldKey'[d] = oldKey[d] /\ oldSegment'[d] = oldSegment[d]
    /\ UNCHANGED <<created, regions>> /\ KeepJob(d) /\ populated'[d] = populated[d]

PublishStep(d, k) ==
    /\ dpc[d] = SwapPC(k) /\ dpc'[d] = AfterSwapPC(k)
    /\ Newest(dataset[d], k)'.timestamp = Newest(dataset[d], k).timestamp + 1
    /\ Newest(dataset[d], k)'.shm_key = newKey[d][k]
    /\ \A n \in Names : n # <<dataset[d], k>> => regions'[created][n] = regions[created][n]
    /\ \/ /\ Registered(dataset[d], k)
          /\ oldKey'[d][k] = Newest(dataset[d], k).shm_key
          /\ oldSegment'[d][k] = Leads(dataset[d], k)
       \/ /\ ~ Registered(dataset[d], k)
          /\ oldKey'[d][k] = oldKey[d][k] /\ oldSegment'[d][k] = oldSegment[d][k]
    /\ \A j \in Kinds : j # k => oldKey'[d][j] = oldKey[d][j] /\ oldSegment'[d][j] = oldSegment[d][j]
    /\ UNCHANGED <<created, keyInUse, bound>> /\ newKey'[d] = newKey[d]
    /\ KeepJob(d) /\ KeepContent(d)

RemoveStep(d) ==
    /\ dpc[d] = "remove" /\ dpc'[d] = "detach"
    /\ oldKey[d] # NoKeys
    /\ \A key \in ShmKey : bound'[key] = IF key = oldKey[d][OldKind(d)] THEN None ELSE bound[key]
    /\ UNCHANGED <<created, regions, keyInUse>> /\ KeepHandles(d) /\ KeepJob(d) /\ KeepContent(d)

DetachStep(d) ==
    /\ dpc[d] = "detach" /\ dpc'[d] = "remove"
    /\ ~ MappedByOthers(d, oldSegment[d][OldKind(d)])
    /\ keyInUse'[created] = keyInUse[created] \ {oldKey[d][OldKind(d)]}
    /\ oldKey'[d][OldKind(d)] = None
    /\ \A k \in Kinds : k # OldKind(d) => oldKey'[d][k] = oldKey[d][k]
    /\ UNCHANGED <<created, regions, bound>>
    /\ newKey'[d] = newKey[d] /\ oldSegment'[d] = oldSegment[d] /\ KeepJob(d) /\ KeepContent(d)

\* A datastore takes no other steps.
LEMMA StoreForms ==
    ASSUME UpdateInv, NEW d \in Datastores, StoreAction(d)
    PROVE  \/ StartStep(d) \/ ExitStep(d) \/ TimeoutStep(d) \/ MoveStep(d) \/ PopulateStep(d)
           \/ ReuseStep(d) \/ MonitorStep(d)
           \/ \E k \in Kinds, key \in ShmKey : SetupStep(d, k, key)
           \/ \E k \in Kinds : PublishStep(d, k)
           \/ RemoveStep(d) \/ DetachStep(d)
  <1>0. TypeOK
    BY DEF UpdateInv
  <1>00. dpc[d] \in LockedPCs \ {"open"} =>
           dmon[d] = created /\ created \in Monitors /\ dataset[d] \in Datasets
    BY ActiveStore
  <1>. USE DEF KeepRegister, KeepHandles, KeepJob, KeepContent, DropHandles
  <1>1. CASE Start(d)
    BY ONLY <1>0, <1>1, d \in Datastores DEF Start, StartStep, TypeOK
  <1>2. CASE AcquireFileLock(d) \/ LockMonitor(d) \/ UnlockMonitor(d) \/ NotifyAll(d)
    BY ONLY <1>0, <1>2, d \in Datastores
       DEF AcquireFileLock, LockMonitor, UnlockMonitor, NotifyAll, MoveStep, TypeOK
  <1>3. CASE OpenMonitor(d)
    <2>1. created' = created \/ created' = created + 1
      BY ONLY <1>3 DEF OpenMonitor
    <2>. QED
      BY ONLY <1>0, <1>3, <2>1, d \in Datastores DEF OpenMonitor, MoveStep, MonitorStep, TypeOK
  <1>4. CASE Populate(d)
    BY ONLY <1>0, <1>4, d \in Datastores DEF Populate, PopulateStep, TypeOK
  <1>5. CASE ReuseStatic(d)
    BY ONLY <1>0, <1>00, <1>5, d \in Datastores
       DEF ReuseStatic, ReuseStep, TypeOK, Registered, Leads, Newest, Find, LockedPCs, StorePCs,
           FinalPCs
  <1>6. CASE ReuseStaticThrows(d) \/ ReserveKeyThrows(d) \/ InputError(d) \/ InputAborts(d)
             \/ Finish(d) \/ KillDatastore(d) \/ TerminateDatastore(d)
             \/ \E k \in Kinds : RegisterThrows(d, k)
    BY ONLY <1>0, <1>6, d \in Datastores
       DEF ReuseStaticThrows, ReserveKeyThrows, InputError, InputAborts, Abort, ReadsFiles,
           Finish, KillDatastore,
           TerminateDatastore, RegisterThrows, Exit, ExitStep, TypeOK, LockedPCs, FinalPCs, StorePCs,
           SwapPC
  <1>7. CASE LockTimeout(d)
    BY ONLY <1>0, <1>7, d \in Datastores DEF LockTimeout, Exit, TimeoutStep, TypeOK
  <1>8. CASE SetupStatic(d)
    <2>1. PICK key \in ShmKey : SetupRegion(d, "static")!(key)
      BY <1>8 DEF SetupStatic, SetupRegion
    <2>2. SetupStep(d, "static", key)
      BY ONLY <1>0, <1>00, <1>8, <2>1, d \in Datastores, key \in ShmKey
         DEF SetupStep, SetupStatic, TypeOK, LockedPCs, StorePCs, FinalPCs, IsReservedKey, FreeKeys,
             Kinds
    <2>. QED
      BY <2>2 DEF Kinds
  <1>9. CASE SetupUpdatable(d)
    <2>1. PICK key \in ShmKey : SetupRegion(d, "updatable")!(key)
      BY <1>9 DEF SetupUpdatable, SetupRegion
    <2>2. SetupStep(d, "updatable", key)
      BY ONLY <1>0, <1>00, <1>9, <2>1, d \in Datastores, key \in ShmKey
         DEF SetupStep, SetupUpdatable, TypeOK, LockedPCs, StorePCs, FinalPCs, IsReservedKey, FreeKeys,
             Kinds
    <2>. QED
      BY <2>2 DEF Kinds
  <1>10. ASSUME NEW k \in Kinds, RegisterRegion(d, k) PROVE PublishStep(d, k)
    BY ONLY <1>0, <1>00, <1>10, d \in Datastores, k \in Kinds
       DEF RegisterRegion, PublishStep, TypeOK, LockedPCs, StorePCs, FinalPCs, SwapPC, Register,
           INITIAL_TIMESTAMP, Newest, Registered, IsEmpty, Find, Names
  <1>11. ASSUME NEW k \in Kinds, ReplaceRegion(d, k) PROVE PublishStep(d, k)
    BY ONLY <1>0, <1>00, <1>11, d \in Datastores, k \in Kinds
       DEF ReplaceRegion, PublishStep, TypeOK, LockedPCs, StorePCs, FinalPCs, SwapPC, Replace,
           Newest, Registered, IsEmpty, Find, Names, Leads
  <1>12. CASE RemoveOld(d)
    BY ONLY <1>0, <1>12, d \in Datastores DEF RemoveOld, RemoveStep, TypeOK
  <1>13. CASE WaitForDetach(d)
    BY ONLY <1>0, <1>00, <1>13, d \in Datastores
       DEF WaitForDetach, DetachStep, TypeOK, LockedPCs, StorePCs, FinalPCs, ReleaseKey, OldKind, Kinds
  <1>. QED
    BY <1>1, <1>2, <1>3, <1>4, <1>5, <1>6, <1>7, <1>8, <1>9, <1>10, <1>11, <1>12, <1>13
       DEF StoreAction, StoreStep

\* While another datastore holds the file lock a datastore only starts or is killed.
LEMMA OthersWait ==
    ASSUME UpdateInv, NEW d \in Datastores, StoreAction(d),
           NEW e \in Datastores, e # d, dpc[e] \in LockedPCs
    PROVE  KeepRegister /\ dpc[d] \notin LockedPCs /\ dpc'[d] \notin LockedPCs
           /\ mutex' = mutex
  <1>1. fileLock = e /\ dpc[d] \notin LockedPCs
    BY DEF UpdateInv, StoreLockInv
  <1>2. dpc[d] \in {"idle", "lock"} /\ dpc'[d] \notin LockedPCs
    <2>1. StoreControl(d)
      BY StoreMoves
    <2>2. fileLock # None
      BY <1>1, DataUpdateAssumption DEF Processes
    <2>. QED
      BY ONLY <1>1, <2>1, <2>2 DEF StoreControl, LockedPCs, StorePCs, FinalPCs
  <1>3. KeepRegister
    BY <1>1, <1>2, StoreForms
       DEF StartStep, ExitStep, TimeoutStep, MoveStep, PopulateStep, ReuseStep, MonitorStep,
           SetupStep, PublishStep, RemoveStep, DetachStep, SwapPC, LockedPCs, StorePCs, FinalPCs
  <1>4. mutex' = mutex
    BY ONLY <1>2, UpdateInv, StoreAction(d), d \in Datastores, StoreMutexMoves DEF StoreMutex, SwapPCs
  <1>. QED
    BY <1>1, <1>2, <1>3, <1>4

\* The contents of a loaded segment never change.
LEMMA ContentSettled ==
    ASSUME UpdateInv, NEW d \in Datastores, StoreAction(d), NEW e \in Datastores, populated[e]
    PROVE  dataset'[e] = dataset[e] /\ base'[e] = base[e] /\ populated'[e]
  <1>1. CASE e # d
    BY <1>1, OtherStores
  <1>2. CASE e = d
    <2>1. dpc[d] \notin BeforeSetup("updatable") \cup {"populate"}
      BY <1>2 DEF UpdateInv, ContentInv
    <2>. QED
      BY <1>2, <2>1, StoreForms
         DEF StartStep, ExitStep, TimeoutStep, MoveStep, PopulateStep, ReuseStep, MonitorStep,
             SetupStep, PublishStep, RemoveStep, DetachStep, BeforeSetup, KeepContent, KeepJob
  <1>. QED
    BY <1>1, <1>2

\* What a segment contains is settled before anyone can find it.
LEMMA ContentNext == UpdateInv /\ [Next]_vars => ContentInv'
  <1>. SUFFICES ASSUME UpdateInv, [Next]_vars PROVE ContentInv'
    OBVIOUS
  <1>0. ContentInv
    BY DEF UpdateInv
  <1>1. ASSUME NEW d \in Datastores, StoreAction(d) PROVE ContentInv'
    <2>1. ASSUME NEW e \in Datastores, e # d
          PROVE  /\ dpc'[e] # "idle" => dataset'[e] \in Datasets
                 /\ dpc'[e] = "swapStatic" => ~ onlyMetric'[e]
                 /\ dpc'[e] \in AfterPopulate => populated'[e]
                 /\ populated'[e] => dpc'[e] \notin BeforeSetup("updatable") \cup {"populate"}
      BY <1>0, <1>1, <2>1, OtherStores DEF ContentInv
    <2>2. /\ dpc'[d] # "idle" => dataset'[d] \in Datasets
          /\ dpc'[d] = "swapStatic" => ~ onlyMetric'[d]
          /\ dpc'[d] \in AfterPopulate => populated'[d]
          /\ populated'[d] => dpc'[d] \notin BeforeSetup("updatable") \cup {"populate"}
      <3>. USE <1>0, <1>1 DEF ContentInv, AfterPopulate, BeforeSetup, KeepContent, KeepJob, LockedPCs,
                               StorePCs, FinalPCs
      <3>1. CASE StartStep(d) \/ ExitStep(d) \/ TimeoutStep(d)
        BY <3>1 DEF StartStep, ExitStep, TimeoutStep
      <3>2. CASE MoveStep(d) \/ PopulateStep(d) \/ ReuseStep(d) \/ MonitorStep(d)
        BY <3>2 DEF MoveStep, PopulateStep, ReuseStep, MonitorStep
      <3>3. CASE \E k \in Kinds, key \in ShmKey : SetupStep(d, k, key)
        BY <3>3 DEF SetupStep
      <3>4. CASE (\E k \in Kinds : PublishStep(d, k)) \/ RemoveStep(d) \/ DetachStep(d)
        BY <3>4 DEF PublishStep, RemoveStep, DetachStep, SwapPC, AfterSwapPC
      <3>. QED
        BY <3>1, <3>2, <3>3, <3>4, StoreForms
    <2>. QED
      BY <2>1, <2>2 DEF ContentInv
  <1>2. ASSUME UNCHANGED registerSide PROVE ContentInv'
    BY <1>0, <1>2 DEF ContentInv, registerSide
  <1>. QED
    BY <1>1, <1>2, StepCases, WatchFrame

\* Every key leads to at most one segment.
LEMMA BoundNext == UpdateInv /\ [Next]_vars => BoundInv'
  <1>. SUFFICES ASSUME UpdateInv, [Next]_vars PROVE BoundInv'
    OBVIOUS
  <1>0. BoundInv /\ dpc \in [Datastores -> StorePCs]
    BY DEF UpdateInv, TypeOK
  <1>1. ASSUME NEW d \in Datastores, StoreAction(d) PROVE BoundInv'
    <2>1. ASSUME NEW k \in Kinds, dpc[d] \notin BeforeSetup(k) PROVE dpc'[d] \notin BeforeSetup(k)
      BY <1>1, <2>1, StoreForms
         DEF StartStep, ExitStep, TimeoutStep, MoveStep, PopulateStep, ReuseStep, MonitorStep,
               SetupStep, PublishStep, RemoveStep, DetachStep, SwapPC, AfterSwapPC, BeforeSetup,
               FinalPCs, Kinds
    <2>2. \A e \in Datastores : e # d => dpc'[e] = dpc[e]
      BY <1>1, OtherStores
    <2>3. ASSUME \A key \in ShmKey : bound'[key] = bound[key] \/ bound'[key] = None
          PROVE  BoundInv'
      <3>1. \A k1, k2 \in ShmKey : bound'[k1] = bound'[k2] /\ bound'[k1] # None => k1 = k2
        BY ONLY <1>0, <2>3 DEF BoundInv
      <3>2. ASSUME NEW x \in ShmKey, NEW e \in Datastores, NEW j \in Kinds, bound'[x] = <<e, j>>
            PROVE  dpc'[e] \notin BeforeSetup(j)
        <4>1. <<e, j>> # None
          BY DataUpdateAssumption DEF Segments
        <4>2. bound[x] = <<e, j>>
          BY <2>3, <3>2, <4>1
        <4>. QED
          BY ONLY <1>0, <2>1, <2>2, <3>2, <4>2, x \in ShmKey, e \in Datastores, j \in Kinds
             DEF BoundInv
      <3>. QED
        BY <3>1, <3>2 DEF BoundInv
    <2>4. ASSUME NEW k \in Kinds, NEW key \in ShmKey, SetupStep(d, k, key) PROVE BoundInv'
      <3>1. dpc[d] \in BeforeSetup(k) /\ dpc'[d] \notin BeforeSetup(k)
        BY ONLY <2>4 DEF SetupStep, BeforeSetup
      <3>2. \A other \in ShmKey : bound[other] # <<d, k>>
        BY ONLY <1>0, <3>1, d \in Datastores, k \in Kinds DEF BoundInv
      <3>3. /\ bound'[key] = <<d, k>>
            /\ \A other \in ShmKey : other # key => bound'[other] = bound[other]
        BY ONLY <2>4 DEF SetupStep
      <3>4. \A k1, k2 \in ShmKey : bound'[k1] = bound'[k2] /\ bound'[k1] # None => k1 = k2
        BY ONLY <1>0, <3>2, <3>3, key \in ShmKey DEF BoundInv
      <3>5. ASSUME NEW x \in ShmKey, NEW e \in Datastores, NEW j \in Kinds, bound'[x] = <<e, j>>
            PROVE  dpc'[e] \notin BeforeSetup(j)
        <4>1. CASE x = key
          BY ONLY <3>1, <3>3, <3>5, <4>1
        <4>2. CASE x # key
          BY ONLY <1>0, <2>1, <2>2, <3>3, <3>5, <4>2, x \in ShmKey, e \in Datastores, j \in Kinds
             DEF BoundInv
        <4>. QED
          BY <4>1, <4>2
      <3>. QED
        BY <3>4, <3>5 DEF BoundInv
    <2>5. CASE StartStep(d) \/ ExitStep(d) \/ TimeoutStep(d) \/ MoveStep(d) \/ PopulateStep(d)
               \/ ReuseStep(d) \/ MonitorStep(d) \/ (\E k \in Kinds : PublishStep(d, k))
               \/ RemoveStep(d) \/ DetachStep(d)
      <3>1. \A key \in ShmKey : bound'[key] = bound[key] \/ bound'[key] = None
        BY ONLY <2>5 DEF StartStep, ExitStep, TimeoutStep, MoveStep, PopulateStep, ReuseStep,
                         MonitorStep, PublishStep, RemoveStep, DetachStep, KeepRegister
      <3>. QED
        BY <2>3, <3>1
    <2>. QED
      BY <1>1, <2>4, <2>5, StoreForms
  <1>2. ASSUME UNCHANGED registerSide PROVE BoundInv'
    BY <1>0, <1>2 DEF BoundInv, registerSide
  <1>. QED
    BY <1>1, <1>2, StepCases, WatchFrame

-----------------------------------------------------------------------------

\* The steps that publish nothing and create no monitor.
OtherStep(d) ==
    \/ StartStep(d) \/ ExitStep(d) \/ TimeoutStep(d) \/ MoveStep(d) \/ PopulateStep(d)
    \/ ReuseStep(d) \/ (\E k \in Kinds, key \in ShmKey : SetupStep(d, k, key))
    \/ RemoveStep(d) \/ DetachStep(d)

\* The old handle that the clean-up loop is at has a key.
LEMMA CleanupKey ==
    ASSUME UpdateInv, NEW d \in Datastores, RemoveStep(d) \/ DetachStep(d)
    PROVE  /\ OldKind(d) \in Kinds
           /\ oldKey[d][OldKind(d)] # None
           /\ oldKey[d][OldKind(d)] \in ShmKey
           /\ \A ds \in Datasets, j \in Kinds :
                Registered(ds, j) => Newest(ds, j).shm_key # oldKey[d][OldKind(d)]
  <1>1. oldKey[d] \in [Kinds -> ShmKey \cup {None}]
    BY DEF UpdateInv, TypeOK
  <1>2. OldKind(d) \in Kinds
    BY DEF OldKind, Kinds
  <1>3. oldKey[d][OldKind(d)] # None
    <2>1. CASE RemoveStep(d)
      <3>1. oldKey[d] # NoKeys
        BY ONLY <2>1 DEF RemoveStep
      <3>. QED
        BY ONLY <1>1, <3>1 DEF NoKeys, OldKind, Kinds
    <2>2. CASE DetachStep(d)
      <3>1. dpc[d] = "detach"
        BY ONLY <2>2 DEF DetachStep
      <3>. QED
        BY <1>2, <3>1 DEF UpdateInv, OldKeyInv
    <2>. QED
      BY <2>1, <2>2
  <1>4. \A ds \in Datasets, j \in Kinds :
                Registered(ds, j) => Newest(ds, j).shm_key # oldKey[d][OldKind(d)]
    BY <1>2, <1>3 DEF UpdateInv, OldKeyInv
  <1>. QED
    BY <1>1, <1>2, <1>3, <1>4

\* The keys a datastore gives up in a time-out are not registered.
LEMMA TimeoutKeys ==
    ASSUME UpdateInv, NEW d \in Datastores, dpc[d] = "swap", NEW j \in Kinds,
           NEW ds \in Datasets, NEW k \in Kinds, Registered(ds, k)
    PROVE  Newest(ds, k).shm_key # newKey[d][j]
  <1>1. Newest(ds, k).shm_key \in ShmKey /\ \E e \in Datastores : Leads(ds, k) = <<e, k>>
    BY RegisteredRegion
  <1>2. CASE j = "static" /\ onlyMetric[d]
    <2>1. newKey[d][j] = None
      BY <1>2 DEF UpdateInv, NoKeyInv
    <2>2. None \notin ShmKey
      BY DataUpdateAssumption
    <2>. QED
      BY <1>1, <2>1, <2>2
  <1>3. CASE ~ (j = "static" /\ onlyMetric[d])
    <2>1. /\ bound[newKey[d][j]] = <<d, j>>
          /\ \A x \in Datasets : Registered(x, j) => Leads(x, j) # <<d, j>>
      BY <1>3 DEF UpdateInv, NewKeyInv, BeforeSwap
    <2>. QED
      BY <1>1, <2>1 DEF Leads
  <1>. QED
    BY <1>2, <1>3

\* These steps leave what the register leads to as it is.
LEMMA RegisterKept ==
    ASSUME UpdateInv, NEW d \in Datastores, OtherStep(d)
    PROVE  /\ created' = created /\ regions' = regions
           /\ \A ds \in Datasets, k \in Kinds : Registered(ds, k) =>
                /\ bound'[Newest(ds, k).shm_key] = Leads(ds, k)
                /\ Newest(ds, k).shm_key \in keyInUse'[created]
  <1>1. created' = created /\ regions' = regions
    BY DEF OtherStep, StartStep, ExitStep, TimeoutStep, MoveStep, PopulateStep, ReuseStep,
           SetupStep, RemoveStep, DetachStep, KeepRegister
  <1>2. ASSUME NEW ds \in Datasets, NEW k \in Kinds, Registered(ds, k)
        PROVE  /\ bound'[Newest(ds, k).shm_key] = Leads(ds, k)
               /\ Newest(ds, k).shm_key \in keyInUse'[created]
    <2>1. Newest(ds, k).shm_key \in ShmKey /\ Newest(ds, k).shm_key \in keyInUse[created]
      BY <1>2, RegisteredRegion
    <2>2. CASE StartStep(d) \/ ExitStep(d) \/ MoveStep(d) \/ PopulateStep(d) \/ ReuseStep(d)
      BY ONLY <2>1, <2>2
         DEF StartStep, ExitStep, MoveStep, PopulateStep, ReuseStep, KeepRegister, Leads
    <2>3. CASE TimeoutStep(d)
      <3>1. \A j \in Kinds : Newest(ds, k).shm_key # newKey[d][j]
        BY <1>2, <2>3, TimeoutKeys DEF TimeoutStep
      <3>. QED
        BY ONLY <2>1, <2>3, <3>1 DEF TimeoutStep, Leads
    <2>4. CASE \E j \in Kinds, key \in ShmKey : SetupStep(d, j, key)
      BY ONLY <2>1, <2>4 DEF SetupStep, Leads
    <2>5. CASE RemoveStep(d) \/ DetachStep(d)
      <3>1. Newest(ds, k).shm_key # oldKey[d][OldKind(d)]
        BY <1>2, <2>5, CleanupKey
      <3>. QED
        BY ONLY <2>1, <2>5, <3>1 DEF RemoveStep, DetachStep, Leads
    <2>. QED
      BY <2>2, <2>3, <2>4, <2>5 DEF OtherStep
  <1>. QED
    BY <1>1, <1>2

\* Publishing changes one region of the newest register.
LEMMA PublishEffect ==
    ASSUME UpdateInv, NEW d \in Datastores, NEW k \in Kinds, PublishStep(d, k)
    PROVE  /\ dataset[d] \in Datasets /\ created \in Monitors
           /\ UNCHANGED <<created, keyInUse, bound>>
           /\ regions'[created][<<dataset[d], k>>].timestamp = Newest(dataset[d], k).timestamp + 1
           /\ Newest(dataset[d], k).timestamp \in Nat
           /\ regions'[created][<<dataset[d], k>>].shm_key = newKey[d][k]
           /\ \A ds \in Datasets, j \in Kinds :
                ~ (ds = dataset[d] /\ j = k) => regions'[created][<<ds, j>>] = Newest(ds, j)
           /\ populated[d]
           /\ newKey[d][k] \in ShmKey /\ newKey[d][k] \in keyInUse[created]
           /\ bound[newKey[d][k]] = <<d, k>>
  <1>1. /\ dpc[d] \in LockedPCs \ {"open"} /\ populated[d]
        /\ newKey[d][k] \in ShmKey /\ newKey[d][k] \in keyInUse[created]
        /\ bound[newKey[d][k]] = <<d, k>>
    BY UnpublishedKey DEF PublishStep
  <1>2. dataset[d] \in Datasets /\ created \in Monitors
    BY <1>1, ActiveStore
  <1>3. Newest(dataset[d], k).timestamp \in Nat
    BY <1>2 DEF UpdateInv, TypeOK, Newest, Names, SharedRegion
  <1>4. \A ds \in Datasets, j \in Kinds :
           ~ (ds = dataset[d] /\ j = k) => regions'[created][<<ds, j>>] = Newest(ds, j)
    BY DEF PublishStep, Names, Newest
  <1>5. /\ regions'[created][<<dataset[d], k>>].timestamp = Newest(dataset[d], k).timestamp + 1
        /\ regions'[created][<<dataset[d], k>>].shm_key = newKey[d][k]
        /\ UNCHANGED <<created, keyInUse, bound>>
    BY DEF PublishStep, Newest, KeepJob
  <1>. QED
    BY <1>1, <1>2, <1>3, <1>4, <1>5

\* A new monitor has an empty register.
LEMMA NewMonitorEmpty ==
    ASSUME UpdateInv, NEW d \in Datastores, MonitorStep(d),
           NEW ds \in Datasets, NEW k \in Kinds
    PROVE  ~ Registered(ds, k)'
  <1>1. created \in Nat /\ created' = created + 1 /\ created' \in Monitors /\ regions' = regions
    BY DataUpdateAssumption DEF MonitorStep, UpdateInv, TypeOK
  <1>2. \A m \in Monitors : m > created => \A n \in Names : IsEmpty(regions[m][n])
    BY DEF UpdateInv, MonitorInv
  <1>. QED
    BY <1>1, <1>2 DEF Registered, Newest, Names

\* What the newest register leads to after a step of a datastore.
LEMMA RegisterCases ==
    ASSUME UpdateInv, NEW d \in Datastores, StoreAction(d)
    PROVE  OtherStep(d) \/ MonitorStep(d) \/ \E k \in Kinds : PublishStep(d, k)
  BY StoreForms DEF OtherStep

\* Registered regions are loaded completely, and belong to their dataset.
LEMMA RegisterNext == UpdateInv /\ [Next]_vars => RegisterInv'
  <1>. SUFFICES ASSUME UpdateInv, [Next]_vars PROVE RegisterInv'
    OBVIOUS
  <1>1. ASSUME NEW d \in Datastores, StoreAction(d),
               NEW ds \in Datasets, NEW k \in Kinds, Registered(ds, k)'
        PROVE  /\ Newest(ds, k)'.shm_key \in keyInUse'[created']
               /\ \E e \in Datastores : Leads(ds, k)' = <<e, k>> /\ dataset'[e] = ds /\ populated'[e]
    <2>1. ASSUME Registered(ds, k), created' = created, Newest(ds, k)' = Newest(ds, k),
                 Leads(ds, k)' = Leads(ds, k), Newest(ds, k).shm_key \in keyInUse'[created]
          PROVE  /\ Newest(ds, k)'.shm_key \in keyInUse'[created']
                 /\ \E e \in Datastores : Leads(ds, k)' = <<e, k>> /\ dataset'[e] = ds /\ populated'[e]
      <3>1. PICK e \in Datastores : Leads(ds, k) = <<e, k>> /\ dataset[e] = ds /\ populated[e]
        BY <2>1, RegisteredRegion
      <3>2. dataset'[e] = ds /\ populated'[e]
        BY <1>1, <3>1, ContentSettled
      <3>. QED
        BY <2>1, <3>1, <3>2
    <2>2. CASE OtherStep(d)
      <3>1. created' = created /\ regions' = regions
        BY <2>2, RegisterKept
      <3>2. Registered(ds, k) /\ Newest(ds, k)' = Newest(ds, k)
        BY <1>1, <3>1 DEF Registered, Newest
      <3>3. Leads(ds, k)' = Leads(ds, k) /\ Newest(ds, k).shm_key \in keyInUse'[created]
        BY <2>2, <3>2, RegisterKept DEF Leads
      <3>. QED
        BY <2>1, <3>1, <3>2, <3>3
    <2>3. CASE MonitorStep(d)
      BY <1>1, <2>3, NewMonitorEmpty
    <2>4. ASSUME NEW j \in Kinds, PublishStep(d, j)
          PROVE  /\ Newest(ds, k)'.shm_key \in keyInUse'[created']
                 /\ \E e \in Datastores : Leads(ds, k)' = <<e, k>> /\ dataset'[e] = ds /\ populated'[e]
      <3>0. /\ UNCHANGED <<created, keyInUse, bound>>
            /\ regions'[created][<<dataset[d], j>>].shm_key = newKey[d][j]
            /\ newKey[d][j] \in keyInUse[created] /\ bound[newKey[d][j]] = <<d, j>> /\ populated[d]
            /\ \A x \in Datasets, i \in Kinds :
                 ~ (x = dataset[d] /\ i = j) => regions'[created][<<x, i>>] = Newest(x, i)
        BY ONLY UpdateInv, d \in Datastores, j \in Kinds, <2>4, PublishEffect
      <3>1. CASE ds = dataset[d] /\ k = j
        <4>1. /\ Newest(ds, k)'.shm_key = newKey[d][k] /\ bound' = bound /\ keyInUse' = keyInUse
              /\ created' = created
              /\ newKey[d][k] \in keyInUse[created] /\ bound[newKey[d][k]] = <<d, k>> /\ populated[d]
          BY <3>0, <3>1 DEF Newest
        <4>2. dataset'[d] = ds /\ populated'[d]
          BY <1>1, <3>1, <4>1, ContentSettled
        <4>. QED
          BY <4>1, <4>2 DEF Leads
      <3>2. CASE ~ (ds = dataset[d] /\ k = j)
        <4>1. Newest(ds, k)' = Newest(ds, k) /\ UNCHANGED <<created, keyInUse, bound>>
          BY <3>0, <3>2 DEF Newest
        <4>2. Registered(ds, k) /\ Leads(ds, k)' = Leads(ds, k)
          BY <1>1, <4>1 DEF Registered, Leads
        <4>3. Newest(ds, k).shm_key \in keyInUse'[created]
          BY <4>1, <4>2, RegisteredRegion
        <4>. QED
          BY <2>1, <4>1, <4>2, <4>3
      <3>. QED
        BY <3>1, <3>2
    <2>. QED
      BY <1>1, <2>2, <2>3, <2>4, RegisterCases
  <1>2. ASSUME UNCHANGED registerSide PROVE RegisterInv'
    BY <1>2 DEF UpdateInv, RegisterInv, registerSide, Registered, Newest, Leads
  <1>3. ASSUME NEW d \in Datastores, StoreAction(d) PROVE RegisterInv'
    BY <1>1, <1>3 DEF RegisterInv
  <1>. QED
    BY <1>2, <1>3, StepCases, WatchFrame

-----------------------------------------------------------------------------

\* What NewKeyInv says of a datastore's region.
FreshKey(d, k) ==
    /\ newKey[d][k] \in ShmKey
    /\ newKey[d][k] \in keyInUse[created]
    /\ bound[newKey[d][k]] = <<d, k>>
    /\ \A ds \in Datasets : Registered(ds, k) => Leads(ds, k) # <<d, k>>

\* A key that is being loaded stays with its datastore until it is published.
LEMMA NewKeyNext == UpdateInv /\ [Next]_vars => NewKeyInv'
  <1>. SUFFICES ASSUME UpdateInv, [Next]_vars PROVE NewKeyInv'
    OBVIOUS
  <1>0. \A e \in Datastores, k \in Kinds :
           dpc[e] \in BeforeSwap(k) /\ (k = "static" => ~ onlyMetric[e]) => FreshKey(e, k)
    BY DEF UpdateInv, NewKeyInv, FreshKey
  <1>1. ASSUME NEW d \in Datastores, StoreAction(d), NEW e \in Datastores, e # d, NEW k \in Kinds,
               dpc'[e] \in BeforeSwap(k), k = "static" => ~ onlyMetric'[e]
        PROVE  FreshKey(e, k)'
    <2>1. dpc'[e] = dpc[e] /\ newKey'[e] = newKey[e] /\ onlyMetric'[e] = onlyMetric[e]
      BY <1>1, OtherStores
    <2>2. dpc[e] \in LockedPCs
      BY <1>1, <2>1 DEF BeforeSwap, LockedPCs, StorePCs, FinalPCs
    <2>3. KeepRegister
      BY <1>1, <2>2, OthersWait
    <2>4. FreshKey(e, k)
      BY <1>0, <1>1, <2>1
    <2>. QED
      BY ONLY <2>1, <2>3, <2>4 DEF FreshKey, KeepRegister, Registered, Newest, Leads
  <1>2. ASSUME NEW d \in Datastores, StoreAction(d), NEW k \in Kinds,
               dpc'[d] \in BeforeSwap(k), k = "static" => ~ onlyMetric'[d]
        PROVE  FreshKey(d, k)'
    <2>1. CASE StartStep(d) \/ ExitStep(d) \/ TimeoutStep(d) \/ ReuseStep(d) \/ MonitorStep(d)
               \/ RemoveStep(d) \/ DetachStep(d)
      BY ONLY <1>2, <2>1 DEF StartStep, ExitStep, TimeoutStep, ReuseStep, MonitorStep, RemoveStep,
                             DetachStep, BeforeSwap, FinalPCs, KeepJob
    <2>2. CASE MoveStep(d) \/ PopulateStep(d)
      <3>1. dpc[d] \in BeforeSwap(k) /\ (k = "static" => ~ onlyMetric[d])
        BY ONLY <1>2, <2>2 DEF MoveStep, PopulateStep, BeforeSwap, KeepJob
      <3>2. FreshKey(d, k)
        BY <1>0, <3>1
      <3>. QED
        BY ONLY <2>2, <3>2
           DEF MoveStep, PopulateStep, KeepRegister, KeepHandles, FreshKey, Registered, Newest, Leads
    <2>3. ASSUME NEW j \in Kinds, NEW key \in ShmKey, SetupStep(d, j, key) PROVE FreshKey(d, k)'
      <3>1. /\ created' = created /\ regions' = regions
            /\ \A ds \in Datasets : Registered(ds, k) => bound'[Newest(ds, k).shm_key] = Leads(ds, k)
        BY <2>3, RegisterKept DEF OtherStep
      <3>2. CASE j = k
        <4>1. dpc[d] \in BeforeSetup(k)
          BY ONLY <2>3, <3>2 DEF SetupStep, BeforeSetup
        <4>2. \A x \in ShmKey : bound[x] # <<d, k>>
          BY <4>1 DEF UpdateInv, BoundInv
        <4>3. \A ds \in Datasets : Registered(ds, k) => Leads(ds, k) # <<d, k>>
          BY <4>2, RegisteredRegion DEF Leads
        <4>4. newKey'[d][k] = key /\ key \in keyInUse'[created] /\ bound'[key] = <<d, k>>
          BY ONLY <2>3, <3>2 DEF SetupStep
        <4>. QED
          BY ONLY <3>1, <4>3, <4>4, key \in ShmKey DEF FreshKey, Registered, Newest, Leads
      <3>3. CASE j # k
        <4>1. /\ k = "static" /\ dpc[d] = "updatable" /\ ~ onlyMetric[d]
          BY ONLY <1>2, <2>3, <3>3, k \in Kinds DEF SetupStep, BeforeSwap, KeepJob, Kinds
        <4>2. FreshKey(d, k)
          BY <1>0, <4>1 DEF BeforeSwap
        <4>3. /\ newKey'[d][k] = newKey[d][k] /\ newKey[d][k] # key
              /\ newKey[d][k] \in keyInUse'[created] /\ bound'[newKey[d][k]] = bound[newKey[d][k]]
          BY ONLY <2>3, <3>3, <4>2, k \in Kinds DEF SetupStep, FreshKey
        <4>. QED
          BY ONLY <3>1, <4>2, <4>3 DEF FreshKey, Registered, Newest, Leads
      <3>. QED
        BY <3>2, <3>3
    <2>4. ASSUME NEW j \in Kinds, PublishStep(d, j) PROVE FreshKey(d, k)'
      <3>1. j = "static" /\ k = "updatable" /\ dpc[d] \in BeforeSwap(k) /\ newKey'[d] = newKey[d]
        BY ONLY <1>2, <2>4, k \in Kinds, j \in Kinds
           DEF PublishStep, BeforeSwap, SwapPC, AfterSwapPC, Kinds
      <3>2. FreshKey(d, k)
        BY <1>0, <3>1
      <3>3. /\ UNCHANGED <<created, keyInUse, bound>>
            /\ \A x \in Datasets, i \in Kinds :
                 ~ (x = dataset[d] /\ i = j) => regions'[created][<<x, i>>] = Newest(x, i)
        BY ONLY UpdateInv, d \in Datastores, j \in Kinds, <2>4, PublishEffect
      <3>4. \A x \in Datasets : regions'[created][<<x, k>>] = regions[created][<<x, k>>]
        BY ONLY <3>1, <3>3, k \in Kinds DEF Newest
      <3>. QED
        BY ONLY <3>1, <3>2, <3>3, <3>4 DEF FreshKey, Registered, Newest, Leads
    <2>. QED
      BY <1>2, <2>1, <2>2, <2>3, <2>4, StoreForms
  <1>3. ASSUME NEW d \in Datastores, StoreAction(d) PROVE NewKeyInv'
    BY <1>1, <1>2, <1>3 DEF NewKeyInv, FreshKey
  <1>4. ASSUME UNCHANGED registerSide PROVE NewKeyInv'
    BY <1>4 DEF UpdateInv, NewKeyInv, registerSide, Registered, Newest, Leads
  <1>. QED
    BY <1>3, <1>4, StepCases, WatchFrame

\* A datastore has no key for a region that it has not set up.
LEMMA NoKeyNext == UpdateInv /\ [Next]_vars => NoKeyInv'
  <1>. SUFFICES ASSUME UpdateInv, [Next]_vars PROVE NoKeyInv'
    OBVIOUS
  <1>0. NoKeyInv
    BY DEF UpdateInv
  <1>1. ASSUME NEW d \in Datastores, StoreAction(d), NEW e \in Datastores, NEW k \in Kinds,
               dpc'[e] \in BeforeSetup(k) \/ (k = "static" /\ onlyMetric'[e])
        PROVE  newKey'[e][k] = None
    <2>1. CASE e # d
      BY <1>0, <1>1, <2>1, OtherStores DEF NoKeyInv
    <2>2. CASE e = d
      <3>1. CASE ExitStep(d) \/ TimeoutStep(d)
        BY ONLY <2>2, <3>1, k \in Kinds DEF ExitStep, TimeoutStep, DropHandles, NoKeys
      <3>2. CASE StartStep(d)
        BY ONLY <1>0, <2>2, <3>2, e \in Datastores, k \in Kinds
           DEF StartStep, KeepHandles, NoKeyInv, BeforeSetup
      <3>3. CASE MoveStep(d) \/ PopulateStep(d) \/ ReuseStep(d) \/ MonitorStep(d)
                 \/ (\E j \in Kinds : PublishStep(d, j)) \/ RemoveStep(d) \/ DetachStep(d)
        <4>1. newKey'[d] = newKey[d] /\ onlyMetric'[d] = onlyMetric[d]
          BY ONLY <3>3 DEF MoveStep, PopulateStep, ReuseStep, MonitorStep, PublishStep, RemoveStep,
                           DetachStep, KeepHandles, KeepJob
        <4>2. dpc'[d] \in BeforeSetup(k) => dpc[d] \in BeforeSetup(k)
          BY ONLY <3>3, k \in Kinds
             DEF MoveStep, PopulateStep, ReuseStep, MonitorStep, PublishStep, RemoveStep, DetachStep,
                 BeforeSetup, SwapPC, AfterSwapPC, Kinds
        <4>. QED
          BY ONLY <1>0, <1>1, <2>2, <4>1, <4>2, e \in Datastores, k \in Kinds DEF NoKeyInv
      <3>4. ASSUME NEW j \in Kinds, NEW key \in ShmKey, SetupStep(d, j, key)
            PROVE  newKey'[e][k] = None
        <4>1. k # j /\ (dpc[d] \in BeforeSetup(k) \/ (k = "static" /\ onlyMetric[d]))
          BY ONLY <1>1, <2>2, <3>4, k \in Kinds DEF SetupStep, KeepJob, BeforeSetup, Kinds
        <4>2. newKey'[d][k] = newKey[d][k]
          BY ONLY <3>4, <4>1, k \in Kinds DEF SetupStep
        <4>. QED
          BY ONLY <1>0, <2>2, <4>1, <4>2, e \in Datastores, k \in Kinds DEF NoKeyInv
      <3>. QED
        BY <1>1, <3>1, <3>2, <3>3, <3>4, StoreForms
    <2>. QED
      BY <2>1, <2>2
  <1>2. ASSUME NEW d \in Datastores, StoreAction(d) PROVE NoKeyInv'
    BY <1>1, <1>2 DEF NoKeyInv
  <1>3. ASSUME UNCHANGED registerSide PROVE NoKeyInv'
    BY <1>0, <1>3 DEF NoKeyInv, registerSide
  <1>. QED
    BY <1>2, <1>3, StepCases, WatchFrame

-----------------------------------------------------------------------------

\* What BaseInv says of a datastore.
BaseOf(d) ==
    /\ dpc[d] \in BeforeSwap("static") /\ ~ onlyMetric[d] => base[d] = <<d, "static">>
    /\ dpc[d] = "swapUpdatable" \/ (dpc[d] \in BeforeSwap("static") /\ onlyMetric[d]) =>
         /\ Registered(dataset[d], "static")
         /\ base[d] = Leads(dataset[d], "static")

\* The static region a datastore builds on is its own, or stays registered.
LEMMA BaseNext == UpdateInv /\ [Next]_vars => BaseInv'
  <1>. SUFFICES ASSUME UpdateInv, [Next]_vars PROVE BaseInv'
    OBVIOUS
  <1>0. \A e \in Datastores : BaseOf(e)
    BY DEF UpdateInv, BaseInv, BaseOf
  <1>. USE DEF Kinds
  <1>1. ASSUME NEW d \in Datastores, StoreAction(d), NEW e \in Datastores, e # d
        PROVE  BaseOf(e)'
    <2>1. /\ dpc'[e] = dpc[e] /\ dataset'[e] = dataset[e] /\ onlyMetric'[e] = onlyMetric[e]
          /\ base'[e] = base[e]
      BY <1>1, OtherStores
    <2>2. CASE dpc[e] \in LockedPCs
      <3>1. KeepRegister
        BY <1>1, <2>2, OthersWait
      <3>2. BaseOf(e)
        BY <1>0
      <3>. QED
        BY ONLY <2>1, <3>1, <3>2 DEF BaseOf, KeepRegister, Registered, Newest, Leads
    <2>3. CASE dpc[e] \notin LockedPCs
      BY ONLY <2>1, <2>3 DEF BaseOf, BeforeSwap, LockedPCs, StorePCs, FinalPCs
    <2>. QED
      BY <2>2, <2>3
  <1>2. ASSUME NEW d \in Datastores, StoreAction(d) PROVE BaseOf(d)'
    <2>0. BaseOf(d)
      BY <1>0
    <2>1. CASE StartStep(d) \/ ExitStep(d) \/ TimeoutStep(d) \/ MonitorStep(d) \/ RemoveStep(d)
               \/ DetachStep(d)
      BY ONLY <2>1 DEF StartStep, ExitStep, TimeoutStep, MonitorStep, RemoveStep, DetachStep,
                       BaseOf, BeforeSwap, FinalPCs
    <2>2. CASE MoveStep(d) \/ PopulateStep(d)
      <3>1. /\ KeepRegister /\ dataset'[d] = dataset[d] /\ onlyMetric'[d] = onlyMetric[d]
            /\ base'[d] = base[d]
        BY ONLY <2>2 DEF MoveStep, PopulateStep, KeepJob, KeepContent
      <3>2. dpc'[d] \in BeforeSwap("static") => dpc[d] \in BeforeSwap("static")
        BY ONLY <2>2 DEF MoveStep, PopulateStep, BeforeSwap
      <3>3. dpc'[d] = "swapUpdatable" => dpc[d] \in BeforeSwap("static") /\ onlyMetric[d]
        BY ONLY <2>2 DEF MoveStep, PopulateStep, BeforeSwap
      <3>. QED
        BY ONLY <2>0, <3>1, <3>2, <3>3 DEF BaseOf, KeepRegister, Registered, Newest, Leads
    <2>3. CASE ReuseStep(d)
      BY ONLY <2>3 DEF ReuseStep, BaseOf, KeepRegister, KeepJob, Registered, Newest, Leads
    <2>4. ASSUME NEW k \in Kinds, NEW key \in ShmKey, SetupStep(d, k, key) PROVE BaseOf(d)'
      <3>1. CASE k = "static"
        BY ONLY <2>4, <3>1 DEF SetupStep, BaseOf, KeepJob
      <3>2. CASE k = "updatable"
        <4>1. /\ created' = created /\ regions' = regions
              /\ \A ds \in Datasets, j \in Kinds : Registered(ds, j) =>
                   bound'[Newest(ds, j).shm_key] = Leads(ds, j)
          BY <2>4, RegisterKept DEF OtherStep
        <4>2. dpc[d] = "updatable" /\ dataset[d] \in Datasets
          BY <2>4, <3>2, ActiveStore DEF SetupStep, LockedPCs, StorePCs, FinalPCs
        <4>3. /\ dataset'[d] = dataset[d] /\ onlyMetric'[d] = onlyMetric[d]
              /\ base'[d] = base[d] /\ dpc'[d] = "populate"
          BY ONLY <2>4, <3>2 DEF SetupStep, KeepJob
        <4>. QED
          BY ONLY <2>0, <4>1, <4>2, <4>3 DEF BaseOf, BeforeSwap, Registered, Newest, Leads
      <3>. QED
        BY <3>1, <3>2
    <2>5. ASSUME NEW k \in Kinds, PublishStep(d, k) PROVE BaseOf(d)'
      <3>1. CASE k = "updatable"
        BY ONLY <2>5, <3>1 DEF PublishStep, AfterSwapPC, BaseOf, BeforeSwap
      <3>2. CASE k = "static"
        <4>1. dpc[d] = "swapStatic" /\ dpc'[d] = "swapUpdatable"
          BY ONLY <2>5, <3>2 DEF PublishStep, SwapPC, AfterSwapPC
        <4>2. base[d] = <<d, "static">>
          BY <2>0, <4>1 DEF UpdateInv, ContentInv, BaseOf, BeforeSwap
        <4>3. /\ UNCHANGED <<created, bound>> /\ created \in Monitors
              /\ regions'[created][<<dataset[d], k>>].timestamp = Newest(dataset[d], k).timestamp + 1
              /\ Newest(dataset[d], k).timestamp \in Nat
              /\ regions'[created][<<dataset[d], k>>].shm_key = newKey[d][k]
              /\ bound[newKey[d][k]] = <<d, k>>
          BY ONLY UpdateInv, d \in Datastores, k \in Kinds, <2>5, PublishEffect
        <4>4. dataset'[d] = dataset[d] /\ base'[d] = base[d]
          BY ONLY <2>5 DEF PublishStep, KeepJob, KeepContent
        <4>. QED
          BY ONLY <3>2, <4>1, <4>2, <4>3, <4>4
             DEF BaseOf, BeforeSwap, Registered, Newest, Leads, IsEmpty
      <3>. QED
        BY <3>1, <3>2
    <2>. QED
      BY <1>2, <2>1, <2>2, <2>3, <2>4, <2>5, StoreForms
  <1>3. ASSUME NEW d \in Datastores, StoreAction(d) PROVE BaseInv'
    BY <1>1, <1>2, <1>3 DEF BaseInv, BaseOf
  <1>4. ASSUME UNCHANGED registerSide PROVE BaseInv'
    BY <1>4 DEF UpdateInv, BaseInv, registerSide, Registered, Newest, Leads
  <1>. QED
    BY <1>3, <1>4, StepCases, WatchFrame

\* Between the two halves of publishing a datastore goes on, is killed with the mutex, or
\* finds that there is no old half left to be replaced.
LEMMA HalfWay ==
    ASSUME UpdateInv, NEW d \in Datastores, StoreAction(d), dpc[d] = "swapUpdatable"
    PROVE  \/ \E k \in Kinds : PublishStep(d, k)
           \/ dpc'[d] = "killed" /\ mutex' = mutex
           \/ ~ Registered(dataset[d], "updatable")
  <1>1. dmon[d] = created
    BY ActiveStore DEF LockedPCs, StorePCs, FinalPCs
  <1>2. dpc \in [Datastores -> StorePCs]
    BY DEF UpdateInv, TypeOK
  <1>3. CASE KillDatastore(d) \/ TerminateDatastore(d)
    BY ONLY <1>2, <1>3, d \in Datastores DEF KillDatastore, TerminateDatastore, Exit
  <1>4. CASE \E k \in Kinds : RegisterThrows(d, k)
    BY ONLY <1>1, <1>4, dpc[d] = "swapUpdatable"
       DEF Abort, RegisterThrows, SwapPC, Registered, Newest, Find, Kinds
  <1>5. CASE ~ (KillDatastore(d) \/ TerminateDatastore(d) \/ \E k \in Kinds : RegisterThrows(d, k))
    <2>1. \E k \in Kinds : RegisterRegion(d, k) \/ ReplaceRegion(d, k)
      BY ONLY <1>5, StoreAction(d), dpc[d] = "swapUpdatable"
         DEF StoreAction, StoreStep, Start, AcquireFileLock, OpenMonitor, ReuseStatic,
             ReuseStaticThrows, SetupStatic, SetupUpdatable, ReserveKeyThrows, InputError,
             InputAborts, Abort, ReadsFiles, Populate,
             LockMonitor, LockTimeout, UnlockMonitor, NotifyAll, RemoveOld, WaitForDetach, Finish
    <2>2. dpc'[d] = "unlock"
      BY ONLY <1>2, <2>1, dpc[d] = "swapUpdatable", d \in Datastores
         DEF RegisterRegion, ReplaceRegion, SwapPC, AfterSwapPC, Kinds
    <2>. QED
      BY ONLY <2>2, UpdateInv, StoreAction(d), d \in Datastores, dpc[d] = "swapUpdatable", StoreForms
         DEF StartStep, ExitStep, TimeoutStep, MoveStep, PopulateStep, ReuseStep, MonitorStep,
             SetupStep, RemoveStep, DetachStep, FinalPCs
  <1>. QED
    BY <1>3, <1>4, <1>5

\* A half published dataset stays so until its other half is published, or missing.
LEMMA HalfPublishedStays ==
    ASSUME UpdateInv, NEW d \in Datastores, StoreAction(d), OtherStep(d), NEW ds \in Datasets,
           HalfPublished(ds), Registered(ds, "updatable")
    PROVE  HalfPublished(ds)'
  <1>1. PICK x \in Datastores : /\ mutex[created] = x /\ dataset[x] = ds
                                /\ dpc[x] \in {"swapUpdatable", "killed"}
    BY DEF HalfPublished
  <1>2. created' = created /\ created \in Monitors
    BY RegisterKept DEF Registered
  <1>3. dpc[d] # "killed"
    BY StoreMoves DEF StoreControl, LockedPCs, StorePCs, FinalPCs
  <1>4. x # None
    BY DataUpdateAssumption DEF Processes
  <1>5. CASE x = d
    <2>1. dpc'[d] = "killed" /\ mutex' = mutex
      <3>1. ~ \E k \in Kinds : PublishStep(d, k)
        BY ONLY <1>1, <1>3, <1>5, OtherStep(d), d \in Datastores
           DEF OtherStep, PublishStep, StartStep, ExitStep, TimeoutStep, MoveStep, PopulateStep,
               ReuseStep, SetupStep, RemoveStep, DetachStep, SwapPC, AfterSwapPC, FinalPCs, LockedPCs,
               StorePCs, Kinds
      <3>. QED
        BY <1>1, <1>3, <1>5, <3>1, HalfWay
    <2>2. dataset'[d] = dataset[d]
      BY ONLY <1>1, <1>3, <1>5, OtherStep(d)
         DEF OtherStep, StartStep, ExitStep, TimeoutStep, MoveStep, PopulateStep,
               ReuseStep, SetupStep, RemoveStep, DetachStep, KeepJob
    <2>. QED
      BY <1>1, <1>2, <1>5, <2>1, <2>2 DEF HalfPublished
  <1>6. CASE x # d
    <2>1. dpc'[x] = dpc[x] /\ dataset'[x] = dataset[x]
      BY <1>6, OtherStores
    <2>2. mutex'[created] = x
      <3>1. StoreMutex(d)
        BY StoreMutexMoves
      <3>2. dpc[d] \in SwapPCs => mutex[dmon[d]] = d
        BY DEF UpdateInv, MutexInv
      <3>3. dpc[d] \in SwapPCs \cup {"swap"} => dmon[d] = created
        BY ActiveStore DEF SwapPCs, LockedPCs, StorePCs, FinalPCs
      <3>. QED
        BY ONLY <1>1, <1>4, <1>6, <3>1, <3>2, <3>3 DEF StoreMutex
    <2>. QED
      BY <1>1, <1>2, <2>1, <2>2 DEF HalfPublished
  <1>. QED
    BY <1>5, <1>6

\* The two registered regions of a dataset belong together unless it is half published.
LEMMA PairNext == UpdateInv /\ [Next]_vars => PairInv'
  <1>. SUFFICES ASSUME UpdateInv, [Next]_vars PROVE PairInv'
    OBVIOUS
  <1>0. PairInv
    BY DEF UpdateInv
  <1>1. ASSUME NEW d \in Datastores, StoreAction(d), NEW ds \in Datasets,
               \A k \in Kinds : Registered(ds, k)', ~ HalfPublished(ds)',
               NEW e \in Datastores, Leads(ds, "updatable")' = <<e, "updatable">>
        PROVE  base'[e] = Leads(ds, "static")'
    <2>1. ASSUME \A k \in Kinds : Registered(ds, k) /\ Leads(ds, k)' = Leads(ds, k),
                 ~ HalfPublished(ds)
          PROVE  base'[e] = Leads(ds, "static")'
      <3>1. Leads(ds, "updatable") = <<e, "updatable">> /\ Leads(ds, "static")' = Leads(ds, "static")
        BY <1>1, <2>1 DEF Kinds
      <3>2. base[e] = Leads(ds, "static")
        BY <1>0, <2>1, <3>1 DEF PairInv
      <3>3. populated[e]
        <4>1. \E x \in Datastores : Leads(ds, "updatable") = <<x, "updatable">> /\ populated[x]
          BY <2>1, RegisteredRegion DEF Kinds
        <4>. QED
          BY <3>1, <4>1
      <3>4. base'[e] = base[e]
        BY <1>1, <3>3, ContentSettled
      <3>. QED
        BY <3>1, <3>2, <3>4
    <2>2. CASE OtherStep(d)
      <3>1. /\ created' = created /\ regions' = regions
            /\ \A k \in Kinds : Registered(ds, k) => bound'[Newest(ds, k).shm_key] = Leads(ds, k)
        BY <2>2, RegisterKept
      <3>2. \A k \in Kinds : Registered(ds, k) /\ Leads(ds, k)' = Leads(ds, k)
        BY ONLY <1>1, <3>1 DEF Registered, Newest, Leads
      <3>3. ~ HalfPublished(ds)
        BY <1>1, <2>2, <3>2, HalfPublishedStays DEF Kinds
      <3>. QED
        BY <2>1, <3>2, <3>3
    <2>3. CASE MonitorStep(d)
      BY <1>1, <2>3, NewMonitorEmpty DEF Kinds
    <2>4. ASSUME NEW j \in Kinds, PublishStep(d, j) PROVE base'[e] = Leads(ds, "static")'
      <3>1. /\ UNCHANGED <<created, bound>>
            /\ regions'[created][<<dataset[d], j>>].shm_key = newKey[d][j]
            /\ bound[newKey[d][j]] = <<d, j>> /\ populated[d]
            /\ \A x \in Datasets, i \in Kinds :
                 ~ (x = dataset[d] /\ i = j) => regions'[created][<<x, i>>] = Newest(x, i)
        BY ONLY UpdateInv, d \in Datastores, j \in Kinds, <2>4, PublishEffect
      <3>2. mutex[created] = d
        <4>1. dpc[d] \in SwapPCs /\ dpc[d] \in LockedPCs \ {"open"}
          BY ONLY <2>4, j \in Kinds DEF PublishStep, SwapPC, SwapPCs, LockedPCs, StorePCs, FinalPCs, Kinds
        <4>. QED
          BY <4>1, ActiveStore DEF UpdateInv, MutexInv
      <3>3. CASE ds # dataset[d]
        <4>1. ~ HalfPublished(ds)
          BY <3>2, <3>3 DEF HalfPublished
        <4>2. \A k \in Kinds : Registered(ds, k) /\ Leads(ds, k)' = Leads(ds, k)
          BY ONLY <1>1, <3>1, <3>3, ds \in Datasets DEF Registered, Newest, Leads
        <4>. QED
          BY <2>1, <4>1, <4>2
      <3>4. CASE ds = dataset[d] /\ j = "static"
        <4>1. dpc[d] = "swapStatic" /\ dpc'[d] = "swapUpdatable" /\ dataset'[d] = dataset[d]
          BY ONLY <2>4, <3>4 DEF PublishStep, SwapPC, AfterSwapPC, KeepJob
        <4>2. mutex' = mutex
          BY <1>1, <4>1, StoreMutexMoves DEF StoreMutex, SwapPCs
        <4>3. HalfPublished(ds)'
          BY ONLY <3>1, <3>2, <3>4, <4>1, <4>2, d \in Datastores DEF HalfPublished
        <4>. QED
          BY <1>1, <4>3
      <3>5. CASE ds = dataset[d] /\ j = "updatable"
        <4>1. Leads(ds, "updatable")' = <<d, "updatable">>
          BY ONLY <3>1, <3>5 DEF Leads, Newest
        <4>2. e = d
          BY <1>1, <4>1
        <4>3. dpc[d] = "swapUpdatable"
          BY ONLY <2>4, <3>5 DEF PublishStep, SwapPC
        <4>4. base[d] = Leads(ds, "static")
          BY <3>5, <4>3 DEF UpdateInv, BaseInv
        <4>5. Leads(ds, "static")' = Leads(ds, "static")
          BY ONLY <3>1, <3>5, ds \in Datasets DEF Leads, Newest, Kinds
        <4>6. base'[d] = base[d]
          BY <1>1, <3>1, ContentSettled
        <4>. QED
          BY <4>2, <4>4, <4>5, <4>6
      <3>. QED
        BY <3>3, <3>4, <3>5 DEF Kinds
    <2>. QED
      BY <1>1, <2>2, <2>3, <2>4, RegisterCases
  <1>2. ASSUME NEW d \in Datastores, StoreAction(d) PROVE PairInv'
    BY <1>1, <1>2 DEF PairInv
  <1>3. ASSUME UNCHANGED registerSide,
               \A x \in Datastores : mutex[created] = x /\ created \in Monitors => mutex'[created] = x
        PROVE  PairInv'
    <2>1. \A ds \in Datasets : HalfPublished(ds) /\ created \in Monitors => HalfPublished(ds)'
      BY ONLY <1>3 DEF HalfPublished, registerSide
    <2>2. \A ds \in Datasets, k \in Kinds : /\ Registered(ds, k)' <=> Registered(ds, k)
                                            /\ Leads(ds, k)' = Leads(ds, k)
      BY ONLY <1>3 DEF Registered, Leads, Newest, registerSide
    <2>3. base' = base
      BY ONLY <1>3 DEF registerSide
    <2>4. \A ds \in Datasets, k \in Kinds : Registered(ds, k) => created \in Monitors
      BY DEF Registered
    <2>. QED
      BY ONLY <1>0, <2>1, <2>2, <2>3, <2>4 DEF PairInv, Kinds
  <1>4. ASSUME NEW w \in Watchers, WatchAction(w),
               NEW x \in Datastores, mutex[created] = x, created \in Monitors
        PROVE  mutex'[created] = x
    <2>1. WatchControl(w)
      BY <1>4, WatchMoves
    <2>2. wpc[w] \in WatchMutexPCs => mutex[wmon[w]] = w
      BY DEF UpdateInv, MutexInv
    <2>3. x # None /\ x # w
      BY DataUpdateAssumption DEF Processes
    <2>4. mutex \in [Monitors -> Processes \cup {None}]
      BY DEF UpdateInv, TypeOK
    <2>. QED
      BY ONLY <1>4, <2>1, <2>2, <2>3, <2>4 DEF WatchControl
  <1>. QED
    BY <1>2, <1>3, <1>4, StepCases, WatchFrame

-----------------------------------------------------------------------------

\* What OldKeyInv says of a datastore and a kind.
OldOf(d, k) ==
    /\ dpc[d] \notin CleanupPCs \/ dpc[d] = SwapPC(k) =>
         oldKey[d][k] = None /\ oldSegment[d][k] = None
    /\ oldKey[d][k] # None =>
         /\ oldKey[d][k] \in keyInUse[created]
         /\ \E e \in Datastores : oldSegment[d][k] = <<e, k>> /\ populated[e]
         /\ \A ds \in Datasets, j \in Kinds :
              Registered(ds, j) => Newest(ds, j).shm_key # oldKey[d][k]
         /\ dpc[d] # "detach" \/ k # OldKind(d) => bound[oldKey[d][k]] = oldSegment[d][k]
    /\ dpc[d] = "detach" /\ k = OldKind(d) =>
         /\ oldKey[d][k] # None
         /\ bound[oldKey[d][k]] = None
         /\ \A key \in ShmKey : bound[key] # oldSegment[d][k]
    /\ oldSegment[d][k] # None /\ oldKey[d][k] = None => dpc[d] \in {"remove", "detach"}

\* A key stays reserved, and its segment bound to it, until the clean-up gets to it.
LEMMA OldKeyNext == UpdateInv /\ [Next]_vars => OldKeyInv'
  <1>. SUFFICES ASSUME UpdateInv, [Next]_vars PROVE OldKeyInv'
    OBVIOUS
  <1>0. \A d \in Datastores, k \in Kinds : OldOf(d, k)
    BY DEF UpdateInv, OldKeyInv, OldOf
  <1>00. /\ oldKey \in [Datastores -> [Kinds -> ShmKey \cup {None}]]
         /\ None \notin ShmKey
         /\ \A e \in Datastores, k \in Kinds : <<e, k>> # None
    BY DataUpdateAssumption DEF UpdateInv, TypeOK, Segments
  <1>1. ASSUME NEW d \in Datastores, StoreAction(d), NEW e \in Datastores, e # d, NEW k \in Kinds
        PROVE  OldOf(e, k)'
    <2>0. OldOf(e, k)
      BY <1>0
    <2>1. dpc'[e] = dpc[e] /\ oldKey'[e] = oldKey[e] /\ oldSegment'[e] = oldSegment[e]
      BY <1>1, OtherStores
    <2>2. \A x \in Datastores : populated[x] => populated'[x]
      BY <1>1, ContentSettled
    <2>3. OldKind(e)' = OldKind(e)
      BY ONLY <2>1 DEF OldKind
    <2>4. CASE dpc[e] \in LockedPCs
      <3>1. KeepRegister
        BY <1>1, <2>4, OthersWait
      <3>. QED
        BY ONLY <2>0, <2>1, <2>2, <2>3, <3>1 DEF OldOf, KeepRegister, Registered, Newest
    <2>5. CASE dpc[e] \notin LockedPCs
      <3>1. dpc[e] \notin CleanupPCs
        BY ONLY <2>5 DEF CleanupPCs, LockedPCs, StorePCs, FinalPCs
      <3>. QED
        BY ONLY <2>0, <2>1, <2>3, <3>1 DEF OldOf, SwapPC, CleanupPCs
    <2>. QED
      BY <2>4, <2>5
  <1>2. ASSUME NEW d \in Datastores, StoreAction(d), NEW k \in Kinds PROVE OldOf(d, k)'
    <2>0. \A j \in Kinds : OldOf(d, j)
      BY <1>0
    <2>1. CASE ExitStep(d) \/ TimeoutStep(d)
      BY ONLY <2>1, k \in Kinds
         DEF ExitStep, TimeoutStep, DropHandles, NoKeys, NoFacade, OldOf, CleanupPCs, FinalPCs
    <2>2. ASSUME oldKey'[d] = oldKey[d], oldSegment'[d] = oldSegment[d], dpc[d] \notin CleanupPCs,
                 dpc'[d] # "detach"
          PROVE  OldOf(d, k)'
      BY ONLY <2>0, <2>2, k \in Kinds DEF OldOf
    <2>3. CASE StartStep(d) \/ PopulateStep(d) \/ ReuseStep(d) \/ MonitorStep(d)
               \/ (\E j \in Kinds, key \in ShmKey : SetupStep(d, j, key))
      <3>1. /\ oldKey'[d] = oldKey[d] /\ oldSegment'[d] = oldSegment[d] /\ dpc[d] \notin CleanupPCs
            /\ dpc'[d] # "detach"
        BY ONLY <2>3 DEF StartStep, PopulateStep, ReuseStep, MonitorStep, SetupStep, KeepHandles,
                         CleanupPCs
      <3>. QED
        BY <2>2, <3>1
    <2>4. CASE MoveStep(d)
      <3>1. oldKey'[d] = oldKey[d] /\ oldSegment'[d] = oldSegment[d] /\ KeepRegister
        BY ONLY <2>4 DEF MoveStep, KeepHandles
      <3>2. \A x \in Datastores : populated[x] => populated'[x]
        BY <1>2, ContentSettled
      <3>3. CASE dpc[d] \notin CleanupPCs
        BY ONLY <2>2, <2>4, <3>1, <3>3 DEF MoveStep
      <3>4. CASE dpc[d] \in CleanupPCs
        <4>1. dpc[d] \in {"unlock", "notify"} /\ dpc'[d] \in {"notify", "remove"}
          BY ONLY <2>4, <3>4 DEF MoveStep, CleanupPCs
        <4>. QED
          BY ONLY <2>0, <3>1, <3>2, <4>1, k \in Kinds
             DEF OldOf, SwapPC, KeepRegister, CleanupPCs, Registered, Newest
      <3>. QED
        BY <3>3, <3>4
    <2>5. ASSUME NEW j \in Kinds, PublishStep(d, j) PROVE OldOf(d, k)'
      <3>1. /\ UNCHANGED <<created, keyInUse, bound>> /\ created \in Monitors
            /\ dataset[d] \in Datasets
            /\ regions'[created][<<dataset[d], j>>].shm_key = newKey[d][j]
            /\ bound[newKey[d][j]] = <<d, j>> /\ populated[d]
            /\ \A x \in Datasets, i \in Kinds :
                 ~ (x = dataset[d] /\ i = j) => regions'[created][<<x, i>>] = Newest(x, i)
        BY ONLY UpdateInv, d \in Datastores, j \in Kinds, <2>5, PublishEffect
      <3>2. /\ dpc[d] = SwapPC(j) /\ dpc'[d] = AfterSwapPC(j)
            /\ dpc[d] \notin {"remove", "detach"}
            /\ dpc'[d] \in CleanupPCs /\ dpc'[d] \notin {"remove", "detach"}
        BY ONLY <2>5, j \in Kinds DEF PublishStep, SwapPC, AfterSwapPC, CleanupPCs
      <3>3. \A x \in Datastores : populated[x] => populated'[x]
        BY <1>2, ContentSettled
      <3>4. OldOf(d, k)
        BY <2>0
      <3>5. ASSUME oldKey'[d][k] = None, oldSegment'[d][k] = None PROVE OldOf(d, k)'
        BY ONLY <3>2, <3>5 DEF OldOf
      <3>6. CASE k # j
        <4>1. oldKey'[d][k] = oldKey[d][k] /\ oldSegment'[d][k] = oldSegment[d][k]
          BY ONLY <2>5, <3>6, k \in Kinds DEF PublishStep
        <4>2. CASE dpc[d] \notin CleanupPCs
          BY ONLY <3>4, <3>5, <4>1, <4>2 DEF OldOf
        <4>3. CASE dpc[d] \in CleanupPCs
          <5>1. k = "static" /\ j = "updatable" /\ dpc'[d] = "unlock"
            BY ONLY <3>2, <3>6, <4>3, k \in Kinds, j \in Kinds
               DEF SwapPC, AfterSwapPC, CleanupPCs, Kinds
          <5>2. CASE oldKey[d][k] = None
            BY ONLY <3>2, <3>4, <3>5, <4>1, <5>2 DEF OldOf
          <5>3. CASE oldKey[d][k] # None
            <6>1. /\ oldKey[d][k] \in keyInUse[created]
                  /\ \E e \in Datastores : oldSegment[d][k] = <<e, k>> /\ populated[e]
                  /\ \A ds \in Datasets, i \in Kinds :
                       Registered(ds, i) => Newest(ds, i).shm_key # oldKey[d][k]
                  /\ bound[oldKey[d][k]] = oldSegment[d][k]
              BY ONLY <3>2, <3>4, <5>3 DEF OldOf
            <6>2. newKey[d][j] # oldKey[d][k]
              BY ONLY <3>1, <3>6, <6>1
            <6>3. ASSUME NEW ds \in Datasets, NEW i \in Kinds, Registered(ds, i)'
                  PROVE  Newest(ds, i)'.shm_key # oldKey[d][k]
              <7>1. CASE ds = dataset[d] /\ i = j
                BY ONLY <3>1, <6>2, <7>1 DEF Newest
              <7>2. CASE ~ (ds = dataset[d] /\ i = j)
                BY ONLY <3>1, <6>1, <6>3, <7>2, ds \in Datasets, i \in Kinds DEF Newest, Registered
              <7>. QED
                BY <7>1, <7>2
            <6>4. dpc'[d] # SwapPC(k)
              BY ONLY <5>1 DEF SwapPC
            <6>. QED
              BY ONLY <3>1, <3>2, <3>3, <4>1, <5>3, <6>1, <6>3, <6>4 DEF OldOf
          <5>. QED
            BY <5>2, <5>3
        <4>. QED
          BY <4>2, <4>3
      <3>7. CASE k = j
        <4>1. oldKey[d][k] = None /\ oldSegment[d][k] = None
          BY ONLY <3>2, <3>4, <3>7 DEF OldOf
        <4>2. CASE ~ Registered(dataset[d], k)
          <5>1. oldKey'[d][k] = None /\ oldSegment'[d][k] = None
            BY ONLY <2>5, <3>7, <4>1, <4>2 DEF PublishStep
          <5>. QED
            BY ONLY <3>5, <5>1
        <4>3. CASE Registered(dataset[d], k)
          <5>1. /\ oldKey'[d][k] = Newest(dataset[d], k).shm_key
                /\ oldSegment'[d][k] = Leads(dataset[d], k)
            BY ONLY <2>5, <3>7, <4>3 DEF PublishStep
          <5>2. /\ Newest(dataset[d], k).shm_key \in ShmKey
                /\ Newest(dataset[d], k).shm_key \in keyInUse[created]
                /\ \E e \in Datastores :
                      Leads(dataset[d], k) = <<e, k>> /\ dataset[e] = dataset[d] /\ populated[e]
            BY <3>1, <4>3, RegisteredRegion
          <5>3. Leads(dataset[d], k) # <<d, k>>
            BY <3>1, <3>2, <3>7, <4>3, UnpublishedKey
          <5>4. ASSUME NEW ds \in Datasets, NEW i \in Kinds, Registered(ds, i)'
                PROVE  Newest(ds, i)'.shm_key # oldKey'[d][k]
            <6>1. CASE ds = dataset[d] /\ i = j
              BY ONLY <3>1, <3>7, <5>1, <5>3, <6>1 DEF Newest, Leads
            <6>2. CASE ~ (ds = dataset[d] /\ i = j)
              <7>1. Newest(ds, i)' = Newest(ds, i) /\ Registered(ds, i)
                BY ONLY <3>1, <5>4, <6>2, ds \in Datasets, i \in Kinds DEF Newest, Registered
              <7>2. \E e \in Datastores : Leads(ds, i) = <<e, i>> /\ dataset[e] = ds
                BY <7>1, RegisteredRegion
              <7>. QED
                BY ONLY <3>7, <5>1, <5>2, <6>2, <7>1, <7>2 DEF Leads
            <6>. QED
              BY <6>1, <6>2
          <5>5. dpc'[d] # SwapPC(k)
            BY ONLY <3>2, <3>7, k \in Kinds DEF SwapPC, AfterSwapPC, Kinds
          <5>. QED
            BY ONLY <1>00, <3>1, <3>2, <3>3, <5>1, <5>2, <5>4, <5>5 DEF OldOf, Leads
        <4>. QED
          BY <4>2, <4>3
      <3>. QED
        BY <3>6, <3>7
    <2>6. CASE RemoveStep(d)
      <3>1. /\ OldKind(d) \in Kinds /\ oldKey[d][OldKind(d)] # None
            /\ oldKey[d][OldKind(d)] \in ShmKey
        BY <2>6, CleanupKey
      <3>2. /\ dpc[d] = "remove" /\ dpc'[d] = "detach"
            /\ oldKey'[d] = oldKey[d] /\ oldSegment'[d] = oldSegment[d]
            /\ UNCHANGED <<created, regions, keyInUse>>
            /\ bound'[oldKey[d][OldKind(d)]] = None
            /\ \A key \in ShmKey : \/ key # oldKey[d][OldKind(d)] /\ bound'[key] = bound[key]
                                   \/ bound'[key] = None
        BY ONLY <2>6, <3>1 DEF RemoveStep, KeepHandles
      <3>3. OldKind(d)' = OldKind(d)
        BY ONLY <3>2 DEF OldKind
      <3>4. \A x \in Datastores : populated[x] => populated'[x]
        BY <1>2, ContentSettled
      <3>5. CASE k = OldKind(d)
        <4>1. /\ bound[oldKey[d][k]] = oldSegment[d][k]
              /\ \E e \in Datastores : oldSegment[d][k] = <<e, k>>
          BY ONLY <2>0, <3>1, <3>2, <3>5 DEF OldOf
        <4>2. oldSegment[d][k] # None
          BY ONLY <1>00, <4>1, k \in Kinds
        <4>3. \A key \in ShmKey : bound'[key] # oldSegment[d][k]
          <5>1. \A k1, k2 \in ShmKey : bound[k1] = bound[k2] /\ bound[k1] # None => k1 = k2
            BY DEF UpdateInv, BoundInv
          <5>. QED
            BY ONLY <3>1, <3>2, <3>5, <4>1, <4>2, <5>1
        <4>4. OldOf(d, k)
          BY <2>0
        <4>. QED
          BY ONLY <3>1, <3>2, <3>3, <3>4, <3>5, <4>3, <4>4
             DEF OldOf, SwapPC, CleanupPCs, Registered, Newest
      <3>6. CASE k # OldKind(d)
        <4>1. OldOf(d, k) /\ OldOf(d, OldKind(d))
          BY ONLY <2>0, <3>1, k \in Kinds
        <4>2. oldKey[d][k] # None => oldKey[d][k] # oldKey[d][OldKind(d)]
          BY ONLY <3>1, <3>2, <3>6, <4>1 DEF OldOf
        <4>3. oldKey[d][k] # None => bound'[oldKey[d][k]] = bound[oldKey[d][k]]
          <5>1. bound[oldKey[d][k]] # None \/ oldKey[d][k] = None
            BY ONLY <1>00, <3>2, <4>1, k \in Kinds DEF OldOf
          <5>2. oldKey[d][k] # None => oldKey[d][k] \in ShmKey
            BY ONLY <1>00, d \in Datastores, k \in Kinds
          <5>3. \A key \in ShmKey : key # oldKey[d][OldKind(d)] => bound'[key] = bound[key]
            BY ONLY <2>6 DEF RemoveStep
          <5>. QED
            BY ONLY <4>2, <5>2, <5>3
        <4>. QED
          BY ONLY <3>2, <3>3, <3>4, <3>6, <4>1, <4>3 DEF OldOf, SwapPC, CleanupPCs, Registered, Newest
      <3>. QED
        BY <3>5, <3>6
    <2>7. CASE DetachStep(d)
      <3>1. OldKind(d) \in Kinds /\ oldKey[d][OldKind(d)] # None
        BY <2>7, CleanupKey
      <3>2. /\ dpc[d] = "detach" /\ dpc'[d] = "remove"
            /\ keyInUse'[created] = keyInUse[created] \ {oldKey[d][OldKind(d)]}
            /\ oldKey'[d][OldKind(d)] = None
            /\ \A j \in Kinds : j # OldKind(d) => oldKey'[d][j] = oldKey[d][j]
            /\ UNCHANGED <<created, regions, bound>> /\ oldSegment'[d] = oldSegment[d]
        BY ONLY <2>7 DEF DetachStep
      <3>3. \A x \in Datastores : populated[x] => populated'[x]
        BY <1>2, ContentSettled
      <3>4. CASE k = OldKind(d)
        BY ONLY <3>2, <3>4 DEF OldOf, SwapPC, CleanupPCs
      <3>5. CASE k # OldKind(d)
        <4>1. OldOf(d, k) /\ OldOf(d, OldKind(d)) /\ oldKey'[d][k] = oldKey[d][k]
          BY ONLY <2>0, <3>1, <3>2, <3>5, k \in Kinds
        <4>2. oldKey[d][k] # None => oldKey[d][k] # oldKey[d][OldKind(d)]
          <5>1. bound[oldKey[d][OldKind(d)]] = None
            BY ONLY <3>2, <4>1 DEF OldOf
          <5>2. oldKey[d][k] # None => bound[oldKey[d][k]] # None
            BY ONLY <1>00, <3>5, <4>1, k \in Kinds DEF OldOf
          <5>. QED
            BY ONLY <5>1, <5>2
        <4>. QED
          BY ONLY <3>2, <3>3, <3>5, <4>1, <4>2 DEF OldOf, SwapPC, CleanupPCs, Registered, Newest
      <3>. QED
        BY <3>4, <3>5
    <2>. QED
      BY <1>2, <2>1, <2>3, <2>4, <2>5, <2>6, <2>7, StoreForms
  <1>3. ASSUME NEW d \in Datastores, StoreAction(d) PROVE OldKeyInv'
    BY <1>1, <1>2, <1>3 DEF OldKeyInv, OldOf
  <1>4. ASSUME UNCHANGED registerSide PROVE OldKeyInv'
    BY <1>4 DEF UpdateInv, OldKeyInv, registerSide, Registered, Newest, OldKind
  <1>. QED
    BY <1>3, <1>4, StepCases, WatchFrame

-----------------------------------------------------------------------------
(* The steps of a routed process once more, each reduced to what it does to its view. *)

KeepView(w) == wmon'[w] = wmon[w] /\ region'[w] = region[w] /\ facade'[w] = facade[w]

OpenStep(w) ==
    /\ wpc[w] = "off" /\ wpc'[w] = "ctorLock" /\ wmon'[w] = created
    /\ facade'[w] = facade[w] /\ query'[w] = query[w]

FindStep(w) ==
    /\ wpc[w] = "ctorFind" /\ wpc'[w] = "ctorAttach"
    /\ \A k \in Kinds : /\ Find(regions[wmon[w]], Watched(w, k))
                        /\ region'[w][k] = Current(w, k)
    /\ wmon'[w] = wmon[w] /\ facade'[w] = facade[w] /\ query'[w] = query[w]

CopyStep(w) ==
    /\ wpc[w] = "check" /\ wpc'[w] = "attach"
    /\ \A k \in Kinds : \/ region'[w][k] = Current(w, k)
                        \/ /\ region'[w][k] = region[w][k]
                           /\ region[w][k].timestamp = Current(w, k).timestamp
    /\ wmon'[w] = wmon[w] /\ facade'[w] = facade[w] /\ query'[w] = query[w]

AttachStep(w) ==
    /\ wpc[w] \in {"ctorAttach", "attach"} /\ wpc'[w] = "top"
    /\ facade'[w] = Target(w) /\ \A k \in Kinds : Target(w)[k] # None
    /\ wmon'[w] = wmon[w] /\ region'[w] = region[w] /\ query'[w] = query[w]

StepOn(w) ==
    /\ \/ wpc'[w] = wpc[w]
       \/ wpc[w] = "ctorLock" /\ wpc'[w] = "ctorFind"
       \/ /\ wpc[w] \in {"top", "check", "enqueue", "wait"}
          /\ wpc'[w] \in {"check", "enqueue", "wait", "stopped"}
    /\ KeepView(w) /\ query'[w] = query[w]

DieStep(w) ==
    /\ wpc'[w] = "dead" /\ wmon'[w] = wmon[w]
    /\ facade'[w] = NoFacade /\ \A q \in Queries : query'[w][q] = NoFacade

QueryStep(w, q) ==
    /\ \/ query'[w][q] = facade[w] /\ wpc[w] \in RunningPCs
       \/ query'[w][q] = NoFacade
    /\ \A other \in Queries : other # q => query'[w][other] = query[w][other]
    /\ wpc'[w] = wpc[w] /\ KeepView(w)

\* A routed process takes no other steps.
LEMMA WatchForms ==
    ASSUME UpdateInv, NEW w \in Watchers, WatchAction(w)
    PROVE  \/ OpenStep(w) \/ FindStep(w) \/ CopyStep(w) \/ AttachStep(w) \/ StepOn(w) \/ DieStep(w)
           \/ \E q \in Queries : QueryStep(w, q)
  <1>0. TypeOK
    BY DEF UpdateInv
  <1>. USE DEF KeepView
  <1>1. CASE OpenWatched(w)
    BY ONLY <1>0, <1>1, w \in Watchers DEF OpenWatched, OpenStep, TypeOK
  <1>2. CASE CtorFind(w)
    BY ONLY <1>0, <1>2, w \in Watchers DEF CtorFind, FindStep, TypeOK
  <1>3. CASE Copy(w)
    <2>1. region'[w] = [kind \in Kinds |->
                           IF Changed(w, kind) THEN Current(w, kind) ELSE region[w][kind]]
      BY ONLY <1>0, <1>3, w \in Watchers DEF Copy, TypeOK
    <2>2. \A k \in Kinds : \/ region'[w][k] = Current(w, k)
                           \/ /\ region'[w][k] = region[w][k]
                              /\ region[w][k].timestamp = Current(w, k).timestamp
      BY ONLY <2>1 DEF Changed
    <2>. QED
      BY ONLY <1>0, <1>3, <2>2, w \in Watchers DEF Copy, CopyStep, TypeOK
  <1>4. CASE AttachRegions(w)
    BY ONLY <1>0, <1>4, w \in Watchers DEF AttachRegions, AttachStep, TypeOK
  <1>5. CASE CtorLock(w) \/ NothingNew(w) \/ Wait(w) \/ Wake(w) \/ Break(w) \/ Deactivate(w)
             \/ NotifyWatcher(w)
    BY ONLY <1>0, <1>5, w \in Watchers
       DEF CtorLock, NothingNew, Wait, Wake, Break, Deactivate, NotifyWatcher, StepOn, TypeOK
  <1>6. CASE LoopTop(w)
    <2>1. /\ wpc[w] = "top" /\ UNCHANGED viewVars
          /\ wpc' = [wpc EXCEPT ![w] = "check"] \/ wpc' = [wpc EXCEPT ![w] = "stopped"]
      BY ONLY <1>6, Zenon DEF LoopTop
    <2>. QED
      BY ONLY <1>0, <2>1, w \in Watchers DEF StepOn, TypeOK, viewVars
  <1>7. CASE CtorThrows(w) \/ AttachThrows(w) \/ Join(w) \/ KillWatcher(w)
    <2>1. WatcherDies(w)
      BY ONLY <1>7 DEF CtorThrows, AttachThrows, Join, KillWatcher
    <2>. QED
      BY ONLY <1>0, <2>1, w \in Watchers DEF WatcherDies, DieStep, TypeOK
  <1>8. ASSUME NEW q \in Queries, Get(w, q) \/ EndQuery(w, q) PROVE QueryStep(w, q)
    BY ONLY <1>0, <1>8, w \in Watchers, q \in Queries
       DEF Get, EndQuery, QueryStep, Running, TypeOK
  <1>. QED
    BY <1>1, <1>2, <1>3, <1>4, <1>5, <1>6, <1>7, <1>8 DEF WatchAction, ThreadStep, CloseStep

\* What CopyInv says of a watcher and a kind.
CopyOf(w, k) ==
    wmon[w] = created /\ wpc[w] \in RunningPCs \cup {"ctorAttach"} =>
        /\ Registered(WatchedDataset[w], k)
        /\ region[w][k].timestamp <= Newest(WatchedDataset[w], k).timestamp
        /\ \/ region[w][k].timestamp = Newest(WatchedDataset[w], k).timestamp
           \/ wpc[w] \in {"ctorAttach", "attach"}
           => region[w][k] = Newest(WatchedDataset[w], k)

\* A watcher's copies are the register's contents or older, and current when it maps them.
LEMMA CopyNext == UpdateInv /\ [Next]_vars => CopyInv'
  <1>. SUFFICES ASSUME UpdateInv, [Next]_vars PROVE CopyInv'
    OBVIOUS
  <1>0. \A w \in Watchers, k \in Kinds : CopyOf(w, k)
    BY DEF UpdateInv, CopyInv, CopyOf
  <1>00. /\ regions \in [Monitors -> [Names -> SharedRegion]]
         /\ region \in [Watchers -> [Kinds -> SharedRegion]]
         /\ WatchedDataset \in [Watchers -> Datasets]
         /\ created \in Nat
    BY DataUpdateAssumption DEF UpdateInv, TypeOK
  <1>. USE DEF RunningPCs
  <1>1. ASSUME NEW d \in Datastores, StoreAction(d), NEW w \in Watchers, NEW k \in Kinds
        PROVE  CopyOf(w, k)'
    <2>0. UNCHANGED <<wpc, wmon, region>> /\ CopyOf(w, k)
      BY <1>0, <1>1, StoreFrame
    <2>1. CASE OtherStep(d)
      <3>1. created' = created /\ regions' = regions
        BY <2>1, RegisterKept
      <3>. QED
        BY ONLY <2>0, <3>1 DEF CopyOf, Registered, Newest
    <2>2. CASE MonitorStep(d)
      <3>1. wpc[w] # "off" => wmon[w] \in Monitors /\ wmon[w] <= created
        BY DEF UpdateInv, MonitorInv
      <3>2. created' = created + 1
        BY <2>2 DEF MonitorStep
      <3>3. wpc[w] # "off" => wmon[w] # created'
        BY ONLY <1>00, <3>1, <3>2, DataUpdateAssumption DEF Monitors
      <3>. QED
        BY ONLY <2>0, <3>3 DEF CopyOf
    <2>3. ASSUME NEW j \in Kinds, PublishStep(d, j) PROVE CopyOf(w, k)'
      <3>1. /\ UNCHANGED created /\ created \in Monitors
            /\ regions'[created][<<dataset[d], j>>].timestamp = Newest(dataset[d], j).timestamp + 1
            /\ Newest(dataset[d], j).timestamp \in Nat
            /\ \A x \in Datasets, i \in Kinds :
                 ~ (x = dataset[d] /\ i = j) => regions'[created][<<x, i>>] = Newest(x, i)
        BY ONLY UpdateInv, d \in Datastores, j \in Kinds, <2>3, PublishEffect
      <3>2. CASE ~ (WatchedDataset[w] = dataset[d] /\ k = j)
        <4>1. regions'[created][<<WatchedDataset[w], k>>] = regions[created][<<WatchedDataset[w], k>>]
          BY ONLY <1>00, <3>1, <3>2, w \in Watchers, k \in Kinds DEF Newest
        <4>. QED
          BY ONLY <2>0, <3>1, <4>1 DEF CopyOf, Registered, Newest
      <3>3. CASE WatchedDataset[w] = dataset[d] /\ k = j
        <4>1. mutex[created] = d /\ d # w
          <5>1. dpc[d] \in SwapPCs /\ dpc[d] \in LockedPCs \ {"open"}
            BY ONLY <2>3, j \in Kinds
               DEF PublishStep, SwapPC, SwapPCs, LockedPCs, StorePCs, FinalPCs, Kinds
          <5>. QED
            BY <5>1, ActiveStore, DataUpdateAssumption DEF UpdateInv, MutexInv
        <4>2. wmon[w] = created => wpc[w] \notin {"ctorAttach", "attach"}
          BY <4>1 DEF UpdateInv, MutexInv, WatchMutexPCs
        <4>3. region[w][k].timestamp \in Nat
          BY ONLY <1>00, w \in Watchers, k \in Kinds DEF SharedRegion
        <4>4. region[w][k].timestamp <= Newest(dataset[d], j).timestamp =>
                 /\ region[w][k].timestamp < regions'[created][<<dataset[d], j>>].timestamp
                 /\ regions'[created][<<dataset[d], j>>].timestamp # 0
          BY ONLY <3>1, <4>3
        <4>5. region[w][k].timestamp <= Newest(dataset[d], j).timestamp =>
                 /\ region[w][k].timestamp <= regions'[created][<<dataset[d], j>>].timestamp
                 /\ region[w][k].timestamp # regions'[created][<<dataset[d], j>>].timestamp
          BY ONLY <3>1, <4>3
        <4>. QED
          BY ONLY <2>0, <3>1, <3>3, <4>2, <4>4, <4>5 DEF CopyOf, Registered, Newest, IsEmpty
      <3>. QED
        BY <3>2, <3>3
    <2>. QED
      BY <1>1, <2>1, <2>2, <2>3, RegisterCases
  <1>2. ASSUME NEW w \in Watchers, WatchAction(w), NEW v \in Watchers, v # w, NEW k \in Kinds
        PROVE  CopyOf(v, k)'
    <2>1. wpc'[v] = wpc[v] /\ wmon'[v] = wmon[v] /\ region'[v] = region[v]
      BY <1>2, OtherWatchers
    <2>2. UNCHANGED <<created, regions>> /\ CopyOf(v, k)
      BY <1>0, <1>2, WatchFrame DEF registerSide
    <2>. QED
      BY ONLY <2>1, <2>2 DEF CopyOf, Registered, Newest
  <1>3. ASSUME NEW w \in Watchers, WatchAction(w), NEW k \in Kinds PROVE CopyOf(w, k)'
    <2>0. UNCHANGED <<created, regions>> /\ CopyOf(w, k)
      BY <1>0, <1>3, WatchFrame DEF registerSide
    <2>00. wpc[w] # "off" => wmon[w] \in Monitors
      BY DEF UpdateInv, MonitorInv
    <2>1. CASE OpenStep(w) \/ DieStep(w)
      BY ONLY <2>1 DEF OpenStep, DieStep, CopyOf
    <2>2. CASE StepOn(w) \/ \E q \in Queries : QueryStep(w, q)
      BY ONLY <2>0, <2>2 DEF StepOn, QueryStep, KeepView, CopyOf, Registered, Newest
    <2>3. CASE AttachStep(w)
      BY ONLY <2>0, <2>3 DEF AttachStep, CopyOf, Registered, Newest
    <2>4. ASSUME wmon[w] = created, created \in Monitors
          PROVE  /\ Current(w, k) = Newest(WatchedDataset[w], k)
                 /\ Newest(WatchedDataset[w], k).timestamp \in Nat
      BY ONLY <1>00, <2>4, w \in Watchers, k \in Kinds
         DEF Current, Newest, Watched, Names, SharedRegion
    <2>5. CASE FindStep(w)
      <3>1. /\ wpc[w] = "ctorFind" /\ wpc'[w] = "ctorAttach" /\ wmon'[w] = wmon[w]
            /\ ~ IsEmpty(Current(w, k)) /\ region'[w][k] = Current(w, k)
        BY ONLY <2>5, k \in Kinds DEF FindStep, Find, Current
      <3>. QED
        BY ONLY <2>0, <2>00, <2>4, <3>1 DEF CopyOf, Registered, Newest
    <2>6. CASE CopyStep(w)
      <3>1. /\ wpc[w] = "check" /\ wpc'[w] = "attach" /\ wmon'[w] = wmon[w]
            /\ \/ region'[w][k] = Current(w, k)
               \/ /\ region'[w][k] = region[w][k]
                  /\ region[w][k].timestamp = Current(w, k).timestamp
        BY ONLY <2>6, k \in Kinds DEF CopyStep
      <3>2. wmon[w] = created => region'[w][k] = Newest(WatchedDataset[w], k)
        BY ONLY <2>0, <2>00, <2>4, <3>1 DEF CopyOf
      <3>. QED
        BY ONLY <2>0, <2>00, <2>4, <3>1, <3>2 DEF CopyOf, Registered, Newest
    <2>. QED
      BY <1>3, <2>1, <2>2, <2>3, <2>5, <2>6, WatchForms
  <1>4. CASE UNCHANGED <<registerSide, mutex, waiting, watchVars>>
    BY ONLY <1>0, <1>4 DEF CopyInv, CopyOf, registerSide, watchVars, viewVars, Registered, Newest
  <1>5. ASSUME NEW d \in Datastores, StoreAction(d) PROVE CopyInv'
    BY <1>1, <1>5 DEF CopyInv, CopyOf
  <1>6. ASSUME NEW w \in Watchers, WatchAction(w) PROVE CopyInv'
    BY <1>2, <1>3, <1>6 DEF CopyInv, CopyOf
  <1>. QED
    BY <1>4, <1>5, <1>6, StepCases

\* No query runs before the constructor has returned.
LEMMA QueryNext == UpdateInv /\ [Next]_vars => QueryInv'
  <1>. SUFFICES ASSUME UpdateInv, [Next]_vars PROVE QueryInv'
    OBVIOUS
  <1>0. QueryInv
    BY DEF UpdateInv
  <1>1. ASSUME NEW w \in Watchers, WatchAction(w), NEW v \in Watchers, NEW q \in Queries,
               wpc'[v] = "off"
        PROVE  query'[v][q] = NoFacade
    <2>1. CASE v # w
      BY <1>0, <1>1, <2>1, OtherWatchers DEF QueryInv
    <2>2. CASE v = w
      <3>1. CASE OpenStep(w) \/ FindStep(w) \/ CopyStep(w) \/ AttachStep(w) \/ DieStep(w)
        BY ONLY <1>1, <2>2, <3>1 DEF OpenStep, FindStep, CopyStep, AttachStep, DieStep
      <3>2. CASE StepOn(w)
        BY ONLY <1>0, <1>1, <2>2, <3>2, v \in Watchers, q \in Queries DEF StepOn, QueryInv
      <3>3. CASE \E x \in Queries : QueryStep(w, x)
        BY ONLY <1>0, <1>1, <2>2, <3>3, v \in Watchers, q \in Queries
           DEF QueryStep, QueryInv, RunningPCs
      <3>. QED
        BY <1>1, <3>1, <3>2, <3>3, WatchForms
    <2>. QED
      BY <2>1, <2>2
  <1>2. ASSUME NEW w \in Watchers, WatchAction(w) PROVE QueryInv'
    BY <1>1, <1>2 DEF QueryInv
  <1>3. ASSUME UNCHANGED watchVars PROVE QueryInv'
    BY <1>0, <1>3 DEF QueryInv, watchVars, viewVars, NoFacade
  <1>. QED
    BY <1>2, <1>3, StepCases, StoreFrame

\* The regions a watcher is about to map exist, are complete and belong together: no
\* datastore can be between the two halves while the watcher holds the mutex.
LEMMA AttachCoherent == UpdateInv => AttachFindsRegions
  <1>. SUFFICES ASSUME UpdateInv, NEW w \in Watchers, wmon[w] = created,
                       wpc[w] \in {"ctorAttach", "attach"}
                PROVE  Coherent(Target(w), WatchedDataset[w])
    BY DEF AttachFindsRegions
  <1>. DEFINE ds == WatchedDataset[w]
  <1>1. ds \in Datasets
    BY DataUpdateAssumption
  <1>2. \A k \in Kinds : Registered(ds, k) /\ region[w][k] = Newest(ds, k)
    BY DEF UpdateInv, CopyInv, RunningPCs
  <1>3. \A k \in Kinds : Target(w)[k] = Leads(ds, k)
    BY <1>2 DEF Target, Leads
  <1>4. \A k \in Kinds : \E e \in Datastores :
           Leads(ds, k) = <<e, k>> /\ dataset[e] = ds /\ populated[e]
    BY <1>1, <1>2, RegisteredRegion
  <1>5. ~ HalfPublished(ds)
    <2>1. mutex[created] = w
      BY DEF UpdateInv, MutexInv, WatchMutexPCs
    <2>. QED
      BY <2>1, DataUpdateAssumption DEF HalfPublished
  <1>6. \A e \in Datastores : Leads(ds, "updatable") = <<e, "updatable">> => base[e] = Leads(ds, "static")
    BY <1>1, <1>2, <1>5 DEF UpdateInv, PairInv
  <1>. HIDE DEF ds
  <1>7. ASSUME NEW k \in Kinds
        PROVE  /\ Target(w)[k] \in Segments /\ Target(w)[k][2] = k
               /\ dataset[Target(w)[k][1]] = ds /\ populated[Target(w)[k][1]]
    <2>1. PICK e \in Datastores : Target(w)[k] = <<e, k>> /\ dataset[e] = ds /\ populated[e]
      BY <1>3, <1>4
    <2>2. Target(w)[k] \in Segments /\ Target(w)[k][1] = e /\ Target(w)[k][2] = k
      BY <2>1 DEF Segments
    <2>. QED
      BY <2>1, <2>2
  <1>8. base[Target(w)["updatable"][1]] = Target(w)["static"]
    <2>1. PICK e \in Datastores : Leads(ds, "updatable") = <<e, "updatable">>
      BY <1>4 DEF Kinds
    <2>2. Target(w)["updatable"] = <<e, "updatable">> /\ Target(w)["static"] = Leads(ds, "static")
      BY <1>3, <2>1 DEF Kinds
    <2>3. base[e] = Leads(ds, "static")
      BY <1>6, <2>1
    <2>. QED
      BY <2>2, <2>3
  <1>9. Coherent(Target(w), ds)
    BY <1>7, <1>8 DEF Coherent
  <1>. QED
    BY <1>9 DEF ds

\* Segments that belong together keep doing so.
LEMMA CoherentStays ==
    ASSUME UpdateInv, NEW d \in Datastores, StoreAction(d), NEW ds \in Datasets
    PROVE  \A f \in [Kinds -> Segments \cup {None}] : Coherent(f, ds) =>
             /\ \A k \in Kinds : /\ f[k] \in Segments /\ f[k][2] = k
                                 /\ dataset'[f[k][1]] = ds /\ populated'[f[k][1]]
             /\ base'[f["updatable"][1]] = f["static"]
  <1>1. \A e \in Datastores : populated[e] =>
           dataset'[e] = dataset[e] /\ base'[e] = base[e] /\ populated'[e]
    BY ContentSettled
  <1>2. \A s \in Segments : s[1] \in Datastores
    BY DEF Segments
  <1>. QED
    BY ONLY <1>1, <1>2 DEF Coherent, Kinds

\* The facades of a routed process and of its queries stay coherent.
LEMMA FacadeNext == UpdateInv /\ [Next]_vars => FacadeCoherent'
  <1>. SUFFICES ASSUME UpdateInv, [Next]_vars PROVE FacadeCoherent'
    OBVIOUS
  <1>0. /\ FacadeCoherent
        /\ facade \in [Watchers -> [Kinds -> Segments \cup {None}]]
        /\ query \in [Watchers -> [Queries -> [Kinds -> Segments \cup {None}]]]
        /\ created \in Nat
        /\ WatchedDataset \in [Watchers -> Datasets]
    BY DataUpdateAssumption DEF UpdateInv, TypeOK
  <1>1. ASSUME NEW d \in Datastores, StoreAction(d) PROVE FacadeCoherent'
    <2>0. UNCHANGED <<wpc, wmon, facade, query>>
      BY <1>1, StoreFrame
    <2>1. CASE created' = created
      <3>1. ASSUME NEW w \in Watchers, NEW f \in [Kinds -> Segments \cup {None}],
                   Coherent(f, WatchedDataset[w])
            PROVE  /\ \A k \in Kinds : /\ f[k] \in Segments /\ f[k][2] = k
                                       /\ dataset'[f[k][1]] = WatchedDataset[w]
                                       /\ populated'[f[k][1]]
                   /\ base'[f["updatable"][1]] = f["static"]
        BY <1>0, <1>1, <3>1, CoherentStays
      <3>2. ASSUME NEW w \in Watchers, wmon'[w] = created', Running(w)'
            PROVE  Coherent(facade[w], WatchedDataset[w])'
        <4>1. Coherent(facade[w], WatchedDataset[w])
          BY ONLY <1>0, <2>0, <2>1, <3>2, w \in Watchers DEF FacadeCoherent, Running
        <4>2. facade[w] \in [Kinds -> Segments \cup {None}]
          BY <1>0
        <4>. QED
          BY <2>0, <3>1, <4>1, <4>2 DEF Coherent
      <3>3. ASSUME NEW w \in Watchers, wmon'[w] = created', NEW q \in Queries,
                   query'[w][q] # NoFacade
            PROVE  Coherent(query[w][q], WatchedDataset[w])'
        <4>1. Coherent(query[w][q], WatchedDataset[w])
          BY ONLY <1>0, <2>0, <2>1, <3>3, w \in Watchers, q \in Queries DEF FacadeCoherent
        <4>2. query[w][q] \in [Kinds -> Segments \cup {None}]
          BY <1>0
        <4>. QED
          BY <2>0, <3>1, <4>1, <4>2 DEF Coherent
      <3>. QED
        BY <3>2, <3>3 DEF FacadeCoherent, NoFacade
    <2>2. CASE created' # created
      <3>1. created' = created + 1 /\ created' \in Monitors
        BY <1>1, <2>2, RegisterCases, RegisterKept, PublishEffect DEF MonitorStep
      <3>2. \A w \in Watchers : wmon[w] # created'
        <4>1. \A w \in Watchers : \/ wmon[w] \in Monitors /\ wmon[w] <= created
                                  \/ wmon[w] = None
          BY DEF UpdateInv, MonitorInv
        <4>. QED
          BY <1>0, <3>1, <4>1, DataUpdateAssumption DEF Monitors
      <3>. QED
        BY <2>0, <3>2 DEF FacadeCoherent
    <2>. QED
      BY <2>1, <2>2
  <1>2. ASSUME NEW w \in Watchers, WatchAction(w) PROVE FacadeCoherent'
    <2>0. UNCHANGED <<created, dataset, populated, base>>
      BY <1>2, WatchFrame DEF registerSide
    <2>2. ASSUME NEW v \in Watchers, v # w, wmon'[v] = created'
          PROVE  /\ Running(v)' => Coherent(facade[v], WatchedDataset[v])'
                 /\ \A q \in Queries :
                      query'[v][q] # NoFacade => Coherent(query[v][q], WatchedDataset[v])'
      <3>1. wpc'[v] = wpc[v] /\ wmon'[v] = wmon[v] /\ facade'[v] = facade[v] /\ query'[v] = query[v]
        BY <1>2, <2>2, OtherWatchers
      <3>2. /\ Running(v)' => Coherent(facade[v], WatchedDataset[v])
            /\ \A q \in Queries : query'[v][q] # NoFacade => Coherent(query[v][q], WatchedDataset[v])
        BY ONLY <1>0, <2>0, <2>2, <3>1, v \in Watchers DEF FacadeCoherent, Running
      <3>. QED
        BY ONLY <2>0, <3>1, <3>2 DEF Coherent
    <2>3. ASSUME wmon'[w] = created'
          PROVE  /\ Running(w)' => Coherent(facade[w], WatchedDataset[w])'
                 /\ \A q \in Queries :
                      query'[w][q] # NoFacade => Coherent(query[w][q], WatchedDataset[w])'
      <3>1. CASE OpenStep(w)
        <4>1. \A q \in Queries : query[w][q] = NoFacade
          BY <3>1 DEF UpdateInv, QueryInv, OpenStep
        <4>. QED
          BY ONLY <3>1, <4>1 DEF OpenStep, Running, RunningPCs
      <3>2. CASE DieStep(w)
        BY ONLY <3>2 DEF DieStep, Running, RunningPCs
      <3>3. CASE FindStep(w) \/ CopyStep(w) \/ StepOn(w)
        <4>1. /\ wmon'[w] = wmon[w] /\ facade'[w] = facade[w] /\ query'[w] = query[w]
              /\ wpc'[w] \in RunningPCs => wpc[w] \in RunningPCs
          BY ONLY <3>3 DEF FindStep, CopyStep, StepOn, KeepView, RunningPCs
        <4>2. /\ Running(w)' => Coherent(facade[w], WatchedDataset[w])
              /\ \A q \in Queries : query'[w][q] # NoFacade => Coherent(query[w][q], WatchedDataset[w])
          BY ONLY <1>0, <2>0, <2>3, <4>1, w \in Watchers DEF FacadeCoherent, Running
        <4>. QED
          BY ONLY <2>0, <4>1, <4>2 DEF Coherent
      <3>4. CASE AttachStep(w)
        <4>1. Coherent(Target(w), WatchedDataset[w])
          BY <2>0, <2>3, <3>4, AttachCoherent DEF AttachFindsRegions, AttachStep
        <4>2. facade'[w] = Target(w) /\ query'[w] = query[w] /\ wmon'[w] = wmon[w]
          BY ONLY <3>4 DEF AttachStep
        <4>3. \A q \in Queries : query'[w][q] # NoFacade => Coherent(query[w][q], WatchedDataset[w])
          BY ONLY <1>0, <2>0, <2>3, <4>2, w \in Watchers DEF FacadeCoherent
        <4>. QED
          BY ONLY <2>0, <4>1, <4>2, <4>3 DEF Coherent
      <3>5. ASSUME NEW x \in Queries, QueryStep(w, x)
            PROVE  /\ Running(w)' => Coherent(facade[w], WatchedDataset[w])'
                   /\ \A q \in Queries :
                        query'[w][q] # NoFacade => Coherent(query[w][q], WatchedDataset[w])'
        <4>1. /\ wmon'[w] = wmon[w] /\ facade'[w] = facade[w] /\ wpc'[w] = wpc[w]
              /\ \A q \in Queries : \/ query'[w][q] = query[w][q]
                                    \/ query'[w][q] = facade[w] /\ wpc[w] \in RunningPCs
                                    \/ query'[w][q] = NoFacade
          BY ONLY <3>5 DEF QueryStep, KeepView
        <4>2. /\ wpc[w] \in RunningPCs => Coherent(facade[w], WatchedDataset[w])
              /\ \A q \in Queries : query[w][q] # NoFacade => Coherent(query[w][q], WatchedDataset[w])
          BY ONLY <1>0, <2>0, <2>3, <4>1, w \in Watchers DEF FacadeCoherent, Running
        <4>3. \A q \in Queries : query'[w][q] # NoFacade => Coherent(query'[w][q], WatchedDataset[w])
          BY ONLY <4>1, <4>2
        <4>. QED
          BY ONLY <2>0, <4>1, <4>2, <4>3 DEF Coherent, Running
      <3>. QED
        BY <1>2, <3>1, <3>2, <3>3, <3>4, <3>5, WatchForms
    <2>. QED
      BY <2>2, <2>3 DEF FacadeCoherent, NoFacade
  <1>3. CASE UNCHANGED <<registerSide, mutex, waiting, watchVars>>
    BY ONLY <1>0, <1>3 DEF FacadeCoherent, registerSide, watchVars, viewVars, Coherent, Running, NoFacade
  <1>. QED
    BY <1>1, <1>2, <1>3, StepCases

-----------------------------------------------------------------------------

\* A datastore that does not hold the file lock maps nothing new.
LEMMA AttachedShrinks ==
    ASSUME UpdateInv, NEW d \in Datastores, StoreAction(d), dpc[d] \notin LockedPCs
    PROVE  attached'[d] \subseteq attached[d]
  <1>0. attached \in [Datastores -> SUBSET Segments]
    BY DEF UpdateInv, TypeOK
  <1>. USE DEF LockedPCs, StorePCs, FinalPCs
  <1>1. CASE Start(d) \/ AcquireFileLock(d)
    BY ONLY <1>1 DEF Start, AcquireFileLock
  <1>2. CASE KillDatastore(d) \/ TerminateDatastore(d)
    BY ONLY <1>0, <1>2, d \in Datastores DEF KillDatastore, TerminateDatastore, Exit
  <1>. QED
    BY <1>1, <1>2
       DEF StoreAction, StoreStep, OpenMonitor, ReuseStatic, ReuseStaticThrows, SetupStatic,
           SetupUpdatable, ReserveKeyThrows, Populate, LockMonitor, RegisterRegion, ReplaceRegion,
           RegisterThrows, UnlockMonitor, NotifyAll, RemoveOld, WaitForDetach, Finish, InputError,
           InputAborts, Abort, ReadsFiles,
           LockTimeout, SwapPC

\* What AllClientsSwitched says of a datastore and a kind.
Switched(d, k) ==
    /\ dpc[d] \in {"remove", "detach"}
    /\ oldSegment[d][k] # None
    /\ oldKey[d][k] = None
    => /\ ~ MappedByOthers(d, oldSegment[d][k])
       /\ \A key \in ShmKey : bound[key] # oldSegment[d][k]

\* A released segment stays unmapped: nobody maps what no key names.
LEMMA SwitchedNext == UpdateInv /\ [Next]_vars => AllClientsSwitched'
  <1>. SUFFICES ASSUME UpdateInv, [Next]_vars PROVE AllClientsSwitched'
    OBVIOUS
  <1>0. \A d \in Datastores, k \in Kinds : Switched(d, k)
    BY DEF UpdateInv, AllClientsSwitched, Switched
  <1>1. ASSUME NEW d \in Datastores, StoreAction(d), NEW k \in Kinds PROVE Switched(d, k)'
    <2>0. Switched(d, k) /\ OldOf(d, k)
      BY <1>0 DEF UpdateInv, OldKeyInv, OldOf
    <2>1. ASSUME NEW s PROVE MappedByOthers(d, s)' => MappedByOthers(d, s)
      <3>1. facade' = facade /\ query' = query
        BY <1>1, StoreFrame
      <3>2. \A e \in Datastores \ {d} : attached'[e] = attached[e]
        BY <1>1, OtherStores
      <3>. QED
        BY ONLY <3>1, <3>2 DEF MappedByOthers
    <2>2. CASE MoveStep(d)
      BY ONLY <2>0, <2>2 DEF MoveStep, KeepHandles, Switched, OldOf
    <2>3. CASE RemoveStep(d)
      <3>1. /\ dpc[d] = "remove"
            /\ oldKey'[d] = oldKey[d] /\ oldSegment'[d] = oldSegment[d]
            /\ \A key \in ShmKey : bound'[key] = bound[key] \/ bound'[key] = None
        BY ONLY <2>3 DEF RemoveStep, KeepHandles
      <3>. QED
        BY ONLY <2>0, <2>1, <3>1 DEF Switched
    <2>4. CASE DetachStep(d)
      <3>1. /\ dpc[d] = "detach" /\ oldSegment'[d] = oldSegment[d] /\ bound' = bound
            /\ k # OldKind(d) => oldKey'[d][k] = oldKey[d][k]
            /\ ~ MappedByOthers(d, oldSegment[d][OldKind(d)])
        BY ONLY <2>4, k \in Kinds DEF DetachStep
      <3>2. CASE k = OldKind(d)
        BY ONLY <2>0, <2>1, <3>1, <3>2 DEF Switched, OldOf
      <3>3. CASE k # OldKind(d)
        BY ONLY <2>0, <2>1, <3>1, <3>3 DEF Switched
      <3>. QED
        BY <3>2, <3>3
    <2>5. ASSUME dpc'[d] \notin {"remove", "detach"} PROVE Switched(d, k)'
      BY ONLY <2>5 DEF Switched
    <2>6. CASE StartStep(d) \/ ExitStep(d) \/ TimeoutStep(d) \/ PopulateStep(d)
               \/ ReuseStep(d) \/ MonitorStep(d)
               \/ (\E j \in Kinds, key \in ShmKey : SetupStep(d, j, key))
               \/ (\E j \in Kinds : PublishStep(d, j))
      <3>1. dpc'[d] \notin {"remove", "detach"}
        BY ONLY <2>6 DEF StartStep, ExitStep, TimeoutStep, PopulateStep, ReuseStep, MonitorStep,
                         SetupStep, PublishStep, AfterSwapPC, FinalPCs
      <3>. QED
        BY <2>5, <3>1
    <2>. QED
      BY <1>1, <2>2, <2>3, <2>4, <2>6, StoreForms
  <1>2. ASSUME NEW d \in Datastores, StoreAction(d), NEW e \in Datastores, e # d, NEW k \in Kinds
        PROVE  Switched(e, k)'
    <2>. SUFFICES ASSUME dpc'[e] \in {"remove", "detach"}, oldSegment'[e][k] # None,
                         oldKey'[e][k] = None
                  PROVE  /\ ~ MappedByOthers(e, oldSegment[e][k])'
                         /\ \A key \in ShmKey : bound'[key] # oldSegment'[e][k]
      BY DEF Switched
    <2>1. \A x \in Datastores : x # d =>
            /\ dpc'[x] = dpc[x] /\ oldKey'[x] = oldKey[x] /\ oldSegment'[x] = oldSegment[x]
            /\ attached'[x] = attached[x]
      BY <1>2, OtherStores
    <2>2. /\ dpc[e] \in {"remove", "detach"} /\ oldSegment'[e] = oldSegment[e]
          /\ ~ MappedByOthers(e, oldSegment[e][k])
          /\ \A key \in ShmKey : bound[key] # oldSegment[e][k]
      BY <1>0, <1>2, <2>1 DEF Switched
    <2>3. dpc[e] \in LockedPCs
      BY ONLY <2>2 DEF LockedPCs, StorePCs, FinalPCs
    <2>4. KeepRegister /\ dpc[d] \notin LockedPCs
      BY <1>2, <2>3, OthersWait
    <2>5. attached'[d] \subseteq attached[d]
      BY <1>2, <2>4, AttachedShrinks
    <2>6. facade' = facade /\ query' = query
      BY <1>2, StoreFrame
    <2>7. ~ MappedByOthers(e, oldSegment[e][k])'
      BY ONLY <2>1, <2>2, <2>5, <2>6, d \in Datastores DEF MappedByOthers
    <2>. QED
      BY ONLY <2>2, <2>4, <2>7 DEF KeepRegister
  <1>3. ASSUME NEW w \in Watchers, WatchAction(w), NEW d \in Datastores, NEW k \in Kinds
        PROVE  Switched(d, k)'
    <2>. SUFFICES ASSUME dpc'[d] \in {"remove", "detach"}, oldSegment'[d][k] # None,
                         oldKey'[d][k] = None
                  PROVE  /\ ~ MappedByOthers(d, oldSegment[d][k])'
                         /\ \A key \in ShmKey : bound'[key] # oldSegment'[d][k]
      BY DEF Switched
    <2>. DEFINE s == oldSegment[d][k]
    <2>1. UNCHANGED <<dpc, oldKey, oldSegment, attached, bound>>
      BY <1>3, WatchFrame DEF registerSide
    <2>2. /\ s # None /\ ~ MappedByOthers(d, s)
          /\ \A key \in ShmKey : bound[key] # s
      BY <1>0, <2>1 DEF Switched
    <2>3. ASSUME NEW v \in Watchers, NEW j \in Kinds
          PROVE  facade'[v][j] # s /\ \A q \in Queries : query'[v][q][j] # s
      <3>0. facade[v][j] # s /\ \A q \in Queries : query[v][q][j] # s
        BY ONLY <2>2, v \in Watchers, j \in Kinds DEF MappedByOthers
      <3>1. NoFacade[j] # s
        BY <2>2 DEF NoFacade
      <3>2. Target(w)[j] # s
        <4>1. region[w][j].shm_key \in ShmKey
          BY DEF UpdateInv, TypeOK, SharedRegion
        <4>. QED
          BY <2>2, <4>1 DEF Target
      <3>3. CASE v # w
        BY <1>3, <3>0, <3>3, OtherWatchers
      <3>4. CASE v = w
        <4>1. CASE OpenStep(w) \/ FindStep(w) \/ CopyStep(w) \/ AttachStep(w) \/ StepOn(w)
                   \/ DieStep(w)
          BY ONLY <3>0, <3>1, <3>2, <3>4, <4>1
             DEF OpenStep, FindStep, CopyStep, AttachStep, StepOn, DieStep, KeepView
        <4>2. CASE \E q \in Queries : QueryStep(w, q)
          BY ONLY <3>0, <3>1, <3>4, <4>2 DEF QueryStep, KeepView
        <4>. QED
          BY <1>3, <4>1, <4>2, WatchForms
      <3>. QED
        BY <3>3, <3>4
    <2>4. ~ MappedByOthers(d, oldSegment[d][k])'
      BY ONLY <2>1, <2>2, <2>3 DEF MappedByOthers
    <2>. QED
      BY <2>1, <2>2, <2>4
  <1>4. CASE UNCHANGED <<registerSide, mutex, waiting, watchVars>>
    BY <1>4 DEF UpdateInv, AllClientsSwitched, registerSide, watchVars, viewVars, MappedByOthers
  <1>5. ASSUME \A d \in Datastores, k \in Kinds : Switched(d, k)' PROVE AllClientsSwitched'
    BY ONLY <1>5 DEF Switched, AllClientsSwitched
  <1>6. ASSUME NEW d \in Datastores, StoreAction(d) PROVE AllClientsSwitched'
    BY <1>1, <1>2, <1>5, <1>6
  <1>7. ASSUME NEW w \in Watchers, WatchAction(w) PROVE AllClientsSwitched'
    BY <1>3, <1>5, <1>7
  <1>. QED
    BY <1>4, <1>6, <1>7, StepCases

-----------------------------------------------------------------------------

\* A key that is released, or that no run has reserved yet, names no segment.
LEMMA SettledNext == UpdateInv /\ [Next]_vars => SettledKeys'
  <1>. SUFFICES ASSUME UpdateInv, [Next]_vars PROVE SettledKeys'
    OBVIOUS
  <1>0. /\ created = 0 => \A key \in ShmKey : bound[key] = None
        /\ created = 1 => \A key \in ShmKey : key \notin keyInUse[1] => bound[key] = None
        /\ created \in Nat
    BY DataUpdateAssumption DEF UpdateInv, TypeOK, SettledKeys, FreeKeysUnbound, FreeKeys
  <1>1. ASSUME /\ created' = 0 => \A key \in ShmKey : bound'[key] = None
               /\ created' = 1 => \A key \in ShmKey : key \notin keyInUse'[1] => bound'[key] = None
        PROVE  SettledKeys'
    BY ONLY <1>1 DEF SettledKeys, FreeKeysUnbound, FreeKeys
  <1>2. ASSUME NEW d \in Datastores, StoreAction(d) PROVE SettledKeys'
    <2>1. CASE StartStep(d) \/ ExitStep(d) \/ TimeoutStep(d) \/ MoveStep(d) \/ PopulateStep(d)
               \/ ReuseStep(d) \/ (\E k \in Kinds : PublishStep(d, k)) \/ RemoveStep(d)
      <3>1. /\ created' = created /\ keyInUse' = keyInUse
            /\ \A key \in ShmKey : bound'[key] = bound[key] \/ bound'[key] = None
        BY ONLY <2>1 DEF StartStep, ExitStep, TimeoutStep, MoveStep, PopulateStep, ReuseStep,
                         PublishStep, RemoveStep, KeepRegister
      <3>. QED
        BY ONLY <1>0, <1>1, <3>1
    <2>2. CASE MonitorStep(d)
      BY ONLY <1>0, <1>1, <2>2 DEF MonitorStep
    <2>3. ASSUME NEW k \in Kinds, NEW key \in ShmKey, SetupStep(d, k, key) PROVE SettledKeys'
      <3>1. created # 0
        <4>1. dpc[d] \in LockedPCs \ {"open"}
          BY ONLY <2>3 DEF SetupStep, LockedPCs, StorePCs, FinalPCs
        <4>2. created \in Monitors
          BY <4>1, ActiveStore
        <4>. QED
          BY <4>2, DataUpdateAssumption DEF Monitors
      <3>2. /\ created' = created /\ keyInUse'[created] = keyInUse[created] \cup {key}
            /\ \A other \in ShmKey : other # key => bound'[other] = bound[other]
        BY ONLY <2>3 DEF SetupStep
      <3>. QED
        BY ONLY <1>0, <1>1, <3>1, <3>2
    <2>4. CASE DetachStep(d)
      <3>1. /\ created' = created /\ bound' = bound
            /\ keyInUse'[created] = keyInUse[created] \ {oldKey[d][OldKind(d)]}
        BY ONLY <2>4 DEF DetachStep
      <3>2. bound[oldKey[d][OldKind(d)]] = None
        <4>1. OldKind(d) \in Kinds /\ dpc[d] = "detach"
          BY ONLY <2>4 DEF DetachStep, OldKind, Kinds
        <4>. QED
          BY <4>1 DEF UpdateInv, OldKeyInv
      <3>. QED
        BY ONLY <1>0, <1>1, <3>1, <3>2
    <2>. QED
      BY <1>2, <2>1, <2>2, <2>3, <2>4, StoreForms
  <1>3. ASSUME UNCHANGED registerSide PROVE SettledKeys'
    BY <1>0, <1>1, <1>3 DEF registerSide
  <1>. QED
    BY <1>2, <1>3, StepCases, WatchFrame

-----------------------------------------------------------------------------

\* Before the first monitor nothing is registered, mapped or reserved.
LEMMA InitInv == Init => UpdateInv
  <1>. SUFFICES ASSUME Init PROVE UpdateInv
    OBVIOUS
  <1>1. TypeOK
    <2>1. 0 \in ShmKey /\ EmptyRegion \in SharedRegion
      BY MaxSharedRegionsAssumption DEF ShmKey, MAX_SHM_KEYS, EmptyRegion, SharedRegion
    <2>2. created \in 0 .. MaxMonitors /\ kills \in Nat
      BY DataUpdateAssumption DEF Init
    <2>3. /\ dpc \in [Datastores -> StorePCs]
          /\ wpc \in [Watchers -> WatchPCs]
          /\ closing \in [Watchers -> {"no", "notify", "join"}]
      BY DEF Init, StorePCs, WatchPCs
    <2>4. /\ newKey \in [Datastores -> [Kinds -> ShmKey \cup {None}]]
          /\ oldKey \in [Datastores -> [Kinds -> ShmKey \cup {None}]]
          /\ oldSegment \in [Datastores -> [Kinds -> Segments \cup {None}]]
          /\ facade \in [Watchers -> [Kinds -> Segments \cup {None}]]
          /\ query \in [Watchers -> [Queries -> [Kinds -> Segments \cup {None}]]]
      BY DEF Init, NoKeys, NoFacade
    <2>5. /\ regions \in [Monitors -> [Names -> SharedRegion]]
          /\ region \in [Watchers -> [Kinds -> SharedRegion]]
      BY <2>1 DEF Init
    <2>6. /\ linked \in BOOLEAN /\ active \in [Watchers -> BOOLEAN]
          /\ onlyMetric \in [Datastores -> BOOLEAN] /\ timed \in [Datastores -> BOOLEAN]
          /\ populated \in [Datastores -> BOOLEAN]
      BY DEF Init
    <2>. QED
      BY <2>2, <2>3, <2>4, <2>5, <2>6 DEF Init, TypeOK
  <1>2. /\ created = 0 /\ created \notin Monitors
        /\ \A d \in Datastores : /\ dpc[d] = "idle" /\ ~ populated[d]
                                 /\ \A k \in Kinds : /\ newKey[d][k] = None
                                                     /\ oldKey[d][k] = None
                                                     /\ oldSegment[d][k] = None
        /\ \A w \in Watchers : /\ wpc[w] = "off" /\ wmon[w] = None
                               /\ \A q \in Queries : query[w][q] = NoFacade
        /\ \A key \in ShmKey : bound[key] = None
    BY DataUpdateAssumption DEF Init, NoKeys, NoFacade, Monitors
  <1>3. StoreLockInv /\ MutexInv
    BY <1>2 DEF StoreLockInv, MutexInv, LockedPCs, SwapPCs, WatchMutexPCs
  <1>4. MonitorInv
    BY <1>2 DEF Init, MonitorInv, IsEmpty, EmptyRegion
  <1>5. ContentInv
    BY <1>2 DEF ContentInv, AfterPopulate
  <1>6. BoundInv
    <2>1. \A d \in Datastores, k \in Kinds : <<d, k>> # None
      BY DataUpdateAssumption DEF Segments
    <2>. QED
      BY ONLY <1>2, <2>1 DEF BoundInv
  <1>7. RegisterInv /\ PairInv
    BY <1>2 DEF RegisterInv, PairInv, Registered, Kinds
  <1>8. NewKeyInv /\ NoKeyInv /\ BaseInv
    BY <1>2 DEF NewKeyInv, NoKeyInv, BaseInv, BeforeSwap
  <1>9. OldKeyInv
    BY <1>2 DEF OldKeyInv, SwapPC
  <1>10. CopyInv /\ QueryInv
    BY <1>2 DEF CopyInv, QueryInv, RunningPCs
  <1>11. SettledKeys
    BY <1>2 DEF SettledKeys, FreeKeysUnbound
  <1>12. FacadeCoherent
    BY <1>2 DEF FacadeCoherent, Running, RunningPCs
  <1>13. AllClientsSwitched
    BY <1>2 DEF AllClientsSwitched
  <1>. QED
    BY <1>1, <1>3, <1>4, <1>5, <1>6, <1>7, <1>8, <1>9, <1>10, <1>11, <1>12, <1>13
       DEF UpdateInv

\* Every step preserves the whole of UpdateInv.
LEMMA InvNext == UpdateInv /\ [Next]_vars => UpdateInv'
  <1>. SUFFICES ASSUME UpdateInv, [Next]_vars PROVE UpdateInv'
    OBVIOUS
  <1>1. TypeOK' /\ StoreLockInv' /\ MonitorInv' /\ MutexInv'
    BY TypeNext, StoreLockNext, MonitorNext, MutexNext
  <1>2. ContentInv' /\ BoundInv' /\ RegisterInv' /\ NewKeyInv' /\ NoKeyInv'
    BY ContentNext, BoundNext, RegisterNext, NewKeyNext, NoKeyNext
  <1>3. BaseInv' /\ PairInv' /\ OldKeyInv' /\ CopyInv' /\ QueryInv'
    BY BaseNext, PairNext, OldKeyNext, CopyNext, QueryNext
  <1>4. SettledKeys' /\ FacadeCoherent' /\ AllClientsSwitched'
    BY SettledNext, FacadeNext, SwitchedNext
  <1>. QED
    BY <1>1, <1>2, <1>3, <1>4 DEF UpdateInv

\* In every state that any number of datastores and routed processes can reach, through
\* every interleaving of their steps and every failure of one of them, who holds which
\* lock, which keys lead where, what each datastore owns and what each watcher has copied
\* fit together as UpdateInv says.  UpdateInv is inductive.
THEOREM UpdateInvariant == Spec => []UpdateInv
  <1>1. Init => UpdateInv
    BY InitInv
  <1>2. UpdateInv /\ [Next]_vars => UpdateInv'
    BY InvNext
  <1>. QED
    BY <1>1, <1>2, PTL DEF Spec

\* Every key that Storage or DataWatchdog handles is below MAX_SHM_KEYS and every segment
\* was created by a datastore: neither uses an index or a handle it has not been given.
THEOREM UpdateTypes == Spec => []TypeOK
  <1>1. UpdateInv => TypeOK
    BY DEF UpdateInv
  <1>. QED
    BY <1>1, UpdateInvariant, PTL

\* The facade of a routed process, and the one each of its queries still holds, consist of
\* completely loaded regions that belong together (DataWatchdog::Run, Storage::swapData).
THEOREM FacadesAreCoherent == Spec => []FacadeCoherent
  <1>1. UpdateInv => FacadeCoherent
    BY DEF UpdateInv
  <1>. QED
    BY <1>1, UpdateInvariant, PTL

\* Between copying the keys and mapping them the watchdog cannot lose a segment: the
\* allocator never throws in its thread (DataWatchdog::Run, makeSharedMemory).
THEOREM WatchdogFindsRegions == Spec => []AttachFindsRegions
  <1>1. UpdateInv => AttachFindsRegions
    BY AttachCoherent
  <1>. QED
    BY <1>1, UpdateInvariant, PTL

\* While the first monitor is in use no free key names a segment, so that the removal of an
\* old segment in Storage::setupRegion is needed after the loss of a monitor only.
THEOREM FreeKeysNameNothing == Spec => []FreeKeysUnbound
  <1>1. UpdateInv => FreeKeysUnbound
    BY DEF UpdateInv, SettledKeys
  <1>. QED
    BY <1>1, UpdateInvariant, PTL

\* When Storage::swapData has released a key, no process maps the old segment and none can
\* map it again.
THEOREM ClientsHaveSwitched == Spec => []AllClientsSwitched
  <1>1. UpdateInv => AllClientsSwitched
    BY DEF UpdateInv
  <1>. QED
    BY <1>1, UpdateInvariant, PTL

-----------------------------------------------------------------------------
(***************************************************************************)
(* Keys, regions and segments: ResourceInv is inductive together with      *)
(* UpdateInv.  Each lemma shows that the steps preserve one part of it.    *)
(***************************************************************************)
\* What a step of a datastore does to the segments it maps.
MapStep(d) ==
    \/ attached'[d] = {} /\ dpc'[d] \in FinalPCs
    \/ attached'[d] = attached[d] /\ dpc'[d] \notin FinalPCs
    \/ \E k \in Kinds, key \in ShmKey : /\ SetupStep(d, k, key)
                                        /\ attached'[d] = attached[d] \cup {<<d, k>>}
    \/ ReuseStep(d) /\ attached'[d] = attached[d] \cup {Leads(dataset[d], "static")}
    \/ \E k \in Kinds : /\ PublishStep(d, k) /\ Registered(dataset[d], k)
                        /\ attached'[d] = attached[d] \cup {Leads(dataset[d], k)}

\* A datastore maps what it creates, reuses or replaces, and nothing once it ends.
LEMMA MapForms ==
    ASSUME UpdateInv, NEW d \in Datastores, StoreAction(d)
    PROVE  MapStep(d)
  <1>0. TypeOK
    BY DEF UpdateInv
  <1>00. dpc[d] \in LockedPCs \ {"open"} =>
           dmon[d] = created /\ created \in Monitors /\ dataset[d] \in Datasets
    BY ActiveStore
  <1>1. CASE Start(d) \/ AcquireFileLock(d) \/ OpenMonitor(d) \/ Populate(d) \/ LockMonitor(d)
             \/ UnlockMonitor(d) \/ NotifyAll(d) \/ RemoveOld(d) \/ WaitForDetach(d)
             \/ \E k \in Kinds : RegisterRegion(d, k)
    BY ONLY <1>0, <1>1, d \in Datastores
       DEF MapStep, TypeOK, Start, AcquireFileLock, OpenMonitor, Populate, LockMonitor, UnlockMonitor,
           NotifyAll, RemoveOld, WaitForDetach, RegisterRegion, FinalPCs, AfterSwapPC, handleVars
  <1>2. CASE ReuseStaticThrows(d) \/ ReserveKeyThrows(d) \/ InputError(d) \/ InputAborts(d)
             \/ LockTimeout(d)
             \/ Finish(d) \/ KillDatastore(d) \/ TerminateDatastore(d)
             \/ \E k \in Kinds : RegisterThrows(d, k)
    BY ONLY <1>0, <1>2, d \in Datastores
       DEF MapStep, TypeOK, ReuseStaticThrows, ReserveKeyThrows, InputError, InputAborts, Abort,
           ReadsFiles, LockTimeout, Finish,
           KillDatastore, TerminateDatastore, RegisterThrows, Exit, FinalPCs
  <1>3. CASE ReuseStatic(d)
    <2>1. ReuseStep(d)
      <3>1. dpc'[d] = "updatable" /\ dpc[d] = "static" /\ onlyMetric[d]
        BY ONLY <1>0, <1>3, d \in Datastores DEF ReuseStatic, TypeOK
      <3>2. newKey' = newKey /\ regions' = regions /\ created' = created
        BY ONLY <1>3 DEF ReuseStatic
      <3>. QED
        BY ONLY UpdateInv, StoreAction(d), d \in Datastores, <3>1, <3>2, StoreForms
           DEF StartStep, ExitStep, TimeoutStep, MoveStep, PopulateStep, MonitorStep, SetupStep,
               PublishStep, RemoveStep, DetachStep, AfterSwapPC, FinalPCs
    <2>2. attached'[d] = attached[d] \cup {Leads(dataset[d], "static")}
      BY ONLY <1>0, <1>00, <1>3, d \in Datastores
         DEF ReuseStatic, TypeOK, Leads, Newest, LockedPCs, StorePCs, FinalPCs
    <2>. QED
      BY <2>1, <2>2 DEF MapStep
  <1>4. ASSUME NEW k \in Kinds, NEW pc, SetupRegion(d, k), dpc[d] = pc, dpc'[d] = (IF pc = "static" THEN "updatable" ELSE "populate"),
               pc = k
        PROVE  MapStep(d)
    <2>1. attached'[d] = attached[d] \cup {<<d, k>>}
      BY ONLY <1>0, <1>4, d \in Datastores DEF SetupRegion, TypeOK
    <2>2. \E key \in ShmKey : keyInUse'[dmon[d]] # keyInUse[dmon[d]]
      BY ONLY <1>0, <1>00, <1>4, d \in Datastores
         DEF SetupRegion, TypeOK, IsReservedKey, FreeKeys, LockedPCs, StorePCs, FinalPCs, Kinds
    <2>3. \E j \in Kinds, key \in ShmKey : SetupStep(d, j, key)
      BY ONLY UpdateInv, StoreAction(d), d \in Datastores, <1>4, <2>2, StoreForms
         DEF StartStep, ExitStep, TimeoutStep, MoveStep, PopulateStep, MonitorStep, ReuseStep,
             PublishStep, RemoveStep, DetachStep, AfterSwapPC, FinalPCs, KeepRegister, Kinds, SwapPC
    <2>4. \E key \in ShmKey : SetupStep(d, k, key)
      BY ONLY <1>4, <2>3 DEF SetupStep, Kinds
    <2>. QED
      BY <2>1, <2>4 DEF MapStep
  <1>5. CASE SetupStatic(d)
    <2>1. SetupRegion(d, "static") /\ dpc[d] = "static" /\ dpc'[d] = "updatable"
      BY ONLY <1>0, <1>5, d \in Datastores DEF SetupStatic, TypeOK
    <2>. QED
      BY <1>4, <2>1 DEF Kinds
  <1>6. CASE SetupUpdatable(d)
    <2>1. SetupRegion(d, "updatable") /\ dpc[d] = "updatable" /\ dpc'[d] = "populate"
      BY ONLY <1>0, <1>6, d \in Datastores DEF SetupUpdatable, TypeOK
    <2>. QED
      BY <1>4, <2>1 DEF Kinds
  <1>7. ASSUME NEW k \in Kinds, ReplaceRegion(d, k) PROVE MapStep(d)
    <2>1. dpc[d] = SwapPC(k) /\ dpc'[d] = AfterSwapPC(k)
      BY ONLY <1>0, <1>7, d \in Datastores DEF ReplaceRegion, TypeOK
    <2>2. PublishStep(d, k)
      BY ONLY UpdateInv, StoreAction(d), d \in Datastores, <1>7, <2>1, StoreForms
         DEF StartStep, ExitStep, TimeoutStep, MoveStep, PopulateStep, MonitorStep, ReuseStep,
             SetupStep, PublishStep, RemoveStep, DetachStep, SwapPC, AfterSwapPC, FinalPCs, Kinds
    <2>3. /\ Registered(dataset[d], k)
          /\ attached'[d] = attached[d] \cup {Leads(dataset[d], k)}
      BY ONLY <1>0, <1>00, <1>7, <2>1, d \in Datastores
         DEF ReplaceRegion, TypeOK, Leads, Newest, Registered, Find, SwapPC, LockedPCs, StorePCs,
             FinalPCs
    <2>. QED
      BY <2>2, <2>3 DEF MapStep
  <1>. QED
    BY <1>1, <1>2, <1>3, <1>5, <1>6, <1>7 DEF StoreAction, StoreStep

-----------------------------------------------------------------------------

\* A datastore that has no region has no handles.
LEMMA HandleNext == UpdateInv /\ ResourceInv /\ [Next]_vars => HandleInv'
  <1>. SUFFICES ASSUME UpdateInv, ResourceInv, [Next]_vars PROVE HandleInv'
    OBVIOUS
  <1>0. HandleInv
    BY DEF ResourceInv
  <1>1. ASSUME NEW d \in Datastores, StoreAction(d), NEW e \in Datastores,
               dpc'[e] \in BeforeSetup("static") \cup FinalPCs
        PROVE  /\ newKey'[e] = NoKeys /\ oldKey'[e] = NoKeys
               /\ oldSegment'[e] = NoFacade /\ attached'[e] = {}
    <2>1. CASE e # d
      BY <1>0, <1>1, <2>1, OtherStores DEF HandleInv
    <2>2. CASE e = d
      <3>1. MapStep(d)
        BY <1>1, MapForms
      <3>2. CASE StartStep(d) \/ MoveStep(d) \/ MonitorStep(d)
        <4>1. /\ dpc[d] \in BeforeSetup("static") /\ dpc'[d] \notin FinalPCs
              /\ dpc[d] \in {"idle", "lock", "open"}
              /\ newKey'[d] = newKey[d] /\ oldKey'[d] = oldKey[d] /\ oldSegment'[d] = oldSegment[d]
          BY ONLY <1>1, <2>2, <3>2
             DEF StartStep, MoveStep, MonitorStep, KeepHandles, BeforeSetup, FinalPCs
        <4>2. attached'[d] = attached[d]
          BY ONLY <3>1, <4>1, d \in Datastores
             DEF MapStep, SetupStep, ReuseStep, PublishStep, SwapPC, Kinds
        <4>. QED
          BY <1>0, <2>2, <4>1, <4>2 DEF HandleInv
      <3>3. CASE ExitStep(d) \/ TimeoutStep(d)
        <4>1. /\ dpc'[d] \in FinalPCs
              /\ newKey'[d] = NoKeys /\ oldKey'[d] = NoKeys /\ oldSegment'[d] = NoFacade
          BY ONLY <3>3 DEF ExitStep, TimeoutStep, DropHandles, FinalPCs
        <4>2. attached'[d] = {}
          BY ONLY <3>1, <4>1
             DEF MapStep, SetupStep, ReuseStep, PublishStep, AfterSwapPC, FinalPCs
        <4>. QED
          BY <2>2, <4>1, <4>2
      <3>. QED
        BY <1>1, <2>2, <3>2, <3>3, StoreForms
           DEF PopulateStep, ReuseStep, SetupStep, PublishStep, RemoveStep, DetachStep, AfterSwapPC,
               BeforeSetup, FinalPCs
    <2>. QED
      BY <2>1, <2>2
  <1>2. ASSUME NEW d \in Datastores, StoreAction(d) PROVE HandleInv'
    BY <1>1, <1>2 DEF HandleInv, BeforeSetup, NoKeys, NoFacade
  <1>3. ASSUME UNCHANGED registerSide PROVE HandleInv'
    BY ONLY <1>0, <1>3 DEF HandleInv, registerSide, BeforeSetup, NoKeys, NoFacade
  <1>. QED
    BY <1>2, <1>3, StepCases, WatchFrame

\* What PublishedInv says of a datastore and a kind.
PublishedOf(d, k) ==
    dpc[d] \in AfterSwap(k) /\ newKey[d][k] # None =>
        /\ Registered(dataset[d], k)
        /\ newKey[d][k] = Newest(dataset[d], k).shm_key
        /\ Leads(dataset[d], k) = <<d, k>>

\* What a datastore has published stays registered: nobody else publishes before it ends.
LEMMA PublishedNext == UpdateInv /\ ResourceInv /\ [Next]_vars => PublishedInv'
  <1>. SUFFICES ASSUME UpdateInv, ResourceInv, [Next]_vars PROVE PublishedInv'
    OBVIOUS
  <1>0. \A d \in Datastores, k \in Kinds : PublishedOf(d, k)
    BY DEF ResourceInv, PublishedInv, PublishedOf
  <1>1. ASSUME NEW d \in Datastores, StoreAction(d), NEW e \in Datastores, e # d, NEW k \in Kinds
        PROVE  PublishedOf(e, k)'
    <2>0. PublishedOf(e, k)
      BY <1>0
    <2>1. dpc'[e] = dpc[e] /\ newKey'[e] = newKey[e] /\ dataset'[e] = dataset[e]
      BY <1>1, OtherStores
    <2>2. CASE dpc[e] \in LockedPCs
      <3>1. KeepRegister
        BY <1>1, <2>2, OthersWait
      <3>. QED
        BY ONLY <2>0, <2>1, <3>1 DEF PublishedOf, KeepRegister, Registered, Newest, Leads, AfterSwap
    <2>3. CASE dpc[e] \notin LockedPCs
      BY ONLY <2>1, <2>3 DEF PublishedOf, AfterSwap, CleanupPCs, LockedPCs, StorePCs, FinalPCs
    <2>. QED
      BY <2>2, <2>3
  <1>2. ASSUME NEW d \in Datastores, StoreAction(d), NEW k \in Kinds
        PROVE  PublishedOf(d, k)'
    <2>0. PublishedOf(d, k)
      BY <1>0
    <2>1. ASSUME NEW j \in Kinds, PublishStep(d, j) PROVE PublishedOf(d, k)'
      <3>1. /\ UNCHANGED <<created, bound>> /\ dataset[d] \in Datasets /\ created \in Monitors
            /\ regions'[created][<<dataset[d], j>>].timestamp = Newest(dataset[d], j).timestamp + 1
            /\ Newest(dataset[d], j).timestamp \in Nat
            /\ regions'[created][<<dataset[d], j>>].shm_key = newKey[d][j]
            /\ bound[newKey[d][j]] = <<d, j>>
            /\ k # j => regions'[created][<<dataset[d], k>>] = Newest(dataset[d], k)
        BY ONLY UpdateInv, d \in Datastores, j \in Kinds, k \in Kinds, <2>1, PublishEffect
      <3>2. dpc[d] = SwapPC(j) /\ dpc'[d] = AfterSwapPC(j) /\ newKey'[d] = newKey[d]
            /\ dataset'[d] = dataset[d]
        BY ONLY <2>1 DEF PublishStep, KeepJob
      <3>3. CASE k = j
        <4>1. regions'[created][<<dataset[d], k>>].timestamp # 0
          BY ONLY <3>1, <3>3
        <4>. QED
          BY ONLY <3>1, <3>2, <3>3, <4>1 DEF PublishedOf, Registered, Newest, Leads, IsEmpty
      <3>4. CASE k # j
        <4>1. dpc'[d] \in AfterSwap(k) => dpc[d] \in AfterSwap(k)
          BY ONLY <3>2, <3>4, j \in Kinds, k \in Kinds
             DEF AfterSwap, CleanupPCs, SwapPC, AfterSwapPC, Kinds
        <4>. QED
          BY ONLY <2>0, <3>1, <3>2, <3>4, <4>1 DEF PublishedOf, Registered, Newest, Leads, AfterSwap
      <3>. QED
        BY <3>3, <3>4
    <2>2. ASSUME OtherStep(d), dpc[d] \in CleanupPCs, dpc'[d] \in CleanupPCs
          PROVE  PublishedOf(d, k)'
      <3>1. /\ dpc[d] \in AfterSwap("static") /\ dpc[d] \in AfterSwap("updatable")
            /\ newKey'[d] = newKey[d] /\ dataset'[d] = dataset[d]
        BY ONLY <2>2
           DEF OtherStep, StartStep, ExitStep, TimeoutStep, MoveStep, PopulateStep, ReuseStep, SetupStep,
               RemoveStep, DetachStep, KeepHandles, KeepJob, CleanupPCs, AfterSwap, SwapPC, FinalPCs
      <3>2. /\ created' = created /\ regions' = regions
            /\ \A ds \in Datasets : Registered(ds, k) => bound'[Newest(ds, k).shm_key] = Leads(ds, k)
        BY <2>2, RegisterKept
      <3>3. dataset[d] \in Datasets
        BY <2>2, ActiveStore DEF CleanupPCs, LockedPCs, StorePCs, FinalPCs
      <3>. QED
        BY ONLY <2>0, <3>1, <3>2, <3>3, k \in Kinds
           DEF PublishedOf, Registered, Newest, Leads, Kinds
    <2>3. ASSUME OtherStep(d) \/ MonitorStep(d), dpc[d] \notin CleanupPCs, dpc'[d] \in CleanupPCs
          PROVE  PublishedOf(d, k)'
      <3>1. dpc[d] = "swap" /\ dpc'[d] = "swapUpdatable" /\ onlyMetric[d] /\ newKey'[d] = newKey[d]
        BY ONLY <2>3
           DEF OtherStep, StartStep, ExitStep, TimeoutStep, MoveStep, MonitorStep, PopulateStep, ReuseStep,
               SetupStep, RemoveStep, DetachStep, KeepHandles, CleanupPCs, FinalPCs
      <3>2. newKey[d]["static"] = None
        BY <3>1 DEF UpdateInv, NoKeyInv, Kinds
      <3>. QED
        BY ONLY <3>1, <3>2, k \in Kinds DEF PublishedOf, AfterSwap, SwapPC, Kinds
    <2>4. ASSUME MonitorStep(d) PROVE dpc[d] \notin CleanupPCs
      BY ONLY <2>4 DEF MonitorStep, CleanupPCs
    <2>5. ASSUME dpc'[d] \notin CleanupPCs PROVE PublishedOf(d, k)'
      BY ONLY <2>5 DEF PublishedOf, AfterSwap
    <2>. QED
      BY <1>2, <2>1, <2>2, <2>3, <2>4, <2>5, RegisterCases
  <1>3. ASSUME NEW d \in Datastores, StoreAction(d) PROVE PublishedInv'
    <2>1. \A e \in Datastores, k \in Kinds : PublishedOf(e, k)'
      BY <1>1, <1>2, <1>3
    <2>. QED
      BY ONLY <2>1 DEF PublishedInv, PublishedOf
  <1>4. ASSUME UNCHANGED registerSide PROVE PublishedInv'
    BY <1>4 DEF ResourceInv, PublishedInv, registerSide, Registered, Newest, Leads, AfterSwap
  <1>. QED
    BY <1>3, <1>4, StepCases, WatchFrame

-----------------------------------------------------------------------------

\* A region is registered under a new name only while the array has an empty one.
LEMMA RegisterHasRoom ==
    ASSUME UpdateInv, NEW d \in Datastores, StoreAction(d), NEW k \in Kinds, PublishStep(d, k),
           ~ Registered(dataset[d], k)
    PROVE  CanRegister(regions[created])
  <1>1. dpc[d] = SwapPC(k) /\ dpc'[d] = AfterSwapPC(k)
    BY DEF PublishStep
  <1>2. dmon[d] = created /\ created \in Monitors
    BY <1>1, ActiveStore DEF SwapPC, LockedPCs, StorePCs, FinalPCs
  <1>3. dpc \in [Datastores -> StorePCs]
    BY DEF UpdateInv, TypeOK
  <1>4. ~ (KillDatastore(d) \/ TerminateDatastore(d) \/ \E j \in Kinds : RegisterThrows(d, j))
    BY ONLY <1>1, <1>3, d \in Datastores
       DEF Abort, KillDatastore, TerminateDatastore, RegisterThrows, Exit, AfterSwapPC
  <1>5. \E j \in Kinds : RegisterRegion(d, j) \/ ReplaceRegion(d, j)
    BY ONLY <1>1, <1>4, StoreAction(d)
       DEF StoreAction, StoreStep, Start, AcquireFileLock, OpenMonitor, ReuseStatic,
           ReuseStaticThrows, SetupStatic, SetupUpdatable, ReserveKeyThrows, InputError,
           InputAborts, Abort, ReadsFiles, Populate,
           LockMonitor, LockTimeout, UnlockMonitor, NotifyAll, RemoveOld, WaitForDetach, Finish, SwapPC
  <1>. QED
    BY ONLY <1>1, <1>2, <1>5, k \in Kinds, ~ Registered(dataset[d], k)
       DEF RegisterRegion, ReplaceRegion, SwapPC, Kinds, Registered, Newest, Find

\* What CanRegister counts are the names found in the array.
LEMMA RoomIsFound ==
    ASSUME UpdateInv, NEW m \in Monitors
    PROVE  CanRegister(regions[m]) <=> Cardinality(FoundNames(m)) < MAX_SHARED_REGIONS
  <1>1. DOMAIN regions[m] = Names
    BY DEF UpdateInv, TypeOK
  <1>. QED
    BY <1>1 DEF CanRegister, FoundNames

\* The register is never overfull.
LEMMA FoundNext == UpdateInv /\ ResourceInv /\ [Next]_vars => FoundInv'
  <1>. SUFFICES ASSUME UpdateInv, ResourceInv, [Next]_vars PROVE FoundInv'
    OBVIOUS
  <1>0. \A m \in Monitors :
          IsFiniteSet(FoundNames(m)) /\ Cardinality(FoundNames(m)) <= MAX_SHARED_REGIONS
    BY DEF ResourceInv, FoundInv
  <1>00. MAX_SHARED_REGIONS \in Nat
    BY MaxSharedRegionsAssumption
  <1>1. ASSUME NEW d \in Datastores, StoreAction(d), NEW m \in Monitors
        PROVE  IsFiniteSet(FoundNames(m)') /\ Cardinality(FoundNames(m)') <= MAX_SHARED_REGIONS
    <2>1. CASE regions'[m] = regions[m]
      <3>1. FoundNames(m)' = FoundNames(m)
        BY ONLY <2>1 DEF FoundNames, Find
      <3>. QED
        BY <1>0, <3>1
    <2>2. CASE regions'[m] # regions[m]
      <3>1. m = created
        BY <1>1, <2>2, StoreEffect
      <3>2. PICK k \in Kinds : PublishStep(d, k)
        <4>1. OtherStep(d) \/ MonitorStep(d) => regions' = regions
          BY RegisterKept DEF MonitorStep
        <4>. QED
          BY ONLY <1>1, <2>2, <4>1, UpdateInv, RegisterCases
      <3>. DEFINE name == <<dataset[d], k>>
      <3>3. /\ dataset[d] \in Datasets
            /\ regions'[created][name].timestamp = Newest(dataset[d], k).timestamp + 1
            /\ Newest(dataset[d], k).timestamp \in Nat
            /\ \A ds \in Datasets, j \in Kinds :
                 ~ (ds = dataset[d] /\ j = k) => regions'[created][<<ds, j>>] = Newest(ds, j)
        BY ONLY UpdateInv, d \in Datastores, k \in Kinds, <3>2, PublishEffect
      <3>4. FoundNames(m)' = FoundNames(m) \cup {name}
        <4>1. name \in Names
          BY <3>3 DEF Names
        <4>2. regions'[m][name].timestamp # 0
          BY ONLY <3>1, <3>3
        <4>3. \A n \in Names : n # name => regions'[m][n] = regions[m][n]
          BY ONLY <3>1, <3>3 DEF Names, Newest
        <4>. HIDE DEF name
        <4>. QED
          BY ONLY <4>1, <4>2, <4>3 DEF FoundNames, Find, IsEmpty
      <3>5. CASE Registered(dataset[d], k)
        <4>1. name \in FoundNames(m)
          BY <3>1, <3>3, <3>5 DEF FoundNames, Registered, Newest, Find, Names
        <4>2. FoundNames(m)' = FoundNames(m)
          BY <3>4, <4>1
        <4>. QED
          BY <1>0, <4>2
      <3>6. CASE ~ Registered(dataset[d], k)
        <4>1. Cardinality(FoundNames(m)) < MAX_SHARED_REGIONS
          BY <1>1, <3>1, <3>2, <3>6, RegisterHasRoom, RoomIsFound
        <4>2. name \notin FoundNames(m)
          BY <1>1, <3>1, <3>3, <3>6 DEF FoundNames, Registered, Newest, Find, Names
        <4>. HIDE DEF name
        <4>3. /\ IsFiniteSet(FoundNames(m) \cup {name})
              /\ Cardinality(FoundNames(m) \cup {name}) = Cardinality(FoundNames(m)) + 1
              /\ Cardinality(FoundNames(m)) \in Nat
          BY <1>0, <4>2, FS_AddElement, FS_CardinalityType
        <4>. QED
          BY ONLY <1>00, <3>4, <4>1, <4>3
      <3>. QED
        BY <3>5, <3>6
    <2>. QED
      BY <2>1, <2>2
  <1>2. ASSUME NEW d \in Datastores, StoreAction(d) PROVE FoundInv'
    BY <1>1, <1>2 DEF FoundInv
  <1>3. ASSUME UNCHANGED registerSide PROVE FoundInv'
    <2>1. \A m \in Monitors : FoundNames(m)' = FoundNames(m)
      BY ONLY <1>3 DEF registerSide, FoundNames, Find
    <2>. QED
      BY <1>0, <2>1 DEF FoundInv
  <1>. QED
    BY <1>2, <1>3, StepCases, WatchFrame

\* A set of at most two elements.
LEMMA TwoElements ==
    ASSUME NEW a, NEW b
    PROVE  IsFiniteSet({a, b}) /\ Cardinality({a, b}) = IF a = b THEN 1 ELSE 2
  <1>. DEFINE S == {a}
  <1>1. IsFiniteSet(S) /\ Cardinality(S) = 1
    BY FS_Singleton
  <1>2. {a, b} = S \cup {b} /\ (b \in S <=> a = b)
    OBVIOUS
  <1>. HIDE DEF S
  <1>3. /\ IsFiniteSet(S \cup {b})
        /\ Cardinality(S \cup {b}) = IF b \in S THEN Cardinality(S) ELSE Cardinality(S) + 1
    BY <1>1, FS_AddElement
  <1>. QED
    BY <1>1, <1>2, <1>3

\* While one dataset is half registered, and no other is, an even number of regions is
\* not used up.
LEMMA RoomForSecondHalf ==
    ASSUME UpdateInv, ResourceInv, MAX_SHARED_REGIONS % 2 = 0,
           NEW d \in Datastores, dpc[d] = "swapUpdatable", ~ Registered(dataset[d], "updatable")
    PROVE  CanRegister(regions[created])
  <1>. DEFINE m == created
              ds == dataset[d]
              P == {x \in Datasets : x # ds /\ Find(regions[m], <<x, "static">>)}
              name == <<ds, "static">>
  <1>1. /\ m \in Monitors /\ ds \in Datasets /\ dmon[d] = m
        /\ mutex[m] = d
    BY ActiveStore DEF UpdateInv, MutexInv, SwapPCs, LockedPCs, StorePCs, FinalPCs
  <1>2. Registered(ds, "static")
    BY DEF UpdateInv, BaseInv
  <1>3. \A x \in Datasets : x # ds =>
          (Find(regions[m], <<x, "static">>) <=> Find(regions[m], <<x, "updatable">>))
    BY <1>1 DEF ResourceInv, PairedInv, HalfRegistered
  <1>4. /\ Find(regions[m], name) /\ name \in Names
        /\ ~ Find(regions[m], <<ds, "updatable">>)
    BY <1>1, <1>2 DEF Registered, Newest, Find, Names, Kinds
  <1>5. IsFiniteSet(FoundNames(m)) /\ Cardinality(FoundNames(m)) <= MAX_SHARED_REGIONS
    BY <1>1 DEF ResourceInv, FoundInv
  <1>6. FoundNames(m) = (P \X Kinds) \cup {name}
    <2>1. ASSUME NEW x \in Datasets, NEW k \in Kinds
          PROVE  Find(regions[m], <<x, k>>) <=> x \in P \/ <<x, k>> = name
      BY ONLY <1>3, <1>4, x \in Datasets, k \in Kinds DEF Kinds
    <2>2. P \subseteq Datasets
      OBVIOUS
    <2>. HIDE DEF m, P, name
    <2>3. \A n : n \in FoundNames(m) => n \in (P \X Kinds) \cup {name}
      BY ONLY <2>1 DEF FoundNames, Names
    <2>4. \A n : n \in (P \X Kinds) => n \in FoundNames(m)
      BY ONLY <2>1, <2>2 DEF FoundNames, Names
    <2>5. name \in FoundNames(m)
      BY ONLY <1>4 DEF FoundNames
    <2>. QED
      BY ONLY <2>3, <2>4, <2>5
  <1>7. name \notin P \X Kinds
    OBVIOUS
  <1>. HIDE DEF m, ds, P, name
  <1>8. IsFiniteSet(P)
    <2>. DEFINE f == [x \in P |-> <<x, "static">>]
    <2>1. f \in [P -> FoundNames(m)]
      BY <1>6 DEF Kinds
    <2>2. \A x, y \in P : f[x] = f[y] => x = y
      OBVIOUS
    <2>. HIDE DEF f
    <2>3. f \in Injection(P, FoundNames(m))
      BY <2>1, <2>2 DEF Injection, IsInjective
    <2>. QED
      BY <1>5, <2>3, FS_Injection
  <1>9. IsFiniteSet(Kinds) /\ Cardinality(Kinds) = 2
    BY TwoElements DEF Kinds
  <1>10. IsFiniteSet(P \X Kinds) /\ Cardinality(P \X Kinds) = Cardinality(P) * 2
    BY <1>8, <1>9, FS_Product
  <1>11. Cardinality(FoundNames(m)) = Cardinality(P) * 2 + 1
    BY <1>6, <1>7, <1>10, FS_AddElement
  <1>12. Cardinality(P) \in Nat
    BY <1>8, FS_CardinalityType
  <1>13. Cardinality(FoundNames(m)) < MAX_SHARED_REGIONS
    BY ONLY <1>5, <1>11, <1>12, MaxSharedRegionsAssumption, MAX_SHARED_REGIONS % 2 = 0
  <1>. QED
    BY <1>1, <1>13, RoomIsFound DEF m

\* Between the two halves of publishing a datastore goes on or is killed with the mutex.
LEMMA SecondHalf ==
    ASSUME UpdateInv, ResourceInv, MAX_SHARED_REGIONS % 2 = 0,
           NEW d \in Datastores, StoreAction(d), dpc[d] = "swapUpdatable"
    PROVE  \/ PublishStep(d, "updatable")
           \/ dpc'[d] = "killed" /\ mutex' = mutex
  <1>1. dmon[d] = created
    BY ActiveStore DEF LockedPCs, StorePCs, FinalPCs
  <1>2. dpc \in [Datastores -> StorePCs]
    BY DEF UpdateInv, TypeOK
  <1>3. CASE KillDatastore(d) \/ TerminateDatastore(d)
    BY ONLY <1>2, <1>3, d \in Datastores DEF KillDatastore, TerminateDatastore, Exit
  <1>4. ~ \E k \in Kinds : RegisterThrows(d, k)
    <2>1. ~ Registered(dataset[d], "updatable") => CanRegister(regions[created])
      BY RoomForSecondHalf
    <2>2. created \in Monitors
      BY ActiveStore DEF LockedPCs, StorePCs, FinalPCs
    <2>. QED
      BY ONLY <1>1, <2>1, <2>2, dpc[d] = "swapUpdatable"
         DEF Abort, RegisterThrows, SwapPC, Registered, Newest, Find, Kinds
  <1>5. CASE ~ (KillDatastore(d) \/ TerminateDatastore(d))
    <2>1. \E k \in Kinds : RegisterRegion(d, k) \/ ReplaceRegion(d, k)
      BY ONLY <1>4, <1>5, StoreAction(d), dpc[d] = "swapUpdatable"
         DEF StoreAction, StoreStep, Start, AcquireFileLock, OpenMonitor, ReuseStatic,
             ReuseStaticThrows, SetupStatic, SetupUpdatable, ReserveKeyThrows, InputError,
             InputAborts, Abort, ReadsFiles, Populate,
             LockMonitor, LockTimeout, UnlockMonitor, NotifyAll, RemoveOld, WaitForDetach, Finish
    <2>2. dpc'[d] = "unlock"
      BY ONLY <1>2, <2>1, dpc[d] = "swapUpdatable", d \in Datastores
         DEF RegisterRegion, ReplaceRegion, SwapPC, AfterSwapPC, Kinds
    <2>3. \E k \in Kinds : PublishStep(d, k)
      BY ONLY <2>2, UpdateInv, StoreAction(d), d \in Datastores, dpc[d] = "swapUpdatable", StoreForms
         DEF StartStep, ExitStep, TimeoutStep, MoveStep, PopulateStep, ReuseStep, MonitorStep,
             SetupStep, RemoveStep, DetachStep, FinalPCs
    <2>. QED
      BY ONLY <2>3, dpc[d] = "swapUpdatable" DEF PublishStep, SwapPC, Kinds
  <1>. QED
    BY <1>3, <1>5

\* What PairedInv says of a monitor and a dataset.
PairedOf(m, ds) ==
    \/ Find(regions[m], <<ds, "static">>) <=> Find(regions[m], <<ds, "updatable">>)
    \/ Find(regions[m], <<ds, "static">>) /\ HalfRegistered(m, ds)

\* A step that neither uses the mutex of m nor publishes there leaves its datasets paired.
LEMMA PairedKept ==
    ASSUME UpdateInv, NEW d \in Datastores, StoreAction(d), NEW m \in Monitors, NEW ds \in Datasets,
           regions'[m] = regions[m], PairedOf(m, ds),
           \A x \in Datastores :
             mutex[m] = x /\ dmon[x] = m /\ dpc[x] \in {"swapUpdatable", "killed"} =>
               /\ mutex'[m] = x
               /\ x = d => dpc'[x] = "killed"
    PROVE  PairedOf(m, ds)'
  <1>1. ASSUME HalfRegistered(m, ds) PROVE HalfRegistered(m, ds)'
    <2>1. PICK x \in Datastores : /\ mutex[m] = x /\ dmon[x] = m /\ dataset[x] = ds
                                  /\ dpc[x] \in {"swapUpdatable", "killed"}
      BY <1>1 DEF HalfRegistered
    <2>2. CASE x # d
      <3>1. dpc'[x] = dpc[x] /\ dmon'[x] = dmon[x] /\ dataset'[x] = dataset[x]
        BY <2>2, OtherStores
      <3>. QED
        BY <2>1, <3>1 DEF HalfRegistered
    <2>3. CASE x = d
      <3>1. dpc'[d] = "killed" /\ mutex'[m] = d
        BY <2>1, <2>3
      <3>2. dpc[d] # "killed"
        BY StoreMoves DEF StoreControl, LockedPCs, StorePCs, FinalPCs
      <3>3. dmon'[d] = dmon[d]
        BY <3>1, StoreMoves DEF StoreControl, LockedPCs, FinalPCs
      <3>4. dataset'[d] = dataset[d]
        BY ONLY <2>1, <2>3, <3>1, <3>2, UpdateInv, StoreAction(d), d \in Datastores, StoreForms
           DEF StartStep, ExitStep, TimeoutStep, MoveStep, PopulateStep, ReuseStep, MonitorStep,
               SetupStep, PublishStep, RemoveStep, DetachStep, KeepJob
      <3>. QED
        BY <2>1, <2>3, <3>1, <3>3, <3>4 DEF HalfRegistered
    <2>. QED
      BY <2>2, <2>3
  <1>. QED
    BY <1>1 DEF PairedOf, Find

\* Regions come in pairs outside of the critical section.
LEMMA PairedNext ==
    UpdateInv /\ ResourceInv /\ [Next]_vars => (MAX_SHARED_REGIONS % 2 = 0 => PairedInv')
  <1>. SUFFICES ASSUME UpdateInv, ResourceInv, [Next]_vars, MAX_SHARED_REGIONS % 2 = 0
                PROVE  PairedInv'
    OBVIOUS
  <1>0. \A m \in Monitors, ds \in Datasets : PairedOf(m, ds)
    BY DEF ResourceInv, PairedInv, PairedOf
  <1>00. mutex \in [Monitors -> Processes \cup {None}]
    BY DEF UpdateInv, TypeOK
  <1>1. ASSUME NEW d \in Datastores, StoreAction(d), NEW m \in Monitors, NEW ds \in Datasets
        PROVE  PairedOf(m, ds)'
    <2>0. PairedOf(m, ds) /\ d # None
      BY <1>0, DataUpdateAssumption DEF Processes
    <2>1. dpc[d] # "killed"
      BY <1>1, StoreMoves DEF StoreControl, LockedPCs, StorePCs, FinalPCs
    <2>2. dpc[d] \in SwapPCs \cup {"swap"} =>
             dmon[d] = created /\ created \in Monitors /\ dataset[d] \in Datasets
      BY ActiveStore DEF SwapPCs, LockedPCs, StorePCs, FinalPCs
    <2>3. CASE m # created
      <3>1. mutex'[m] = mutex[m] /\ regions'[m] = regions[m]
        BY <1>1, <2>3, StoreEffect
      <3>2. ~ (dmon[d] = m /\ dpc[d] \in {"swapUpdatable", "killed"})
        BY <2>1, <2>2, <2>3 DEF SwapPCs
      <3>. QED
        BY <1>1, <2>0, <3>1, <3>2, PairedKept
    <2>4. CASE m = created /\ ~ \E k \in Kinds : PublishStep(d, k)
      <3>1. regions'[m] = regions[m]
        <4>1. OtherStep(d) \/ MonitorStep(d)
          BY <1>1, <2>4, RegisterCases
        <4>. QED
          BY <4>1, RegisterKept DEF MonitorStep
      <3>2. ASSUME mutex[m] = d, dpc[d] = "swapUpdatable"
            PROVE  mutex'[m] = d /\ dpc'[d] = "killed"
        BY <1>1, <2>4, <3>2, SecondHalf DEF Kinds
      <3>3. ASSUME NEW x \in Datastores, mutex[m] = x, x # d PROVE mutex'[m] = x
        <4>1. StoreMutex(d)
          BY <1>1, StoreMutexMoves
        <4>2. dpc[d] \in SwapPCs => mutex[dmon[d]] = d
          BY DEF UpdateInv, MutexInv
        <4>3. x # None
          BY DataUpdateAssumption DEF Processes
        <4>. QED
          BY ONLY <1>00, <2>2, <2>4, <3>3, <4>1, <4>2, <4>3, m \in Monitors DEF StoreMutex
      <3>. QED
        BY <1>1, <2>0, <2>1, <3>1, <3>2, <3>3, PairedKept
    <2>5. ASSUME m = created, NEW k \in Kinds, PublishStep(d, k) PROVE PairedOf(m, ds)'
      <3>1. /\ dataset[d] \in Datasets /\ created \in Monitors
            /\ UNCHANGED <<created, bound>>
            /\ regions'[created][<<dataset[d], k>>].timestamp = Newest(dataset[d], k).timestamp + 1
            /\ Newest(dataset[d], k).timestamp \in Nat
            /\ \A x \in Datasets, i \in Kinds :
                 ~ (x = dataset[d] /\ i = k) => regions'[created][<<x, i>>] = Newest(x, i)
        BY ONLY UpdateInv, d \in Datastores, k \in Kinds, <2>5, PublishEffect
      <3>2. /\ dpc[d] = SwapPC(k) /\ dpc'[d] = AfterSwapPC(k) /\ dataset'[d] = dataset[d]
            /\ dpc[d] \in SwapPCs /\ dpc'[d] \in SwapPCs
        BY ONLY <2>5, k \in Kinds DEF PublishStep, KeepJob, SwapPC, AfterSwapPC, SwapPCs, Kinds
      <3>3. mutex[m] = d /\ mutex' = mutex /\ dmon'[d] = m
        <4>1. mutex[m] = d /\ dmon[d] = m
          BY <2>2, <2>5, <3>2 DEF UpdateInv, MutexInv
        <4>2. mutex' = mutex /\ dmon' = dmon
          BY <1>1, <3>2, StoreMutexMoves DEF StoreMutex, SwapPCs
        <4>. QED
          BY <4>1, <4>2
      <3>4. CASE ds # dataset[d]
        <4>1. ~ HalfRegistered(m, ds)
          BY ONLY <3>3, <3>4 DEF HalfRegistered
        <4>2. \A i \in Kinds : regions'[m][<<ds, i>>] = regions[m][<<ds, i>>]
          BY ONLY <2>5, <3>1, <3>4, ds \in Datasets DEF Newest
        <4>. QED
          BY ONLY <2>0, <4>1, <4>2 DEF PairedOf, Find, Kinds
      <3>5. regions'[m][<<dataset[d], k>>].timestamp # 0
        BY ONLY <2>5, <3>1
      <3>6. CASE ds = dataset[d] /\ k = "static"
        <4>1. dpc'[d] = "swapUpdatable"
          BY ONLY <3>2, <3>6 DEF AfterSwapPC
        <4>2. HalfRegistered(m, ds)'
          BY ONLY <3>2, <3>3, <3>6, <4>1, d \in Datastores DEF HalfRegistered
        <4>. QED
          BY ONLY <3>5, <3>6, <4>2 DEF PairedOf, Find, IsEmpty
      <3>7. CASE ds = dataset[d] /\ k = "updatable"
        <4>1. Registered(ds, "static")
          BY <3>2, <3>7 DEF SwapPC, UpdateInv, BaseInv
        <4>2. regions'[m][<<ds, "static">>] = Newest(ds, "static")
          BY ONLY <2>5, <3>1, <3>7 DEF Kinds
        <4>. QED
          BY ONLY <3>5, <3>7, <4>1, <4>2 DEF PairedOf, Find, IsEmpty, Registered
      <3>. QED
        BY <3>4, <3>6, <3>7 DEF Kinds
    <2>. QED
      BY <2>3, <2>4, <2>5
  <1>2. ASSUME NEW d \in Datastores, StoreAction(d) PROVE PairedInv'
    <2>1. \A m \in Monitors, ds \in Datasets : PairedOf(m, ds)'
      BY <1>1, <1>2
    <2>. QED
      BY ONLY <2>1 DEF PairedInv, PairedOf
  <1>3. ASSUME UNCHANGED registerSide,
               \A m \in Monitors, x \in Datastores : mutex[m] = x => mutex'[m] = x
        PROVE  PairedInv'
    <2>1. \A m \in Monitors, ds \in Datasets : HalfRegistered(m, ds) => HalfRegistered(m, ds)'
      BY ONLY <1>3 DEF HalfRegistered, registerSide
    <2>2. regions' = regions
      BY ONLY <1>3 DEF registerSide
    <2>. QED
      BY ONLY <1>0, <2>1, <2>2 DEF PairedInv, PairedOf, Find
  <1>4. ASSUME NEW w \in Watchers, WatchAction(w), NEW m \in Monitors,
               NEW x \in Datastores, mutex[m] = x
        PROVE  mutex'[m] = x
    <2>1. WatchControl(w)
      BY <1>4, WatchMoves
    <2>2. wpc[w] \in WatchMutexPCs => mutex[wmon[w]] = w
      BY DEF UpdateInv, MutexInv
    <2>3. x # None /\ x # w
      BY DataUpdateAssumption DEF Processes
    <2>. QED
      BY ONLY <1>00, <1>4, <2>1, <2>2, <2>3 DEF WatchControl
  <1>. QED
    BY <1>2, <1>3, <1>4, StepCases, WatchFrame

\* What AttachedInv says of a datastore, of what it maps and of what it has replaced.
MappedOf(d) ==
    \A s \in attached[d] :
        \/ \E k \in Kinds : s = <<d, k>> /\ newKey[d][k] # None
        \/ \E k \in Kinds : s = oldSegment[d][k]
        \/ Registered(dataset[d], "static") /\ s = Leads(dataset[d], "static")

ReplacedOf(d, k) ==
    oldSegment[d][k] # None =>
        \E e \in Datastores : /\ oldSegment[d][k] = <<e, k>>
                              /\ dataset[e] = dataset[d]
                              /\ populated[e]

\* The new handles of a datastore stay until it ends.
LEMMA HandlesGrow ==
    ASSUME UpdateInv, NEW d \in Datastores, StoreAction(d), dpc[d] \in LockedPCs,
           dpc'[d] \notin FinalPCs
    PROVE  /\ dataset'[d] = dataset[d]
           /\ \A k \in Kinds : newKey[d][k] # None => newKey'[d][k] # None
           /\ \A k \in Kinds : /\ ~ PublishStep(d, k) => oldSegment'[d][k] = oldSegment[d][k]
                               /\ PublishStep(d, k) => oldSegment[d][k] = None
  <1>0. None \notin ShmKey
    BY DataUpdateAssumption
  <1>1. \A k \in Kinds : dpc[d] = SwapPC(k) => oldSegment[d][k] = None
    BY DEF UpdateInv, OldKeyInv
  <1>2. CASE ~ \E k \in Kinds : PublishStep(d, k)
    BY ONLY <1>0, <1>2, UpdateInv, StoreAction(d), d \in Datastores, dpc[d] \in LockedPCs,
            dpc'[d] \notin FinalPCs, StoreForms
       DEF StartStep, ExitStep, TimeoutStep, MoveStep, PopulateStep, ReuseStep, MonitorStep,
           SetupStep, RemoveStep, DetachStep, KeepHandles, KeepJob, LockedPCs, FinalPCs
  <1>3. ASSUME NEW j \in Kinds, PublishStep(d, j)
        PROVE  /\ dataset'[d] = dataset[d] /\ newKey'[d] = newKey[d]
               /\ \A k \in Kinds : k # j => oldSegment'[d][k] = oldSegment[d][k]
               /\ dpc[d] = SwapPC(j)
    BY ONLY <1>3 DEF PublishStep, KeepJob
  <1>4. \A k \in Kinds : PublishStep(d, k) => dpc[d] = SwapPC(k)
    BY DEF PublishStep
  <1>. QED
    BY ONLY <1>1, <1>2, <1>3, <1>4

\* What a datastore maps belongs to its dataset.
LEMMA AttachedNext == UpdateInv /\ ResourceInv /\ [Next]_vars => AttachedInv'
  <1>. SUFFICES ASSUME UpdateInv, ResourceInv, [Next]_vars PROVE AttachedInv'
    OBVIOUS
  <1>0. \A d \in Datastores : MappedOf(d) /\ \A k \in Kinds : ReplacedOf(d, k)
    BY DEF ResourceInv, AttachedInv, MappedOf, ReplacedOf
  <1>00. HandleInv' /\ HandleInv
    BY HandleNext DEF ResourceInv
  <1>1. ASSUME NEW d \in Datastores, StoreAction(d), NEW e \in Datastores,
               dpc'[e] \in BeforeSetup("static") \cup FinalPCs
        PROVE  MappedOf(e)' /\ \A k \in Kinds : ReplacedOf(e, k)'
    <2>1. attached'[e] = {} /\ oldSegment'[e] = NoFacade
      BY ONLY <1>00, <1>1 DEF HandleInv, BeforeSetup, NoFacade
    <2>. QED
      BY ONLY <2>1 DEF MappedOf, ReplacedOf, NoFacade
  <1>2. ASSUME NEW d \in Datastores, StoreAction(d), NEW e \in Datastores, e # d,
               dpc'[e] \notin BeforeSetup("static") \cup FinalPCs
        PROVE  MappedOf(e)' /\ \A k \in Kinds : ReplacedOf(e, k)'
    <2>1. /\ dpc'[e] = dpc[e] /\ newKey'[e] = newKey[e] /\ dataset'[e] = dataset[e]
          /\ attached'[e] = attached[e] /\ oldSegment'[e] = oldSegment[e]
      BY <1>2, OtherStores
    <2>2. dpc[e] \in LockedPCs
      <3>1. dpc[e] \in StorePCs
        BY DEF UpdateInv, TypeOK
      <3>. QED
        BY ONLY <1>2, <2>1, <3>1 DEF LockedPCs, BeforeSetup
    <2>3. KeepRegister
      BY <1>2, <2>2, OthersWait
    <2>4. MappedOf(e)'
      <3>1. MappedOf(e)
        BY <1>0
      <3>. QED
        BY ONLY <2>1, <2>3, <3>1 DEF MappedOf, KeepRegister, Registered, Newest, Leads
    <2>5. ASSUME NEW k \in Kinds PROVE ReplacedOf(e, k)'
      <3>1. ReplacedOf(e, k)
        BY <1>0
      <3>2. \A x \in Datastores : populated[x] => dataset'[x] = dataset[x] /\ populated'[x]
        BY <1>2, ContentSettled
      <3>. QED
        BY ONLY <2>1, <3>1, <3>2 DEF ReplacedOf
    <2>. QED
      BY <2>4, <2>5
  <1>3. ASSUME NEW d \in Datastores, StoreAction(d),
               dpc'[d] \notin BeforeSetup("static") \cup FinalPCs
        PROVE  MappedOf(d)' /\ \A k \in Kinds : ReplacedOf(d, k)'
    <2>1. dpc[d] \in LockedPCs \ {"open"}
      BY <1>3, StoreMoves DEF StoreControl, BeforeSetup, LockedPCs, StorePCs, FinalPCs
    <2>2. /\ dataset'[d] = dataset[d] /\ dataset[d] \in Datasets
          /\ \A k \in Kinds : newKey[d][k] # None => newKey'[d][k] # None
          /\ \A k \in Kinds : /\ ~ PublishStep(d, k) => oldSegment'[d][k] = oldSegment[d][k]
                              /\ PublishStep(d, k) => oldSegment[d][k] = None
      BY <1>3, <2>1, HandlesGrow, ActiveStore
    <2>3. ASSUME NEW k \in Kinds, PublishStep(d, k), Registered(dataset[d], k)
          PROVE  oldSegment'[d][k] = Leads(dataset[d], k)
      BY ONLY <2>3 DEF PublishStep
    <2>4. ASSUME NEW k \in Kinds, PublishStep(d, k), ~ Registered(dataset[d], k)
          PROVE  oldSegment'[d][k] = oldSegment[d][k]
      BY ONLY <2>4 DEF PublishStep
    <2>5. ASSUME NEW k \in Kinds PROVE ReplacedOf(d, k)'
      <3>1. \A x \in Datastores : populated[x] => dataset'[x] = dataset[x] /\ populated'[x]
        BY <1>3, ContentSettled
      <3>2. CASE oldSegment'[d][k] = oldSegment[d][k]
        <4>1. ReplacedOf(d, k)
          BY <1>0
        <4>. QED
          BY ONLY <2>2, <3>1, <3>2, <4>1 DEF ReplacedOf
      <3>3. CASE PublishStep(d, k) /\ Registered(dataset[d], k)
        <4>1. PICK x \in Datastores : Leads(dataset[d], k) = <<x, k>> /\ dataset[x] = dataset[d]
                                      /\ populated[x]
          BY <2>2, <3>3, RegisteredRegion
        <4>2. oldSegment'[d][k] = <<x, k>> /\ dataset'[x] = dataset'[d] /\ populated'[x]
          BY ONLY <2>2, <2>3, <3>1, <3>3, <4>1, k \in Kinds
        <4>. QED
          BY ONLY <4>2, x \in Datastores DEF ReplacedOf
      <3>. QED
        BY <2>2, <2>4, <3>2, <3>3
    <2>6. ASSUME Registered(dataset[d], "static")
          PROVE  \/ Registered(dataset[d], "static")' /\ Leads(dataset[d], "static")' = Leads(dataset[d], "static")
                 \/ PublishStep(d, "static")
      <3>1. CASE OtherStep(d)
        <4>1. /\ created' = created /\ regions' = regions
              /\ bound'[Newest(dataset[d], "static").shm_key] = Leads(dataset[d], "static")
          BY <2>2, <2>6, <3>1, RegisterKept DEF Kinds
        <4>. QED
          BY ONLY <2>2, <2>6, <4>1 DEF Registered, Newest, Leads
      <3>2. ~ MonitorStep(d)
        BY <2>1 DEF MonitorStep
      <3>3. CASE PublishStep(d, "updatable")
        <4>1. /\ UNCHANGED <<created, bound>>
              /\ \A ds \in Datasets, j \in Kinds : ~ (ds = dataset[d] /\ j = "updatable") =>
                   regions'[created][<<ds, j>>] = Newest(ds, j)
          BY ONLY UpdateInv, d \in Datastores, <3>3, PublishEffect DEF Kinds
        <4>2. regions'[created][<<dataset[d], "static">>] = Newest(dataset[d], "static")
          BY ONLY <2>2, <4>1 DEF Kinds
        <4>. QED
          BY ONLY <2>2, <2>6, <4>1, <4>2 DEF Registered, Newest, Leads
      <3>. QED
        BY <1>3, <3>1, <3>2, <3>3, RegisterCases DEF Kinds
    <2>7. ASSUME NEW s,
                 \/ \E k \in Kinds : s = <<d, k>> /\ newKey[d][k] # None
                 \/ \E k \in Kinds : s = oldSegment[d][k] /\ s # None
                 \/ Registered(dataset[d], "static") /\ s = Leads(dataset[d], "static")
          PROVE  \/ \E k \in Kinds : s = <<d, k>> /\ newKey'[d][k] # None
                 \/ \E k \in Kinds : s = oldSegment'[d][k]
                 \/ Registered(dataset[d], "static")' /\ s = Leads(dataset[d], "static")'
      <3>1. CASE \E k \in Kinds : s = <<d, k>> /\ newKey[d][k] # None
        BY ONLY <2>2, <3>1
      <3>2. CASE \E k \in Kinds : s = oldSegment[d][k] /\ s # None
        BY ONLY <2>2, <3>2
      <3>3. CASE Registered(dataset[d], "static") /\ s = Leads(dataset[d], "static")
        BY ONLY <2>3, <2>6, <3>3 DEF Kinds
      <3>. QED
        BY <2>7, <3>1, <3>2, <3>3
    <2>8. \A s \in attached[d] : s # None
      BY DataUpdateAssumption DEF UpdateInv, TypeOK
    <2>9. MappedOf(d)
      BY <1>0
    <2>10. MappedOf(d)'
      <3>1. ASSUME NEW s \in attached'[d]
            PROVE  \/ \E k \in Kinds : s = <<d, k>> /\ newKey'[d][k] # None
                   \/ \E k \in Kinds : s = oldSegment'[d][k]
                   \/ Registered(dataset[d], "static")' /\ s = Leads(dataset[d], "static")'
        <4>1. CASE s \in attached[d]
          BY <2>7, <2>8, <2>9, <4>1 DEF MappedOf
        <4>2. ASSUME NEW k \in Kinds, NEW key \in ShmKey, SetupStep(d, k, key), s = <<d, k>>
              PROVE  newKey'[d][k] # None
          BY ONLY <4>2, DataUpdateAssumption DEF SetupStep
        <4>3. CASE ReuseStep(d) /\ s = Leads(dataset[d], "static")
          <5>1. Registered(dataset[d], "static")
            BY ONLY <4>3 DEF ReuseStep
          <5>. QED
            BY <2>7, <4>3, <5>1
        <4>4. ASSUME NEW k \in Kinds, PublishStep(d, k), Registered(dataset[d], k),
                     s = Leads(dataset[d], k)
              PROVE  s = oldSegment'[d][k]
          BY <2>3, <4>4
        <4>5. MapStep(d)
          BY <1>3, MapForms
        <4>. QED
          BY ONLY <1>3, <3>1, <4>1, <4>2, <4>3, <4>4, <4>5 DEF MapStep
      <3>. QED
        BY ONLY <2>2, <3>1 DEF MappedOf
    <2>. QED
      BY <2>5, <2>10
  <1>4. ASSUME NEW d \in Datastores, StoreAction(d) PROVE AttachedInv'
    <2>1. \A e \in Datastores : MappedOf(e)' /\ \A k \in Kinds : ReplacedOf(e, k)'
      BY <1>1, <1>2, <1>3, <1>4
    <2>. QED
      BY ONLY <2>1 DEF AttachedInv, MappedOf, ReplacedOf
  <1>5. ASSUME UNCHANGED registerSide PROVE AttachedInv'
    BY <1>5 DEF ResourceInv, AttachedInv, registerSide, Registered, Newest, Leads
  <1>. QED
    BY <1>4, <1>5, StepCases, WatchFrame

-----------------------------------------------------------------------------

\* A datastore that has failed does nothing any more.
LEMMA FailureStays == UpdateInv /\ [Next]_vars /\ NoFailure' => NoFailure
  <1>. SUFFICES ASSUME UpdateInv, [Next]_vars, NoFailure', NEW e \in Datastores
                PROVE  dpc[e] \notin {"killed", "failed", "timedout"}
    BY DEF NoFailure
  <1>1. dpc'[e] \notin {"killed", "failed", "timedout"}
    BY DEF NoFailure
  <1>2. ASSUME NEW d \in Datastores, StoreAction(d)
        PROVE  dpc[e] \notin {"killed", "failed", "timedout"}
    <2>1. CASE e # d
      BY <1>1, <1>2, <2>1, OtherStores
    <2>2. CASE e = d
      BY <1>2, <2>2, StoreMoves DEF StoreControl, LockedPCs, StorePCs, FinalPCs
    <2>. QED
      BY <2>1, <2>2
  <1>3. ASSUME UNCHANGED registerSide PROVE dpc[e] \notin {"killed", "failed", "timedout"}
    BY <1>1, <1>3 DEF registerSide
  <1>. QED
    BY <1>2, <1>3, StepCases, WatchFrame

\* A datastore that ends without a failure has finished its clean-up.
LEMMA EndsFinished ==
    ASSUME UpdateInv, NEW d \in Datastores, StoreAction(d), NoFailure', dpc'[d] \in FinalPCs
    PROVE  Finish(d)
  <1>1. dpc'[d] = "done"
    BY DEF NoFailure, FinalPCs
  <1>2. dpc \in [Datastores -> StorePCs]
    BY DEF UpdateInv, TypeOK
  <1>3. ~ (\/ Start(d) \/ AcquireFileLock(d) \/ OpenMonitor(d) \/ ReuseStatic(d) \/ SetupStatic(d)
           \/ SetupUpdatable(d) \/ Populate(d) \/ LockMonitor(d) \/ UnlockMonitor(d) \/ NotifyAll(d)
           \/ RemoveOld(d) \/ WaitForDetach(d)
           \/ \E k \in Kinds : RegisterRegion(d, k) \/ ReplaceRegion(d, k))
    BY ONLY <1>1, <1>2, d \in Datastores
       DEF Start, AcquireFileLock, OpenMonitor, ReuseStatic, SetupStatic, SetupUpdatable, Populate,
           LockMonitor, UnlockMonitor, NotifyAll, RemoveOld, WaitForDetach, RegisterRegion,
           ReplaceRegion, AfterSwapPC
  <1>4. ~ (\/ ReuseStaticThrows(d) \/ ReserveKeyThrows(d) \/ InputError(d) \/ InputAborts(d)
             \/ LockTimeout(d)
           \/ KillDatastore(d) \/ TerminateDatastore(d)
           \/ \E k \in Kinds : RegisterThrows(d, k))
    BY ONLY <1>1, <1>2, d \in Datastores
       DEF ReuseStaticThrows, ReserveKeyThrows, InputError, InputAborts, Abort, ReadsFiles,
           LockTimeout, KillDatastore,
           TerminateDatastore, RegisterThrows, Exit
  <1>. QED
    BY ONLY <1>3, <1>4, StoreAction(d) DEF StoreAction, StoreStep

\* What is live stays live as long as a routed process maps it.
LEMMA LiveStays ==
    ASSUME UpdateInv, NEW d \in Datastores, StoreAction(d), NoFailure', created' = created,
           NEW ds \in Datasets, NEW k \in Kinds, NEW s \in Live(ds, k), MappedByOthers(d, s)
    PROVE  s \in Live(ds, k)'
  <1>0. s \in Segments /\ s # None
    BY DataUpdateAssumption DEF Live
  <1>1. ASSUME Registered(ds, k), s = Leads(ds, k) PROVE s \in Live(ds, k)'
    <2>1. CASE OtherStep(d)
      <3>1. /\ created' = created /\ regions' = regions
            /\ bound'[Newest(ds, k).shm_key] = Leads(ds, k)
        BY <1>1, <2>1, RegisterKept
      <3>. QED
        BY ONLY <1>0, <1>1, <3>1 DEF Live, Registered, Newest, Leads
    <2>2. ~ MonitorStep(d)
      <3>1. created \in Nat
        BY DataUpdateAssumption DEF UpdateInv, TypeOK
      <3>. QED
        BY <3>1 DEF MonitorStep
    <2>3. ASSUME NEW j \in Kinds, PublishStep(d, j) PROVE s \in Live(ds, k)'
      <3>1. /\ UNCHANGED <<created, bound>> /\ dataset[d] \in Datasets
            /\ \A x \in Datasets, i \in Kinds : ~ (x = dataset[d] /\ i = j) =>
                 regions'[created][<<x, i>>] = Newest(x, i)
        BY ONLY UpdateInv, d \in Datastores, <2>3, j \in Kinds, PublishEffect
      <3>2. CASE ds = dataset[d] /\ k = j
        <4>1. /\ dpc'[d] = AfterSwapPC(j) /\ dataset'[d] = dataset[d]
              /\ oldSegment'[d][j] = Leads(dataset[d], j)
          BY ONLY <1>1, <2>3, <3>2 DEF PublishStep, KeepJob
        <4>2. dpc'[d] \in CleanupPCs
          BY ONLY <4>1 DEF AfterSwapPC, CleanupPCs
        <4>. QED
          BY ONLY <1>0, <1>1, <3>2, <4>1, <4>2, d \in Datastores DEF Live
      <3>3. CASE ~ (ds = dataset[d] /\ k = j)
        <4>1. regions'[created][<<ds, k>>] = Newest(ds, k)
          BY ONLY <3>1, <3>3, ds \in Datasets, k \in Kinds
        <4>. QED
          BY ONLY <1>0, <1>1, <3>1, <4>1 DEF Live, Registered, Newest, Leads
      <3>. QED
        BY <3>2, <3>3
    <2>. QED
      BY <2>1, <2>2, <2>3, RegisterCases
  <1>2. ASSUME NEW x \in Datastores, dpc[x] \in CleanupPCs, dataset[x] = ds, s = oldSegment[x][k]
        PROVE  s \in Live(ds, k)'
    <2>1. CASE x # d
      <3>1. dpc'[x] = dpc[x] /\ dataset'[x] = dataset[x] /\ oldSegment'[x] = oldSegment[x]
        BY <2>1, OtherStores
      <3>. QED
        BY ONLY <1>0, <1>2, <3>1, x \in Datastores DEF Live
    <2>2. CASE x = d /\ dpc'[d] \in FinalPCs
      <3>1. Finish(d)
        BY <2>2, EndsFinished
      <3>2. dpc[d] = "remove" /\ oldKey[d][k] = None
        BY ONLY <3>1, k \in Kinds DEF Finish, NoKeys
      <3>3. ~ MappedByOthers(d, oldSegment[d][k])
        BY <1>0, <1>2, <2>2, <3>2 DEF UpdateInv, AllClientsSwitched
      <3>. QED
        BY <1>2, <2>2, <3>3
    <2>3. CASE x = d /\ dpc'[d] \notin FinalPCs
      <3>1. dpc[d] \in LockedPCs
        BY <1>2, <2>3 DEF CleanupPCs, LockedPCs, StorePCs, FinalPCs
      <3>2. dataset'[d] = dataset[d] /\ oldSegment'[d][k] = oldSegment[d][k]
        BY <1>0, <1>2, <2>3, <3>1, HandlesGrow
      <3>3. dpc'[d] \in CleanupPCs
        BY ONLY <1>2, <2>3, UpdateInv, StoreAction(d), d \in Datastores, StoreForms
           DEF StartStep, ExitStep, TimeoutStep, MoveStep, PopulateStep, ReuseStep, MonitorStep,
               SetupStep, PublishStep, RemoveStep, DetachStep, CleanupPCs, AfterSwapPC
      <3>. QED
        BY ONLY <1>0, <1>2, <2>3, <3>2, <3>3, x \in Datastores DEF Live
    <2>. QED
      BY <2>1, <2>2, <2>3
  <1>. QED
    BY <1>1, <1>2 DEF Live

\* Before the first monitor nothing is live.
LEMMA NothingLive ==
    ASSUME UpdateInv, created = 0, NEW ds, NEW k
    PROVE  Live(ds, k) = {}
  <1>1. created \notin Monitors
    BY DEF Monitors
  <1>2. \A x \in Datastores : dpc[x] \notin CleanupPCs
    BY <1>1, ActiveStore DEF CleanupPCs, LockedPCs, StorePCs, FinalPCs
  <1>. QED
    BY <1>1, <1>2 DEF Live, Registered

\* Without failures a routed process maps live segments only.
LEMMA ViewNext == UpdateInv /\ ResourceInv /\ [Next]_vars /\ NoFailure' => ViewInv'
  <1>. SUFFICES ASSUME UpdateInv, ResourceInv, [Next]_vars, NoFailure', created' <= 1,
                       NEW w \in Watchers, NEW k \in Kinds
                PROVE  /\ facade'[w][k] \in Live(WatchedDataset[w], k)' \cup {None}
                       /\ \A q \in Queries :
                            query'[w][q][k] \in Live(WatchedDataset[w], k)' \cup {None}
    BY DEF ViewInv
  <1>. DEFINE ds == WatchedDataset[w]
  <1>0. NoFailure /\ ViewInv
    BY FailureStays DEF ResourceInv
  <1>00. ds \in Datasets /\ created \in Nat
    BY DataUpdateAssumption DEF UpdateInv, TypeOK
  <1>. HIDE DEF ds
  <1>1. ASSUME created <= 1
        PROVE  /\ facade[w][k] \in Live(ds, k) \cup {None}
               /\ \A q \in Queries : query[w][q][k] \in Live(ds, k) \cup {None}
    BY <1>0, <1>1 DEF ViewInv, ds
  <1>2. ASSUME NEW d \in Datastores, StoreAction(d)
        PROVE  /\ facade'[w][k] \in Live(ds, k)' \cup {None}
               /\ \A q \in Queries : query'[w][q][k] \in Live(ds, k)' \cup {None}
    <2>1. facade' = facade /\ query' = query
      BY <1>2, StoreFrame
    <2>2. CASE created' = created
      <3>1. ASSUME NEW s \in Live(ds, k), s = facade[w][k] \/ \E q \in Queries : s = query[w][q][k]
            PROVE  s \in Live(ds, k)'
        <4>1. MappedByOthers(d, s)
          BY <3>1 DEF MappedByOthers
        <4>. QED
          BY <1>00, <1>2, <2>2, <3>1, <4>1, LiveStays
      <3>. QED
        BY ONLY <1>1, <2>1, <2>2, <3>1, created' <= 1
    <2>3. CASE created' # created
      <3>1. created' = created + 1
        BY <1>2, <2>3, StoreEffect
      <3>2. created = 0
        BY <1>00, <3>1
      <3>3. Live(ds, k) = {}
        BY <3>2, NothingLive
      <3>. QED
        BY ONLY <1>1, <2>1, <3>2, <3>3
    <2>. QED
      BY <2>2, <2>3
  <1>3. ASSUME UNCHANGED registerSide PROVE Live(ds, k)' = Live(ds, k) /\ created <= 1
    <2>1. UNCHANGED <<created, regions, bound, dpc, dataset, oldSegment>>
      BY ONLY <1>3 DEF registerSide
    <2>2. Live(ds, k)' = Live(ds, k)
      BY ONLY <2>1 DEF Live, Registered, Newest, Leads
    <2>. QED
      BY ONLY <2>1, <2>2, created' <= 1
  <1>4. ASSUME UNCHANGED registerSide, facade'[w][k] \in {facade[w][k], None},
               \A q \in Queries : query'[w][q][k] \in {query[w][q][k], facade[w][k], None}
        PROVE  /\ facade'[w][k] \in Live(ds, k)' \cup {None}
               /\ \A q \in Queries : query'[w][q][k] \in Live(ds, k)' \cup {None}
    BY <1>1, <1>3, <1>4
  <1>5. ASSUME NEW v \in Watchers, WatchAction(v)
        PROVE  /\ facade'[w][k] \in Live(ds, k)' \cup {None}
               /\ \A q \in Queries : query'[w][q][k] \in Live(ds, k)' \cup {None}
    <2>1. UNCHANGED registerSide
      BY <1>5, WatchFrame
    <2>2. CASE v # w
      <3>1. facade'[w] = facade[w] /\ query'[w] = query[w]
        BY <1>5, <2>2, OtherWatchers
      <3>. QED
        BY <1>4, <2>1, <3>1
    <2>3. CASE v = w /\ ~ AttachStep(w)
      <3>1. /\ facade'[w][k] \in {facade[w][k], None}
            /\ \A q \in Queries : query'[w][q][k] \in {query[w][q][k], facade[w][k], None}
        BY ONLY <1>5, <2>3, UpdateInv, k \in Kinds, WatchForms
           DEF OpenStep, FindStep, CopyStep, StepOn, DieStep, QueryStep, KeepView, NoFacade
      <3>. QED
        BY <1>4, <2>1, <3>1
    <2>4. CASE v = w /\ AttachStep(w)
      <3>1. /\ wpc[w] \in {"ctorAttach", "attach"}
            /\ facade'[w] = Target(w) /\ query'[w] = query[w]
        BY ONLY <2>4 DEF AttachStep
      <3>2. wmon[w] = created
        <4>1. wmon[w] \in Monitors /\ wmon[w] <= created
          BY <3>1 DEF UpdateInv, MonitorInv
        <4>. QED
          BY <1>00, <1>3, <2>1, <4>1, DataUpdateAssumption DEF Monitors
      <3>3. Registered(ds, k) /\ region[w][k] = Newest(ds, k)
        BY <3>1, <3>2 DEF UpdateInv, CopyInv, RunningPCs, ds
      <3>4. facade'[w][k] = Leads(ds, k)
        BY ONLY <3>1, <3>3, k \in Kinds DEF Target, Leads
      <3>5. Leads(ds, k) \in Segments
        BY <1>00, <3>3, RegisteredRegion
      <3>6. Leads(ds, k) \in Live(ds, k)
        BY ONLY <3>3, <3>5 DEF Live
      <3>. QED
        BY ONLY <1>1, <1>3, <2>1, <3>1, <3>4, <3>6
    <2>. QED
      BY <2>2, <2>3, <2>4
  <1>6. ASSUME UNCHANGED <<registerSide, mutex, waiting, watchVars>>
        PROVE  /\ facade'[w][k] \in Live(ds, k)' \cup {None}
               /\ \A q \in Queries : query'[w][q][k] \in Live(ds, k)' \cup {None}
    BY <1>4, <1>6
  <1>. QED
    BY <1>2, <1>5, <1>6, StepCases DEF ds

-----------------------------------------------------------------------------

\* Datastore d has the key in one of its handles.
Hands(d, key) == \E k \in Kinds : newKey[d][k] = key \/ oldKey[d][k] = key

\* What KeyInv says of a monitor and a key.
KeyOf(m, key) == key \in keyInUse[m] <=> HasKey(m, key) \/ HoldsKey(m, key)

\* Only the datastore at work has keys, and it works on the newest monitor.
LEMMA OnlyActiveHolds ==
    ASSUME UpdateInv, HandleInv, NEW d \in Datastores, NEW key \in ShmKey, Hands(d, key)
    PROVE  dpc[d] \in LockedPCs \ {"open", "static"} /\ fileLock = d /\ dmon[d] = created
  <1>1. key # None
    BY DataUpdateAssumption
  <1>2. dpc[d] \notin BeforeSetup("static") \cup FinalPCs
    BY <1>1 DEF HandleInv, Hands, NoKeys
  <1>3. dpc[d] \in StorePCs
    BY DEF UpdateInv, TypeOK
  <1>4. dpc[d] \in LockedPCs \ {"open", "static"}
    BY ONLY <1>2, <1>3 DEF BeforeSetup, LockedPCs
  <1>. QED
    BY <1>4, ActiveStore

\* Steps that leave the register's keys and the datastore's handles as they are.
QuietStep(d) ==
    StartStep(d) \/ MoveStep(d) \/ PopulateStep(d) \/ ReuseStep(d) \/ MonitorStep(d) \/ RemoveStep(d)

\* They keep every key accounted for.
LEMMA QuietKeys ==
    ASSUME UpdateInv, ResourceInv, NEW d \in Datastores, StoreAction(d), QuietStep(d),
           NEW m \in Monitors, NEW key \in ShmKey, KeyOf(m, key)
    PROVE  KeyOf(m, key)'
  <1>0. HandleInv
    BY DEF ResourceInv
  <1>1. /\ regions' = regions /\ keyInUse' = keyInUse
        /\ newKey'[d] = newKey[d] /\ oldKey'[d] = oldKey[d]
    BY ONLY QuietStep(d)
       DEF QuietStep, StartStep, MoveStep, PopulateStep, ReuseStep, MonitorStep, RemoveStep,
           KeepRegister, KeepHandles
  <1>2. \A e \in Datastores : Hands(e, key)' <=> Hands(e, key)
    <2>1. \A e \in Datastores : newKey'[e] = newKey[e] /\ oldKey'[e] = oldKey[e]
      BY <1>1, OtherStores
    <2>. QED
      BY ONLY <2>1 DEF Hands
  <1>3. \A e \in Datastores : Hands(e, key) => dmon'[e] = dmon[e]
    <2>1. Hands(d, key) => dmon'[d] = dmon[d]
      BY <1>0, OnlyActiveHolds, StoreMoves DEF StoreControl, LockedPCs, StorePCs, FinalPCs
    <2>. QED
      BY <2>1, OtherStores
  <1>4. HoldsKey(m, key)' <=> HoldsKey(m, key)
    <2>1. HoldsKey(m, key) <=> \E e \in Datastores : dmon[e] = m /\ Hands(e, key)
      BY DEF HoldsKey, Hands
    <2>2. HoldsKey(m, key)' <=> \E e \in Datastores : dmon'[e] = m /\ Hands(e, key)'
      BY DEF HoldsKey, Hands
    <2>. QED
      BY ONLY <1>2, <1>3, <2>1, <2>2
  <1>5. HasKey(m, key)' <=> HasKey(m, key)
    BY <1>1 DEF HasKey, Find
  <1>. QED
    BY <1>1, <1>4, <1>5 DEF KeyOf

\* The keys of a datastore that finishes are registered: they are accounted for without it.
LEMMA FinishKeys ==
    ASSUME UpdateInv, ResourceInv, NEW d \in Datastores, StoreAction(d), Finish(d),
           NEW m \in Monitors, NEW key \in ShmKey, KeyOf(m, key)
    PROVE  KeyOf(m, key)'
  <1>0. HandleInv /\ key # None
    BY DataUpdateAssumption DEF ResourceInv
  <1>1. /\ regions' = regions /\ keyInUse' = keyInUse /\ dmon' = dmon
        /\ dpc[d] = "remove" /\ oldKey[d] = NoKeys
    BY DEF Finish, Exit
  <1>2. newKey'[d] = NoKeys /\ oldKey'[d] = NoKeys
    BY DEF Finish, Exit, UpdateInv, TypeOK
  <1>3. ~ Hands(d, key)'
    BY ONLY <1>0, <1>2 DEF Hands, NoKeys
  <1>4. \A e \in Datastores : e # d => (Hands(e, key)' <=> Hands(e, key))
    <2>1. \A e \in Datastores : e # d => newKey'[e] = newKey[e] /\ oldKey'[e] = oldKey[e]
      BY OtherStores
    <2>. QED
      BY ONLY <2>1 DEF Hands
  <1>5. ASSUME Hands(d, key), dmon[d] = m PROVE HasKey(m, key)
    <2>1. PICK k \in Kinds : newKey[d][k] = key
      BY <1>0, <1>1, <1>5 DEF Hands, NoKeys
    <2>2. Registered(dataset[d], k) /\ key = Newest(dataset[d], k).shm_key
      BY <1>0, <1>1, <2>1 DEF ResourceInv, PublishedInv, AfterSwap, CleanupPCs, SwapPC
    <2>3. m = created /\ dataset[d] \in Datasets
      BY <1>1, <1>5, ActiveStore DEF LockedPCs, StorePCs, FinalPCs
    <2>. QED
      BY <2>2, <2>3 DEF HasKey, Registered, Newest, Find, Names
  <1>6. /\ HoldsKey(m, key)' => HoldsKey(m, key)
        /\ HoldsKey(m, key) => HoldsKey(m, key)' \/ HasKey(m, key)
    <2>1. HoldsKey(m, key) <=> \E e \in Datastores : dmon[e] = m /\ Hands(e, key)
      BY DEF HoldsKey, Hands
    <2>2. HoldsKey(m, key)' <=> \E e \in Datastores : dmon'[e] = m /\ Hands(e, key)'
      BY DEF HoldsKey, Hands
    <2>. QED
      BY ONLY <1>1, <1>3, <1>4, <1>5, <2>1, <2>2
  <1>7. HasKey(m, key)' <=> HasKey(m, key)
    BY <1>1 DEF HasKey, Find
  <1>. QED
    BY <1>1, <1>6, <1>7 DEF KeyOf

\* In the steps that move keys, no other datastore has any, and no other monitor is touched.
LEMMA ActiveKeys ==
    ASSUME UpdateInv, ResourceInv, NEW d \in Datastores, StoreAction(d),
           dpc[d] \in LockedPCs \ {"open"}, dpc'[d] \in LockedPCs \ {"open"},
           NEW m \in Monitors, NEW key \in ShmKey
    PROVE  /\ HoldsKey(m, key) <=> m = created /\ Hands(d, key)
           /\ HoldsKey(m, key)' <=> m = created /\ Hands(d, key)'
           /\ m # created => (HasKey(m, key)' <=> HasKey(m, key)) /\ keyInUse'[m] = keyInUse[m]
  <1>0. HandleInv
    BY DEF ResourceInv
  <1>1. dmon[d] = created /\ fileLock = d
    BY ActiveStore
  <1>2. dmon' = dmon
    BY StoreMoves DEF StoreControl, LockedPCs, FinalPCs, StorePCs
  <1>3. \A e \in Datastores : Hands(e, key) => e = d
    BY <1>0, <1>1, OnlyActiveHolds
  <1>4. \A e \in Datastores : e # d => (Hands(e, key)' <=> Hands(e, key))
    <2>1. \A e \in Datastores : e # d => newKey'[e] = newKey[e] /\ oldKey'[e] = oldKey[e]
      BY OtherStores
    <2>. QED
      BY ONLY <2>1 DEF Hands
  <1>5. HoldsKey(m, key) <=> \E e \in Datastores : dmon[e] = m /\ Hands(e, key)
    BY DEF HoldsKey, Hands
  <1>6. HoldsKey(m, key)' <=> \E e \in Datastores : dmon'[e] = m /\ Hands(e, key)'
    BY DEF HoldsKey, Hands
  <1>7. m # created => regions'[m] = regions[m] /\ keyInUse'[m] = keyInUse[m]
    BY StoreEffect
  <1>8. m # created => (HasKey(m, key)' <=> HasKey(m, key))
    BY ONLY <1>7 DEF HasKey, Find
  <1>. QED
    BY ONLY <1>1, <1>2, <1>3, <1>4, <1>5, <1>6, <1>7, <1>8, d \in Datastores

\* The key that setupRegion reserves goes into the new handle.
LEMMA SetupKeys ==
    ASSUME UpdateInv, ResourceInv, NEW d \in Datastores, StoreAction(d),
           NEW k \in Kinds, NEW new \in ShmKey, SetupStep(d, k, new),
           NEW m \in Monitors, NEW key \in ShmKey, KeyOf(m, key)
    PROVE  KeyOf(m, key)'
  <1>1. /\ dpc[d] \in LockedPCs \ {"open"} /\ dpc'[d] \in LockedPCs \ {"open"}
        /\ dpc[d] \in BeforeSetup(k)
    BY ONLY SetupStep(d, k, new) DEF SetupStep, LockedPCs, StorePCs, FinalPCs, BeforeSetup
  <1>2. /\ HoldsKey(m, key) <=> m = created /\ Hands(d, key)
        /\ HoldsKey(m, key)' <=> m = created /\ Hands(d, key)'
        /\ m # created => (HasKey(m, key)' <=> HasKey(m, key)) /\ keyInUse'[m] = keyInUse[m]
    BY <1>1, ActiveKeys
  <1>3. /\ keyInUse'[created] = keyInUse[created] \cup {new} /\ regions' = regions
        /\ newKey'[d][k] = new /\ \A j \in Kinds : j # k => newKey'[d][j] = newKey[d][j]
        /\ oldKey'[d] = oldKey[d]
    BY ONLY SetupStep(d, k, new) DEF SetupStep
  <1>4. newKey[d][k] = None /\ key # None
    BY <1>1, DataUpdateAssumption DEF UpdateInv, NoKeyInv
  <1>5. Hands(d, key)' <=> Hands(d, key) \/ key = new
    BY ONLY <1>3, <1>4, k \in Kinds DEF Hands
  <1>6. HasKey(m, key)' <=> HasKey(m, key)
    BY <1>3 DEF HasKey, Find
  <1>. QED
    BY ONLY <1>2, <1>3, <1>5, <1>6, KeyOf(m, key) DEF KeyOf

\* Publishing moves the new key from the handle into the register and the old one out of it.
LEMMA PublishKeys ==
    ASSUME UpdateInv, ResourceInv, NEW d \in Datastores, StoreAction(d),
           NEW k \in Kinds, PublishStep(d, k),
           NEW m \in Monitors, NEW key \in ShmKey, KeyOf(m, key)
    PROVE  KeyOf(m, key)'
  <1>1. dpc[d] \in LockedPCs \ {"open"} /\ dpc'[d] \in LockedPCs \ {"open"} /\ dpc[d] = SwapPC(k)
    BY ONLY PublishStep(d, k) DEF PublishStep, SwapPC, AfterSwapPC, LockedPCs, StorePCs, FinalPCs
  <1>2. /\ HoldsKey(m, key) <=> m = created /\ Hands(d, key)
        /\ HoldsKey(m, key)' <=> m = created /\ Hands(d, key)'
        /\ m # created => (HasKey(m, key)' <=> HasKey(m, key)) /\ keyInUse'[m] = keyInUse[m]
    BY <1>1, ActiveKeys
  <1>. DEFINE name == <<dataset[d], k>>
  <1>3. /\ dataset[d] \in Datasets /\ UNCHANGED <<created, keyInUse>>
        /\ regions'[created][name].timestamp = Newest(dataset[d], k).timestamp + 1
        /\ Newest(dataset[d], k).timestamp \in Nat
        /\ regions'[created][name].shm_key = newKey[d][k]
        /\ \A ds \in Datasets, j \in Kinds :
             ~ (ds = dataset[d] /\ j = k) => regions'[created][<<ds, j>>] = Newest(ds, j)
    BY ONLY UpdateInv, d \in Datastores, k \in Kinds, PublishStep(d, k), PublishEffect
  <1>4. /\ newKey'[d] = newKey[d]
        /\ \A j \in Kinds : j # k => oldKey'[d][j] = oldKey[d][j]
        /\ Registered(dataset[d], k) => oldKey'[d][k] = Newest(dataset[d], k).shm_key
        /\ ~ Registered(dataset[d], k) => oldKey'[d][k] = oldKey[d][k]
    BY ONLY PublishStep(d, k) DEF PublishStep
  <1>5. oldKey[d][k] = None /\ key # None /\ name \in Names
    BY <1>1, <1>3, DataUpdateAssumption DEF UpdateInv, OldKeyInv, Names
  <1>6. /\ \A n \in Names : n # name => regions'[created][n] = regions[created][n]
        /\ Find(regions'[created], name) /\ regions'[created][name].shm_key = newKey[d][k]
    <2>1. regions'[created][name].timestamp # 0
      BY ONLY <1>3
    <2>. QED
      BY ONLY <1>3, <2>1 DEF Names, Newest, Find, IsEmpty
  <1>7. Registered(dataset[d], k) <=> created \in Monitors /\ Find(regions[created], name)
    BY DEF Registered, Newest, Find
  <1>8. Newest(dataset[d], k) = regions[created][name]
    BY DEF Newest
  <1>. HIDE DEF name
  <1>9. HasKey(created, key)' <=>
           \/ key = newKey[d][k]
           \/ \E n \in Names : n # name /\ Find(regions[created], n) /\ regions[created][n].shm_key = key
    <2>1. HasKey(created, key)' <=>
            \E n \in Names : Find(regions'[created], n) /\ regions'[created][n].shm_key = key
      BY <1>3 DEF HasKey, Find
    <2>2. \A n \in Names : n # name => (Find(regions'[created], n) <=> Find(regions[created], n))
      BY ONLY <1>6 DEF Find
    <2>. QED
      BY ONLY <1>5, <1>6, <2>1, <2>2
  <1>10. HasKey(created, key) <=>
           \/ Find(regions[created], name) /\ key = regions[created][name].shm_key
           \/ \E n \in Names : n # name /\ Find(regions[created], n) /\ regions[created][n].shm_key = key
    BY ONLY <1>5 DEF HasKey
  <1>11. Hands(d, key)' <=>
           Hands(d, key) \/ (Registered(dataset[d], k) /\ key = regions[created][name].shm_key)
    BY ONLY <1>4, <1>5, <1>8, k \in Kinds DEF Hands
  <1>12. key = newKey[d][k] => Hands(d, key)
    BY DEF Hands
  <1>13. CASE m = created
    BY ONLY <1>2, <1>3, <1>7, <1>9, <1>10, <1>11, <1>12, <1>13, KeyOf(m, key), m \in Monitors DEF KeyOf
  <1>14. CASE m # created
    BY ONLY <1>2, <1>14, KeyOf(m, key) DEF KeyOf
  <1>. QED
    BY <1>13, <1>14

\* The key that is released after WaitForDetach is in no region and in no other handle.
LEMMA DetachKeys ==
    ASSUME UpdateInv, ResourceInv, NEW d \in Datastores, StoreAction(d), DetachStep(d),
           NEW m \in Monitors, NEW key \in ShmKey, KeyOf(m, key)
    PROVE  KeyOf(m, key)'
  <1>. DEFINE k == OldKind(d)
              old == oldKey[d][k]
  <1>1. /\ dpc[d] \in LockedPCs \ {"open"} /\ dpc'[d] \in LockedPCs \ {"open"}
        /\ dpc[d] = "detach"
    BY ONLY DetachStep(d) DEF DetachStep, LockedPCs, StorePCs, FinalPCs
  <1>2. /\ HoldsKey(m, key) <=> m = created /\ Hands(d, key)
        /\ HoldsKey(m, key)' <=> m = created /\ Hands(d, key)'
        /\ m # created => (HasKey(m, key)' <=> HasKey(m, key)) /\ keyInUse'[m] = keyInUse[m]
    BY <1>1, ActiveKeys
  <1>3. /\ k \in Kinds /\ old # None /\ old \in ShmKey
        /\ \A ds \in Datasets, j \in Kinds : Registered(ds, j) => Newest(ds, j).shm_key # old
    BY CleanupKey
  <1>4. /\ keyInUse'[created] = keyInUse[created] \ {old} /\ regions' = regions
        /\ newKey'[d] = newKey[d] /\ oldKey'[d][k] = None
        /\ \A j \in Kinds : j # k => oldKey'[d][j] = oldKey[d][j]
    BY ONLY DetachStep(d) DEF DetachStep
  <1>5. created \in Monitors /\ dataset[d] \in Datasets /\ key # None
    BY <1>1, ActiveStore, DataUpdateAssumption
  <1>6. ~ HasKey(created, old)
    BY <1>3, <1>5 DEF HasKey, Registered, Newest, Find, Names
  <1>7. \A j \in Kinds : newKey[d][j] # old
    <2>1. ASSUME NEW j \in Kinds, newKey[d][j] = old PROVE FALSE
      <3>1. Registered(dataset[d], j) /\ newKey[d][j] = Newest(dataset[d], j).shm_key
        BY <1>1, <1>3, <2>1 DEF ResourceInv, PublishedInv, AfterSwap, CleanupPCs, SwapPC
      <3>. QED
        BY <1>3, <1>5, <2>1, <3>1
    <2>. QED
      BY <2>1
  <1>8. \A j \in Kinds : j # k => oldKey[d][j] # old
    <2>1. bound[old] = None
      BY <1>1, <1>3 DEF UpdateInv, OldKeyInv
    <2>2. ASSUME NEW j \in Kinds, j # k, oldKey[d][j] = old PROVE FALSE
      <3>1. bound[oldKey[d][j]] = oldSegment[d][j] /\ \E e \in Datastores : oldSegment[d][j] = <<e, j>>
        BY <1>3, <2>2 DEF UpdateInv, OldKeyInv
      <3>2. \A e \in Datastores : <<e, j>> # None
        BY DataUpdateAssumption DEF Segments
      <3>. QED
        BY <2>1, <2>2, <3>1, <3>2
    <2>. QED
      BY <2>2
  <1>9. HasKey(m, key)' <=> HasKey(m, key)
    BY <1>4 DEF HasKey, Find
  <1>. HIDE DEF k, old
  <1>10. Hands(d, key)' <=> Hands(d, key) /\ key # old
    <2>1. old = oldKey[d][k]
      BY DEF old
    <2>. QED
      BY ONLY <1>3, <1>4, <1>5, <1>7, <1>8, <2>1 DEF Hands
  <1>. QED
    BY ONLY <1>2, <1>4, <1>6, <1>9, <1>10, KeyOf(m, key) DEF KeyOf

\* Without failures every key stays accounted for.
LEMMA KeyNext == UpdateInv /\ ResourceInv /\ [Next]_vars /\ NoFailure' => KeyInv'
  <1>. SUFFICES ASSUME UpdateInv, ResourceInv, [Next]_vars, NoFailure',
                       NEW m \in Monitors, NEW key \in ShmKey
                PROVE  KeyOf(m, key)'
    BY DEF KeyInv, KeyOf
  <1>0. KeyOf(m, key)
    BY FailureStays DEF ResourceInv, KeyInv, KeyOf
  <1>1. ASSUME NEW d \in Datastores, StoreAction(d) PROVE KeyOf(m, key)'
    <2>1. CASE QuietStep(d)
      BY <1>0, <1>1, <2>1, QuietKeys
    <2>2. CASE ExitStep(d) \/ TimeoutStep(d)
      <3>1. Finish(d)
        BY <1>1, <2>2, EndsFinished DEF ExitStep, TimeoutStep, FinalPCs
      <3>. QED
        BY <1>0, <1>1, <3>1, FinishKeys
    <2>3. ASSUME NEW k \in Kinds, NEW new \in ShmKey, SetupStep(d, k, new) PROVE KeyOf(m, key)'
      BY <1>0, <1>1, <2>3, SetupKeys
    <2>4. ASSUME NEW k \in Kinds, PublishStep(d, k) PROVE KeyOf(m, key)'
      BY <1>0, <1>1, <2>4, PublishKeys
    <2>5. CASE DetachStep(d)
      BY <1>0, <1>1, <2>5, DetachKeys
    <2>. QED
      BY <1>1, <2>1, <2>2, <2>3, <2>4, <2>5, StoreForms DEF QuietStep
  <1>2. ASSUME UNCHANGED registerSide PROVE KeyOf(m, key)'
    BY ONLY <1>0, <1>2 DEF registerSide, KeyOf, HasKey, HoldsKey, Find
  <1>. QED
    BY <1>1, <1>2, StepCases, WatchFrame

-----------------------------------------------------------------------------

\* The invariant holds initially.
LEMMA InitResource == Init => ResourceInv
  <1>. SUFFICES ASSUME Init PROVE ResourceInv
    OBVIOUS
  <1>0. \A m \in Monitors, n \in Names : ~ Find(regions[m], n)
    BY DEF Init, Find, IsEmpty, EmptyRegion
  <1>1. HandleInv
    BY DEF Init, HandleInv
  <1>2. PublishedInv
    BY DEF Init, PublishedInv, AfterSwap, CleanupPCs
  <1>3. FoundInv
    <2>1. \A m \in Monitors : FoundNames(m) = {}
      BY <1>0 DEF FoundNames
    <2>. QED
      BY <2>1, FS_EmptySet, MaxSharedRegionsAssumption DEF FoundInv
  <1>4. PairedInv
    BY <1>0 DEF PairedInv, Names, Kinds
  <1>5. AttachedInv
    BY DEF Init, AttachedInv, NoFacade
  <1>6. ViewInv
    BY DEF Init, ViewInv, NoFacade
  <1>7. KeyInv
    <2>1. ASSUME NEW m \in Monitors, NEW key \in ShmKey
          PROVE  key \notin keyInUse[m] /\ ~ HasKey(m, key) /\ ~ HoldsKey(m, key)
      <3>1. key # None
        BY DataUpdateAssumption
      <3>. QED
        BY <1>0, <3>1 DEF Init, HasKey, HoldsKey, NoKeys
    <2>. QED
      BY <2>1 DEF KeyInv
  <1>. QED
    BY <1>1, <1>2, <1>3, <1>4, <1>5, <1>6, <1>7 DEF ResourceInv

\* Every step preserves the invariant.
LEMMA ResourceNext == UpdateInv /\ ResourceInv /\ [Next]_vars => ResourceInv'
  <1>. SUFFICES ASSUME UpdateInv, ResourceInv, [Next]_vars PROVE ResourceInv'
    OBVIOUS
  <1>1. HandleInv' /\ PublishedInv' /\ FoundInv' /\ AttachedInv'
    BY HandleNext, PublishedNext, FoundNext, AttachedNext
  <1>2. MAX_SHARED_REGIONS % 2 = 0 => PairedInv'
    BY PairedNext
  <1>3. NoFailure' => ViewInv' /\ KeyInv'
    BY ViewNext, KeyNext
  <1>. QED
    BY ONLY <1>1, <1>2, <1>3 DEF ResourceInv

\* Handles, register and segments stay accounted for through every update, failure and
\* restart (Storage::Run, setupRegion and swapData, SharedRegionRegister).
THEOREM ResourceInvariant == Spec => [](UpdateInv /\ ResourceInv)
  <1>1. Init => UpdateInv /\ ResourceInv
    BY InitInv, InitResource
  <1>2. UpdateInv /\ ResourceInv /\ [Next]_vars => UpdateInv' /\ ResourceInv'
    BY InvNext, ResourceNext
  <1>. QED
    BY <1>1, <1>2, PTL DEF Spec

-----------------------------------------------------------------------------

\* Without failures shm_key_in_use marks the keys of the registered regions and of the
\* datastore at work, and no others (ReserveKey, ReleaseKey, Storage::swapData).
THEOREM AllKeysAccountedFor == Spec => []KeysAccountedFor
  <1>1. ASSUME UpdateInv, ResourceInv, NoFailure, NEW m \in Monitors
        PROVE  keyInUse[m] = RegisteredKeys(m) \cup (HandleKeys(m) \ {None})
    <2>0. \A x : x \in HandleKeys(m) <=>
                 \E d \in Datastores, k \in Kinds : dmon[d] = m /\ x \in {newKey[d][k], oldKey[d][k]}
      <3>. DEFINE D == {d \in Datastores : dmon[d] = m}
                  H == {{newKey[d][k], oldKey[d][k]} : d \in D, k \in Kinds}
      <3>1. HandleKeys(m) = UNION H
        BY DEF HandleKeys
      <3>2. \A h : h \in H <=> \E d \in D, k \in Kinds : h = {newKey[d][k], oldKey[d][k]}
        OBVIOUS
      <3>3. \A x : x \in UNION H <=> \E h \in H : x \in h
        OBVIOUS
      <3>4. \A x : x \in UNION H <=>
                  \E d \in D, k \in Kinds : x \in {newKey[d][k], oldKey[d][k]}
        <4>. HIDE DEF D, H
        <4>1. ASSUME NEW x, NEW h \in H, x \in h
              PROVE  \E d \in D, k \in Kinds : x \in {newKey[d][k], oldKey[d][k]}
          BY <3>2, <4>1
        <4>2. ASSUME NEW x, NEW d \in D, NEW k \in Kinds, x \in {newKey[d][k], oldKey[d][k]}
              PROVE  \E h \in H : x \in h
          <5>1. {newKey[d][k], oldKey[d][k]} \in H
            BY <3>2
          <5>. QED
            BY <4>2, <5>1
        <4>. QED
          BY ONLY <3>3, <4>1, <4>2
      <3>5. \A d : d \in D <=> d \in Datastores /\ dmon[d] = m
        OBVIOUS
      <3>. HIDE DEF D, H
      <3>. QED
        BY ONLY <3>1, <3>4, <3>5
    <2>1. keyInUse[m] \subseteq ShmKey
      BY <1>1 DEF UpdateInv, TypeOK
    <2>2. RegisteredKeys(m) \subseteq ShmKey
      BY <1>1 DEF UpdateInv, TypeOK, RegisteredKeys, SharedRegion
    <2>3. HandleKeys(m) \ {None} \subseteq ShmKey
      <3>1. \A d \in Datastores, k \in Kinds :
              newKey[d][k] \in ShmKey \cup {None} /\ oldKey[d][k] \in ShmKey \cup {None}
        BY <1>1 DEF UpdateInv, TypeOK
      <3>. QED
        BY ONLY <2>0, <3>1
    <2>4. ASSUME NEW key \in ShmKey
          PROVE  key \in keyInUse[m] <=> key \in RegisteredKeys(m) \cup (HandleKeys(m) \ {None})
      <3>1. key # None
        BY DataUpdateAssumption
      <3>2. key \in RegisteredKeys(m) <=> HasKey(m, key)
        BY DEF RegisteredKeys, HasKey
      <3>3. key \in HandleKeys(m) <=> HoldsKey(m, key)
        BY <2>0 DEF HoldsKey
      <3>4. key \in keyInUse[m] <=> HasKey(m, key) \/ HoldsKey(m, key)
        BY <1>1 DEF ResourceInv, KeyInv
      <3>. QED
        BY <3>1, <3>2, <3>3, <3>4
    <2>. QED
      BY <2>1, <2>2, <2>3, <2>4
  <1>2. UpdateInv /\ ResourceInv => KeysAccountedFor
    BY <1>1 DEF KeysAccountedFor
  <1>. QED
    BY <1>2, ResourceInvariant, PTL

\* The registered regions have no more keys than the array has room for.
LEMMA RegisteredKeysBounded ==
    ASSUME FoundInv, NEW m \in Monitors
    PROVE  IsFiniteSet(RegisteredKeys(m)) /\ Cardinality(RegisteredKeys(m)) <= MAX_SHARED_REGIONS
  <1>. DEFINE S == FoundNames(m)
              T == RegisteredKeys(m)
              f == [n \in S |-> regions[m][n].shm_key]
  <1>1. IsFiniteSet(S) /\ Cardinality(S) <= MAX_SHARED_REGIONS
    BY DEF FoundInv
  <1>2. T = {regions[m][n].shm_key : n \in S}
    BY DEF RegisteredKeys, FoundNames
  <1>3. f \in Surjection(S, T)
    BY <1>2 DEF Surjection
  <1>4. IsFiniteSet(T) /\ Cardinality(T) <= Cardinality(S)
    <2>. HIDE DEF S, T, f
    <2>. QED
      BY <1>1, <1>3, FS_Surjection
  <1>5. Cardinality(S) \in Nat /\ Cardinality(T) \in Nat
    BY <1>1, <1>4, FS_CardinalityType
  <1>. QED
    BY <1>1, <1>4, <1>5, MaxSharedRegionsAssumption

\* Before its second reservation the datastore at work has one key, so that one more than
\* the registered regions have are in use: with MAX_SHM_KEYS = 2 * MAX_SHARED_REGIONS and
\* room for a whole dataset ReserveKey finds a free one.
THEOREM TwiceAsManyKeysSuffice ==
    ASSUME 2 <= MAX_SHARED_REGIONS
    PROVE  Spec => []KeysSuffice
  <1>1. ASSUME UpdateInv, ResourceInv, NoFailure,
               NEW d \in Datastores, dpc[d] \in {"static", "updatable"}
        PROVE  FreeKeys(keyInUse[dmon[d]]) # {}
    <2>. DEFINE m == created
                S == RegisteredKeys(m)
                mine == newKey[d]["static"]
    <2>0. HandleInv /\ FoundInv /\ KeyInv
      BY <1>1 DEF ResourceInv
    <2>1. fileLock = d /\ dmon[d] = m /\ m \in Monitors
      BY <1>1, ActiveStore DEF LockedPCs, StorePCs, FinalPCs
    <2>2. ASSUME NEW key \in keyInUse[m] PROVE key \in S \cup {mine}
      <3>1. key \in ShmKey /\ key # None
        BY <1>1, <2>1, DataUpdateAssumption DEF UpdateInv, TypeOK
      <3>2. HasKey(m, key) \/ HoldsKey(m, key)
        BY <2>0, <2>1, <3>1 DEF KeyInv
      <3>3. HasKey(m, key) => key \in S
        BY DEF HasKey, RegisteredKeys
      <3>4. ASSUME HoldsKey(m, key) PROVE key = mine
        <4>1. PICK e \in Datastores, k \in Kinds : newKey[e][k] = key \/ oldKey[e][k] = key
          BY <3>4 DEF HoldsKey
        <4>2. Hands(e, key)
          BY <4>1 DEF Hands
        <4>3. e = d
          BY <1>1, <2>0, <2>1, <3>1, <4>2, OnlyActiveHolds
        <4>4. oldKey[d][k] = None
          BY <1>1 DEF UpdateInv, OldKeyInv, CleanupPCs
        <4>5. newKey[d]["updatable"] = None
          BY <1>1 DEF UpdateInv, NoKeyInv, BeforeSetup, Kinds
        <4>. QED
          BY <3>1, <4>1, <4>3, <4>4, <4>5 DEF Kinds
      <3>. QED
        BY <3>2, <3>3, <3>4
    <2>3. IsFiniteSet(S) /\ Cardinality(S) <= MAX_SHARED_REGIONS
      BY <2>0, <2>1, RegisteredKeysBounded
    <2>4. ASSUME FreeKeys(keyInUse[m]) = {} PROVE FALSE
      <3>. HIDE DEF S, mine
      <3>1. ShmKey \in SUBSET (S \cup {mine})
        BY <2>2, <2>4 DEF FreeKeys
      <3>2. /\ IsFiniteSet(S \cup {mine})
            /\ Cardinality(S \cup {mine}) = IF mine \in S THEN Cardinality(S) ELSE Cardinality(S) + 1
        BY <2>3, FS_AddElement
      <3>3. IsFiniteSet(ShmKey) /\ Cardinality(ShmKey) <= Cardinality(S \cup {mine})
        BY <3>1, <3>2, FS_Subset
      <3>4. Cardinality(S) \in Nat
        BY <2>3, FS_CardinalityType
      <3>5. Cardinality(ShmKey) = MAX_SHARED_REGIONS * 2
        <4>1. MAX_SHARED_REGIONS * 2 - 1 \in Int /\ 0 \in Int /\ ~ (0 > MAX_SHARED_REGIONS * 2 - 1)
          BY <1>1, MaxSharedRegionsAssumption
        <4>2. Cardinality(0 .. MAX_SHARED_REGIONS * 2 - 1) = MAX_SHARED_REGIONS * 2 - 1 - 0 + 1
          BY <4>1, FS_Interval
        <4>. QED
          BY <4>2, MaxSharedRegionsAssumption DEF ShmKey, MAX_SHM_KEYS
      <3>. QED
        BY ONLY 2 <= MAX_SHARED_REGIONS, <2>3, <3>2, <3>3, <3>4, <3>5, MaxSharedRegionsAssumption
    <2>. QED
      BY <2>1, <2>4
  <1>2. UpdateInv /\ ResourceInv => KeysSuffice
    BY <1>1 DEF KeysSuffice
  <1>. QED
    BY <1>2, ResourceInvariant, PTL

\* With an even number of regions a dataset's two regions are registered together or not at
\* all, whatever fails and whoever is killed, but for a datastore at work or killed in the
\* critical section (SharedRegionRegister::Register, Storage::swapData).
THEOREM DatasetsRegisteredInPairs ==
    ASSUME MAX_SHARED_REGIONS % 2 = 0
    PROVE  Spec => []RegisteredInPairs
  <1>1. ASSUME ResourceInv, NEW m \in Monitors, NEW ds \in Datasets,
               \A d \in Datastores : mutex[m] = d => dpc[d] = "failed"
        PROVE  Find(regions[m], <<ds, "static">>) <=> Find(regions[m], <<ds, "updatable">>)
    <2>1. ~ HalfRegistered(m, ds)
      BY <1>1 DEF HalfRegistered
    <2>. QED
      BY <1>1, <2>1 DEF ResourceInv, PairedInv
  <1>2. ResourceInv => RegisteredInPairs
    BY <1>1 DEF RegisteredInPairs
  <1>. QED
    BY <1>2, ResourceInvariant, PTL

-----------------------------------------------------------------------------

\* The segments of a name that exist and that no routed process may map yet.
Fresh(ds, k) ==
    {s \in Segments : \E d \in Datastores : /\ dpc[d] \in BeforeSwap(k)
                                            /\ dataset[d] = ds
                                            /\ s = <<d, k>>}

\* A live segment belongs to the name.
LEMMA LiveOwner ==
    ASSUME UpdateInv, ResourceInv, NEW ds \in Datasets, NEW j \in Kinds,
           NEW d \in Datastores, NEW k \in Kinds, <<d, k>> \in Live(ds, j)
    PROVE  j = k /\ dataset[d] = ds
  <1>1. CASE Registered(ds, j) /\ <<d, k>> = Leads(ds, j)
    BY <1>1 DEF UpdateInv, RegisterInv
  <1>2. ASSUME NEW x \in Datastores, dataset[x] = ds, <<d, k>> = oldSegment[x][j]
        PROVE  j = k /\ dataset[d] = ds
    <2>1. oldSegment[x][j] # None
      BY <1>2, DataUpdateAssumption DEF Segments
    <2>. QED
      BY <1>2, <2>1 DEF ResourceInv, AttachedInv
  <1>. QED
    BY <1>1, <1>2 DEF Live

\* What a datastore has replaced and not let go of is live.
LEMMA ReplacedIsLive ==
    ASSUME UpdateInv, ResourceInv, NEW x \in Datastores, NEW j \in Kinds,
           NEW d \in Datastores, NEW k \in Kinds, oldSegment[x][j] = <<d, k>>
    PROVE  <<d, k>> \in Live(dataset[d], k)
  <1>1. oldSegment[x][j] # None /\ <<d, k>> \in Segments
    BY DataUpdateAssumption DEF Segments
  <1>2. j = k /\ dataset[d] = dataset[x]
    BY <1>1 DEF ResourceInv, AttachedInv
  <1>3. dpc[x] \in CleanupPCs
    BY <1>1 DEF UpdateInv, OldKeyInv
  <1>. QED
    BY <1>1, <1>2, <1>3 DEF Live

\* A registered region's segment is live.
LEMMA RegisteredIsLive ==
    ASSUME UpdateInv, NEW ds \in Datasets, NEW j \in Kinds, Registered(ds, j),
           NEW d \in Datastores, NEW k \in Kinds, Leads(ds, j) = <<d, k>>
    PROVE  <<d, k>> \in Live(dataset[d], k)
  <1>1. j = k /\ dataset[d] = ds
    BY DEF UpdateInv, RegisterInv
  <1>2. <<d, k>> \in Segments
    BY DEF Segments
  <1>. QED
    BY <1>1, <1>2 DEF Live

\* What a datastore has created and has the key of is fresh or live.
LEMMA OwnSegment ==
    ASSUME UpdateInv, ResourceInv, NEW d \in Datastores, NEW k \in Kinds, newKey[d][k] # None
    PROVE  /\ dpc[d] \in BeforeSwap(k) \cup AfterSwap(k)
           /\ newKey[d][k] \in ShmKey
           /\ bound[newKey[d][k]] = <<d, k>>
           /\ <<d, k>> \in Live(dataset[d], k) \cup Fresh(dataset[d], k)
  <1>1. dpc[d] \notin BeforeSetup("static") \cup FinalPCs
    BY DEF ResourceInv, HandleInv, NoKeys
  <1>2. dpc[d] \in StorePCs /\ newKey[d][k] \in ShmKey
    BY DEF UpdateInv, TypeOK
  <1>3. dpc[d] \notin BeforeSetup(k) /\ (k = "static" => ~ onlyMetric[d])
    BY DEF UpdateInv, NoKeyInv
  <1>4. dpc[d] \in BeforeSwap(k) \cup AfterSwap(k)
    BY ONLY <1>1, <1>2, <1>3, k \in Kinds
       DEF BeforeSetup, BeforeSwap, AfterSwap, CleanupPCs, SwapPC, StorePCs, FinalPCs, Kinds
  <1>5. <<d, k>> \in Segments
    BY DEF Segments
  <1>6. CASE dpc[d] \in BeforeSwap(k)
    BY <1>2, <1>3, <1>4, <1>5, <1>6 DEF UpdateInv, NewKeyInv, Fresh
  <1>7. CASE dpc[d] \in AfterSwap(k)
    <2>1. /\ Registered(dataset[d], k) /\ newKey[d][k] = Newest(dataset[d], k).shm_key
          /\ Leads(dataset[d], k) = <<d, k>>
      BY <1>7 DEF ResourceInv, PublishedInv
    <2>. QED
      BY <1>2, <1>4, <1>5, <2>1 DEF Live, Leads
  <1>. QED
    BY <1>4, <1>6, <1>7

\* Without failures every segment that exists is live or fresh.
LEMMA ExistsLiveOrFresh ==
    ASSUME UpdateInv, ResourceInv, NoFailure, created <= 1,
           NEW d \in Datastores, NEW k \in Kinds, Exists(<<d, k>>)
    PROVE  <<d, k>> \in Live(dataset[d], k) \cup Fresh(dataset[d], k)
  <1>. DEFINE s == <<d, k>>
              here == s \in Live(dataset[d], k) \cup Fresh(dataset[d], k)
  <1>0. s # None
    BY DataUpdateAssumption DEF Segments
  <1>1. ASSUME NEW key \in ShmKey, bound[key] = s PROVE here
    <2>1. created = 1 /\ created \in Monitors
      <3>1. created \in 0 .. MaxMonitors /\ created # 0
        BY <1>0, <1>1 DEF UpdateInv, TypeOK, SettledKeys
      <3>. QED
        BY ONLY <3>1, created <= 1, DataUpdateAssumption DEF Monitors
    <2>2. key \in keyInUse[created]
      BY <1>0, <1>1, <2>1 DEF UpdateInv, SettledKeys, FreeKeysUnbound, FreeKeys
    <2>3. HasKey(created, key) \/ HoldsKey(created, key)
      BY <2>1, <2>2 DEF ResourceInv, KeyInv
    <2>4. CASE HasKey(created, key)
      <3>1. PICK ds \in Datasets, j \in Kinds :
              Find(regions[created], <<ds, j>>) /\ regions[created][<<ds, j>>].shm_key = key
        BY <2>4 DEF HasKey, Names
      <3>2. Registered(ds, j) /\ Leads(ds, j) = s
        BY <1>1, <2>1, <3>1 DEF Registered, Leads, Newest, Find
      <3>. QED
        BY <3>2, RegisteredIsLive
    <2>5. ASSUME NEW x \in Datastores, NEW j \in Kinds, newKey[x][j] = key PROVE here
      <3>1. key # None
        BY DataUpdateAssumption
      <3>2. bound[newKey[x][j]] = <<x, j>> /\ <<x, j>> \in Live(dataset[x], j) \cup Fresh(dataset[x], j)
        BY <2>5, <3>1, OwnSegment
      <3>3. x = d /\ j = k
        BY <1>1, <2>5, <3>2
      <3>. QED
        BY <3>2, <3>3
    <2>6. ASSUME NEW x \in Datastores, NEW j \in Kinds, oldKey[x][j] = key PROVE here
      <3>1. key # None
        BY DataUpdateAssumption
      <3>2. ~ (dpc[x] = "detach" /\ j = OldKind(x))
        BY <1>0, <1>1, <2>6 DEF UpdateInv, OldKeyInv
      <3>3. bound[oldKey[x][j]] = oldSegment[x][j]
        BY <2>6, <3>1, <3>2 DEF UpdateInv, OldKeyInv
      <3>. QED
        BY <1>1, <2>6, <3>3, ReplacedIsLive
    <2>. QED
      BY <2>3, <2>4, <2>5, <2>6 DEF HoldsKey
  <1>2. ASSUME NEW x \in Datastores, s \in attached[x] PROVE here
    <2>1. \/ \E j \in Kinds : s = <<x, j>> /\ newKey[x][j] # None
          \/ \E j \in Kinds : s = oldSegment[x][j]
          \/ Registered(dataset[x], "static") /\ s = Leads(dataset[x], "static")
      BY <1>2 DEF ResourceInv, AttachedInv
    <2>2. ASSUME NEW j \in Kinds, s = <<x, j>>, newKey[x][j] # None PROVE here
      <3>1. x = d /\ j = k
        BY <2>2
      <3>. QED
        BY <2>2, <3>1, OwnSegment
    <2>3. ASSUME NEW j \in Kinds, s = oldSegment[x][j] PROVE here
      BY <2>3, ReplacedIsLive
    <2>4. CASE Registered(dataset[x], "static") /\ s = Leads(dataset[x], "static")
      <3>1. dataset[x] \in Datasets
        BY <1>2 DEF ResourceInv, HandleInv, BeforeSetup, UpdateInv, ContentInv
      <3>2. "static" \in Kinds
        BY DEF Kinds
      <3>. QED
        BY <2>4, <3>1, <3>2, RegisteredIsLive
    <2>. QED
      BY <2>1, <2>2, <2>3, <2>4
  <1>3. ASSUME NEW w \in Watchers, NEW j \in Kinds,
               facade[w][j] = s \/ \E q \in Queries : query[w][q][j] = s
        PROVE  here
    <2>1. s \in Live(WatchedDataset[w], j)
      BY <1>0, <1>3 DEF ResourceInv, ViewInv
    <2>2. WatchedDataset[w] \in Datasets
      BY DataUpdateAssumption
    <2>3. j = k /\ dataset[d] = WatchedDataset[w]
      BY <2>1, <2>2, LiveOwner
    <2>. QED
      BY <2>1, <2>3
  <1>. QED
    BY <1>1, <1>2, <1>3 DEF Exists

\* Without failures, and as long as --remove-locks has not made a datastore create a second
\* monitor, memory never holds more than the registered copy of a region and the one that
\* is being loaded or given up (Storage::swapData, DataWatchdog::Run).
THEOREM TwoCopiesAtMost == Spec => []AtMostTwoCopies
  <1>1. ASSUME UpdateInv, ResourceInv, NoFailure, created <= 1, NEW ds \in Datasets, NEW k \in Kinds
        PROVE  Cardinality({d \in Datastores : dataset[d] = ds /\ Exists(<<d, k>>)}) <= 2
    <2>. DEFINE C == {d \in Datastores : dataset[d] = ds /\ Exists(<<d, k>>)}
                x == fileLock
                first == Leads(ds, k)[1]
                second == IF dpc[x] \in BeforeSwap(k) THEN x ELSE oldSegment[x][k][1]
    <2>1. ASSUME NEW d \in C PROVE d \in {first, second}
      <3>1. <<d, k>> \in Live(ds, k) \cup Fresh(ds, k)
        BY <1>1, <2>1, ExistsLiveOrFresh
      <3>2. CASE Leads(ds, k) = <<d, k>>
        BY <3>2
      <3>3. ASSUME NEW e \in Datastores, dpc[e] \in CleanupPCs, <<d, k>> = oldSegment[e][k]
            PROVE  d = second
        <4>1. e = x
          BY <1>1, <3>3, ActiveStore DEF CleanupPCs, LockedPCs, StorePCs, FinalPCs
        <4>2. dpc[e] # SwapPC(k)
          BY <1>1, <3>3, DataUpdateAssumption DEF UpdateInv, OldKeyInv, Segments
        <4>3. dpc[e] \notin BeforeSwap(k)
          BY ONLY <3>3, <4>2, k \in Kinds DEF BeforeSwap, CleanupPCs, SwapPC, Kinds
        <4>. QED
          BY <3>3, <4>1, <4>3
      <3>4. ASSUME NEW e \in Datastores, dpc[e] \in BeforeSwap(k), <<d, k>> = <<e, k>>
            PROVE  d = second
        <4>1. dpc[e] \in LockedPCs \ {"open"}
          BY ONLY <3>4 DEF BeforeSwap, LockedPCs, StorePCs, FinalPCs
        <4>2. e = x
          BY <1>1, <4>1, ActiveStore
        <4>. QED
          BY <3>4, <4>2
      <3>. HIDE DEF first, second
      <3>. QED
        BY <3>1, <3>2, <3>3, <3>4 DEF Live, Fresh
    <2>. HIDE DEF C, first, second
    <2>2. /\ IsFiniteSet({first, second})
          /\ Cardinality({first, second}) = IF first = second THEN 1 ELSE 2
      BY TwoElements
    <2>3. C \in SUBSET {first, second}
      BY <2>1
    <2>4. IsFiniteSet(C) /\ Cardinality(C) <= Cardinality({first, second})
      BY <2>2, <2>3, FS_Subset
    <2>5. Cardinality(C) \in Nat
      BY <2>4, FS_CardinalityType
    <2>6. Cardinality(C) <= 2
      BY ONLY <2>2, <2>4, <2>5
    <2>. QED
      BY <2>6 DEF C
  <1>2. UpdateInv /\ ResourceInv => AtMostTwoCopies
    BY <1>1 DEF AtMostTwoCopies, Names
  <1>. QED
    BY <1>2, ResourceInvariant, PTL
=============================================================================
