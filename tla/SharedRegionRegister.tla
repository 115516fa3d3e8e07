------------------------ MODULE SharedRegionRegister ------------------------
(***************************************************************************)
(* The register that every monitor carries (struct SharedRegionRegister):  *)
(* a fixed number of named regions, and the set of SHM keys in use.        *)
(*                                                                         *)
(* The array `regions` is modelled as a function from region names to      *)
(* regions: a name is "in" the array when its region is not empty, and the *)
(* array is full when MAX_SHARED_REGIONS names are.  A region is never     *)
(* emptied again, so the index at which a name sits carries no information.*)
(* The array shm_key_in_use is modelled as the set of keys that are TRUE.  *)
(***************************************************************************)
EXTENDS Naturals, FiniteSets

CONSTANT MAX_SHARED_REGIONS

ASSUME MaxSharedRegionsAssumption == MAX_SHARED_REGIONS \in Nat \ {0}

MAX_SHM_KEYS == MAX_SHARED_REGIONS * 2

ShmKey == 0 .. MAX_SHM_KEYS - 1

SharedRegion == [timestamp : Nat, shm_key : ShmKey]

\* A default constructed region: timestamp 0 marks it as unused.
EmptyRegion == [timestamp |-> 0, shm_key |-> 0]

IsEmpty(region) == region.timestamp = 0

INITIAL_TIMESTAMP == 1

\* Find: TRUE iff it returns a valid region id.
Find(regions, name) == ~ IsEmpty(regions[name])

\* Mutant of CanRegister: the last region of the array is never given out.
CanRegisterAllButOne(regions) ==
    Cardinality({name \in DOMAIN regions : Find(regions, name)}) < MAX_SHARED_REGIONS - 1

\* Register throws unless some region of the array is still empty.
CanRegister(regions) ==
    Cardinality({name \in DOMAIN regions : Find(regions, name)}) < MAX_SHARED_REGIONS

Register(regions, name, key) ==
    [regions EXCEPT ![name] = [timestamp |-> INITIAL_TIMESTAMP, shm_key |-> key]]

\* Mutant of Replace: the timestamp stays.
ReplaceSameTimestamp(regions, name, key) == [regions EXCEPT ![name].shm_key = key]

\* What swapData does to a region that is already registered.
Replace(regions, name, key) ==
    [regions EXCEPT ![name] = [timestamp |-> regions[name].timestamp + 1, shm_key |-> key]]

\* ReserveKey throws when this set is empty.
FreeKeys(shm_key_in_use) == ShmKey \ shm_key_in_use

\* key is the one ReserveKey returns: the first that is not in use.
IsReservedKey(shm_key_in_use, key) ==
    /\ key \in FreeKeys(shm_key_in_use)
    /\ \A other \in FreeKeys(shm_key_in_use) : key <= other

ReleaseKey(shm_key_in_use, key) == shm_key_in_use \ {key}
=============================================================================
