# A TLA+ verification project for OSRM

This directory holds TLA+ models of the parts of the OSRM backend in which
processes, threads and callbacks meet (the hot swap of routing data between
`osrm-datastore` and `osrm-routed`, the interprocess monitor it is built on, the
asynchronous HTTP connection of `osrm-routed`) and of its two routing algorithms, from
the parallel preprocessing to the queries: contraction hierarchies (CH) and multi-level
Dijkstra (MLD). TLC checks the models on small
instances; TLAPS proves the theorems listed below for every value of the constants.
`PROJECT.json` maps each definition to the lines it models and lists the runs, the
mutants, the hazards and the findings. Paths below are relative to the repository.

## 1. Inventory

OSRM is a tool chain (`osrm-extract`, `osrm-partition`, `osrm-customize`,
`osrm-contract`), a loader (`osrm-datastore`), a server (`osrm-routed`), and the
library `libosrm` with its Node.js bindings.

| Component | State | Operations | Meets | What makes it correct |
|---|---|---|---|---|
| Data update (`src/storage/storage.cpp`) | file lock, handles of the new and old regions | `Run`, `setupRegion`, `swapData` | watchdogs through the monitor and the SHM segments | clients only ever see complete, matching regions; old memory goes only when nobody uses it; keys are neither lost nor reused early |
| Region register (`include/storage/shared_datatype.hpp`) | 512 named regions, 1024 key flags, in shared memory | `Find`, `Register`, `ReserveKey`, `ReleaseKey` | under the monitor's mutex (register) or the file lock (keys) | two keys per region are enough; datasets are registered whole |
| SHM segments (`include/storage/shared_memory.hpp`) | key, segment, attach count | open or create, remove, `WaitForDetach` | all processes | a removed segment lives until its last user detaches |
| Shared monitor (`include/storage/shared_monitor.hpp`) | mutex, ring of 256 semaphores, head, tail | `wait`, `notify_all` | threads of all processes | no notification is lost, killed waiters do no harm |
| Data watchdog (`include/engine/data_watchdog.hpp`) | `active`, copies of two regions, the facade factory | constructor, thread `Run`, `Get`, destructor | monitor, queries | every query gets a coherent facade; the thread catches up and can be joined |
| HTTP connection (`src/server/connection.cpp`) | buffers, parser, reply, timer, `keep_alive`, `processed_requests` | `start`, `handle_read`, `handle_write`, `handle_timeout`, `handle_shutdown` | io_context threads, client | buffers have one user; every request is answered; idle connections end; resources are released |
| HTTP server (`include/server/server.hpp`, `src/tools/routed.cpp`) | acceptor, thread pool | accept loop, `Run`, `Stop`, shutdown limit of 2 s | connections, watchdog destructor | accepts for ever; shuts down in time |
| Request parser (`src/server/request_parser.cpp`) | automaton state, header under construction | `parse` | connection | same verdict however the bytes are split |
| Contractor (`src/contractor`, `include/util/dynamic_graph.hpp`) | one array of edges for all nodes, priorities, depths, loop bounds, node numbering | independent sets, witness search, shortcuts, renumbering, one contraction per exclude filter | TBB loops over the shared array; its output is what CH queries read | concurrent iterations do not touch each other; every round makes progress; distances are preserved |
| CH query (`include/engine/routing_algorithms/routing_base_ch.hpp`, `include/util/query_heap.hpp`) | two heaps, upper bound, middle node | bidirectional search, stalling, loops, unpacking | the hierarchy | shortest routes that unpack to streets |
| Customizer (`include/customizer`, products of `include/partitioner`) | cell metrics per level and filter | `Customize`, `RelaxNode` | TBB loops over the cells of a level | a metric holds the shortest distances inside each cell |
| MLD query (`include/engine/routing_algorithms/routing_base_mld.hpp`) | two heaps, keys of the two minima, middle node | bidirectional search over levels, recursive unpacking | the metrics | shortest routes that unpack to turns |
| Partitioner (`src/partitioner`) | bisection | Dinic, recursion | parallel loops | min cuts |
| Updater, extractor, plugins, guidance, bindings, file formats | files and answers | bulk transformation | none | outside what these models distinguish |

Hard behaviours: a datastore publishes while any number of routed processes copy
keys, map segments, serve queries and shut down; any process may be killed at any
point; `SIGTERM` and `--remove-locks` unlink the monitor under running processes;
the ring of semaphores is bounded and reuses slots; completions of a connection's
operations and of its timer come in any order, and cancelling can come too late;
nodes are contracted and cells customised in parallel on shared arrays; hierarchies,
filters and search bounds interact over many steps before a query goes wrong.
The list `hazards` in `PROJECT.json` gives each one with its line.

## 2. Modules

| Module | Models | Extends |
|---|---|---|
| `SharedRegionRegister` | the register as a function from names, the set of keys in use | |
| `DataUpdate` | datastores, watchdogs, queries, segments, kills | `SharedRegionRegister` |
| `DataUpdateInv` | its inductive invariant `UpdateInv`, one part per reason why the protocol is safe | `DataUpdate` |
| `DataUpdateKeys` | the second inductive invariant `ResourceInv`: keys, register, copies | `DataUpdateInv` |
| `DataUpdate_proofs` | proofs about both | `DataUpdateKeys` |
| `MCDataUpdate` | instances for TLC | `DataUpdateKeys` |
| `CondVar` | abstract condition variable: what a caller of `wait` and `notify_all` may rely on | |
| `SharedMonitor` | the ring of semaphores that implements it | `CondVar` by refinement |
| `SharedMonitor_proofs`, `MCSharedMonitor` | proofs; instances for TLC | `SharedMonitor` |
| `Connection` | one HTTP connection, with its inductive invariant `ConnectionInv` | |
| `Connection_proofs` | proofs about it | `Connection`, `SetInduction` |
| `SetInduction` | induction over the steps of a loop, for the proofs | |
| `DynamicGraph` | the array graph of the contractor; reference shortest paths by exhaustive relaxation | |
| `DynamicGraph_proofs` | what each operation does to the array and its lists | `DynamicGraph`, `SetInduction` |
| `Contractor` | `contractGraph` and its parallel loops | `DynamicGraph` |
| `ContractExcludable` | `Contractor::Run`: the shared contraction and one per exclude filter, the container of edges | `Contractor` |
| `CHQuery` | the search on a hierarchy and the unpacking of its path | `DynamicGraph` |
| `CHRouting` | `osrm-contract` and the queries on what it wrote, composed | `ContractExcludable`, `CHQuery` |
| `ContractionInv` | the inductive invariants of the contraction: `ContractorInv` and, for distances, `DistancesInv` | `CHRouting` |
| `MCCHRouting` | instances for TLC | `ContractionInv` |
| `ContractorOps_proofs`, `Contractor_proofs` | proofs about the operators of `Contractor`; about the invariant | `ContractionInv`, `DynamicGraph_proofs` |
| `CellCustomizer` | `osrm-customize`, with the partition, the sorted graph and the boundary nodes it reads; its inductive invariant `CustomizerInv` | `DynamicGraph` |
| `CellCustomizer_proofs` | proofs about it | `CellCustomizer`, `DynamicGraph_proofs` |
| `MLDRouting`, `MCMLDRouting` | the customizer and the queries on its metrics, composed; instances for TLC | `CellCustomizer` |

`DataUpdate` uses the monitor's condition variable as `CondVar` describes it (a set
of waiters that have not been notified); `SharedMonitor` shows under which condition
the ring implements that.

### DataUpdate and the code

A datastore is one process and one run of `Storage::Run`. `dpc` is its program
point: `lock` (the file lock), `open` (creating or opening the monitor), `static`,
`updatable` (the two `setupRegion`s), `populate`, `swap` (before the monitor's
mutex), `swapStatic`, `swapUpdatable`, `unlock` (inside `swapData`'s scope),
`notify`, `remove` and `detach` (the clean-up loop), and the four ways to end. A
watcher is one `osrm-routed`; `wpc` follows the constructor (`ctorLock`,
`ctorFind`, `ctorAttach`), the thread (`top`, `check`, `enqueue`, `attach`, `wait`,
`stopped`) and the end of the process. The test of `active` (`NothingNew`) and the call of
`wait` (`Wait`) are two steps, so the destructor can clear `active` between them. `closing` follows the destructor, which runs in another
thread than `Run`. Every action carries the code's guard and all it changes; the
error paths (missing files, no free key, full register, `--only-metric` for an
unknown dataset, a region that cannot be mapped, time-out) are actions of their own.
How a process ends by an exception matters. The mains of `osrm-datastore` and `osrm-routed`
catch `RuntimeError` (a read that fails: `InputError`), which unwinds. All other errors are
`util::exception`s, which nobody catches on Linux: `std::terminate` unwinds nothing, so the
interprocess mutex stays locked if the process held it, and in `osrm-datastore` the handler
of `SIGABRT` unlinks the monitor (`Abort`: `ReuseStaticThrows`, `ReserveKeyThrows`,
`InputAborts`, `RegisterThrows`). `CtorThrows` and `AttachThrows` end `osrm-routed` with the
mutex held.

Abstractions:
- A segment is the pair of the datastore that created it and its kind, so contents
  are reduced to what the properties tell apart: who loaded it, completely or not,
  for which dataset, and for which static region an updatable region was built.
- The register's array is a function from names (a region is never emptied, so
  indices carry nothing); `shm_key_in_use` is a set; `ReserveKey` returns the first
  free key as the code does.
- Segments follow System V semantics on Linux: removal unbinds the key at once, the
  memory lives until the last detach. `setupRegion`'s removal of a stale segment
  under its new key is the overwriting of `bound[key]`.
- The creation of the monitor is one step. `active` is a plain `bool` shared by two
  threads; it is modelled as a sequentially consistent variable.
- The key flags are changed outside the monitor's mutex, as in the code; the file
  lock is what makes that safe (`StoreLockInv`).
- `--list` and `--spring-clean` are left out: the first changes nothing lasting, the
  second announces that it leaves `osrm-routed` in an undefined state.
- `boost::interprocess`, the OS and the file lock are external and modelled from
  their use.

### SharedMonitor and the code

`Enqueue`, `EnqueueThrows` are `enqueue_semaphore`, `Block` and `SemaphoreWait` the
body of `wait`, `NotifyLock`, `Post`, `NotifyUnlock` are `notify_all`. The branch
for `USE_BOOST_INTERPROCESS_CONDITION` (Windows) is not built on Linux and not
modelled. `lapped` is a history variable: the slots that the ring re-used while a
posted waiter had not run yet, the one case in which the code gives no guarantee.
`PromptWakeup` chooses whether that case is excluded. `EnqueueThrows` leaves the
mutex locked because the exception leaves the watchdog thread's function and so
ends the process.

### Connection and the code

`reading`, `writing`, `timer` are the pending operations, `completions` those whose
handlers have not run. Handlers run one at a time (the strand). `cancel()` reaches
pending operations only. The byte stream is abstracted to pieces: `head` begins a
request, `keep` and `close` end one, `bad` holds an illegal byte; a read returns any
non-empty prefix of what has arrived. `parse` keeps the parser's control: state over
several reads, bytes after the verdict dropped, nothing accepted after a verdict
without a reset. Compression and header text are left out, except the announced
`max=` and whether a reply confirms keep-alive. A `bad` piece is the last of its request:
what follows an illegal byte in a later read is not distinguished. The socket and its reactor are
external.

### Contraction hierarchies and the code

`phase` is the loop of `contractGraph` that runs, `todo` its iterations that have not
run: `prioritise` (initial priorities), `head` (top of a round: `RenumberData`,
`FindIndependent` or `Return`), `contract`, `delete`, `insert`, `update`. An iteration of
a `tbb::parallel_for` is one step, in any order; the barrier at its end starts the next
loop. `ContractNode(t, n)` runs on thread `t` and appends to that thread's
`inserted_edges`, so the order in which `InsertEdges` takes the threads matters.
`weights` (the loop bounds) is shared and written by simulations as well: the data race
on it is an interleaving of whole iterations. `graph` is the array itself, with dummies,
lists that grow forwards and backwards and lists that move to the end.

`ContractExcludable` starts `contractGraph` for the whole graph, or for the nodes all
filters allow and then, on the core that is left, once per filter. `CHRouting` adds
`OpenFacade` (the hierarchy of one filter) and any number of queries, each a sequence of
`ForwardStep`s and `ReverseStep`s. Ties between keys are broken in every way.

Abstractions: durations and distances travel with the weight and are left out; ties
inside one witness search are broken in one way (those between parallel shortcuts in
`tbb::parallel_sort`, which is not stable, in every way: `Sorted`); loops over a list are
recursive functions on the number of steps made; the container is a function from edges to filters, so its sorted
merge is a union; `force_step_nodes` is empty, as in `directShortestPathSearch`; a phantom
node is a set of segments with offsets no longer than the segment.

Priorities are floats, computed and compared as in the code: quotients and sums are rounded
to `Significand` significands (2^24 in the code) at one of the `Scales`, half to even, and
two priorities tie if they differ by less than epsilon (`Tie`). Exponents are bounded in an
instance; nothing in the code comes near their limits. From 1 upwards neighbouring floats
are at least epsilon apart, so a tie is an equality. Below 1 two unequal floats may tie
(`NearTie`): then each node steps back, for the greater priority or for the hash, and a round
may find no node. In the contraction of the whole graph this takes unusual degrees: a
priority below 1 needs depth 0, hence a node whose edges are all original, for which the
priority is a rounding of 10 * a / b with b the number of its edges; equal quotients give
equal floats, and others are further apart unless b is in the thousands. In the contraction
for a filter depths start at 0 again while edges are shortcuts already, and the argument
does not apply. `RoundContracts` excepts rounds in which two remaining nodes nearly tie.

### Multi-level Dijkstra and the code

`CustomizeCell(c)` is an iteration of the loop over the cells of a level; it computes
all rows of the cell (`Customize`, `explore`, `RelaxNode`, and the shortcuts of the
sub-cell with the `continue` that does not advance the destination). The last one starts
the next level, after the last level the next filter's metric. `SearchTurn` is one turn
of the loop in `runSearch`, `SearchEnds` its exit; shortcuts are unpacked by
`unpackSearch`, the recursive call of `search` inside the cell with its own level.

The loops over a row and of the search are recursive functions on the number of turns
made; a node is settled once, so `N` turns are enough (`ExploreEnds` proves it).

Abstractions: the packed partition numbers are functions from nodes to cells per level;
the boundary nodes of a cell are listed in some order, the same for rows and columns; the
ways on from a node are relaxed at once, of two of the same weight the shortcut counts,
which the code relaxes first;
the sort of the edges by border level is the level comparison it serves; durations are
taken equal to weights; parallel turns are assumed not to be raised to the same weight by
the clamp of `splitBidirectionalEdges` (both would be kept, the code keeps one); ties are broken in every way in the query and in one way in the
customisation and in unpacking. How the partition is found and the nodes are renumbered
is not modelled: the partitions are inputs.

## 3. Runs

The runs of the data update, the monitor and the connection say `CHECK_DEADLOCK FALSE`,
because these systems may stop: datastores run once, a connection ends, and a process
killed inside the critical section blocks the others for good. The CH and MLD runs check
deadlock: no interleaving of the loops may get stuck before queries can be asked.

| Run | Instance | Shows |
|---|---|---|
| `du_updates` | 3 datastores, 2 watchers, 1 dataset, no kills, 2 monitors (`--remove-locks` under at most one routed process) | facades stay coherent, mapping fails only for a process left on a removed monitor, no old region is released while in use, keys are accounted for and suffice, never more than two copies |
| `du_liveness` | 2 datasets, a register of 2 regions, 2 datastores, 1 watcher, 1 kill (SIGKILL or SIGTERM), 2 monitors, `--remove-locks` | `UpdateInv` and `ResourceInv`, the inductive invariants of the proofs, with failures at every point; a full register never ends up with half a dataset; no free key names a segment; started datastores end, watchers catch up, destructors return |
| `sm_ring` | 3 waiters, 1 notifier, ring of 6, 2 kills, late wake-ups allowed | `RingInv` and what follows from it |
| `sm_condvar` | 2 waiters, 2 notifiers, ring of 6, 1 kill, prompt wake-ups | the ring implements `CondVar`; notified waiters wake |
| `conn_serve` | 3 requests on a connection, 8 pieces | `ConnectionInv`; buffers have one user; timer only while waiting; announced limits kept; requests accepted and answered; idle connections close; shutdown releases everything |
| `ch_routes` | 320 networks of 4 nodes (rings, paths, triangles with a tail; streets missing, one-way of weight 0, two-way of equal and unequal weight), 2 threads, without and with an excludable node; 640 initial states | nodes contracted together share no neighbour, the array stays consistent, every round finds a node, distances are preserved round by round; queries that exclude nothing find shortest routes; all paths unpack to streets of their weight; `ContractorInv`, the inductive invariant of the proofs |
| `mld_routes` | 107 networks of 6 nodes, some with turns below 1, 2 two-level partitions, 2 exclude filters | metrics are exact in every order of the cells; searches, also with exclusion and round trips, find shortest routes; shortcuts unpack to turns |
| `du_maxwait`, `conn_timeout`, `ch_loop`, `ch_exclude`, `mld_merged` | | the findings of section 5 |

Bounds. `MAX_SHARED_REGIONS` = 2 gives four keys: one dataset uses all of them during
an update, so reuse of a key happens at once and a leak shows. Three datastores are
one that creates the monitor and two that replace (or one that fails between them);
with fewer no key comes back. Two watchers are needed for one that is late while the
other has switched. `MaxMonitors` = 2 allows one replacement of an unlinked monitor;
`RemovalMeetsOneWatcher`, the state constraint of `du_updates`, keeps the second routed
process out of behaviours in which `--remove-locks` has run.
A ring of 6 holds at most two waiting threads, so three waiters overflow it, and wrap
round after three rounds. `MaxRequests` = 2 gives a connection that serves three
requests, the last of them without budget; eight pieces are four requests. Symmetry is
used for process identities, in safety runs only.

Four nodes are the fewest on which a contraction has several rounds, two nodes in one
round, witnesses and shortcuts over shortcuts; two hash classes make ties go to the hash
and to the node number. `SearchSpace` = 4 and 2 (2000 and 1000 in the code) lets searches
give up, which must cost shortcuts only, never distances. `RenumberPercent` = 100 (35) and
`BaseCore` = 1 (10 % of the nodes) are scaled so that a graph of four nodes is renumbered
in the middle of its contraction and leaves a core. Node weights in `MCBounds` are those
of one-way segments, for which loops matter. `Significand` = 64 makes the quotients of the
instance round (thirds, fifths) at ten scales; its priorities are 0 or at least 1, so no two
of them nearly tie. Six nodes in two levels give cells with
sub-cells, cells of one node, and shortcuts that unpack over two levels.

Failures of the data update are checked together with two datasets and liveness in
`du_liveness`; `UpdateInv` contains `FacadeCoherent`, `SettledKeys` and
`AllClientsSwitched`, and section 4 proves them for any number of processes and kills.

Fairness. Processes and threads that can run do run (weak fairness per process):
the OS schedules them and every wait in the code is a mutex, a semaphore or a poll.
A timed wait for the mutex ends (`LockTimeout`). Queries end, because they are finite
computations. Nothing makes a datastore or a
query start, a client send, or a process die. The locks need only weak fairness in
these runs since every other process stops asking after finitely many steps. In
`Connection`, the io_context's threads run every handler, the reactor notices events
and timers expire. Liveness properties that exclude `MutexLost` do so because the
code does not recover from a process that died with the interprocess mutex, killed or ended
by an exception; section 5 says how easily that happens.

Every property of a passing run has a mutant: a copy of one action with a plausible
bug, placed before the action it mutates, that breaks the property.

## 4. Proofs

Eight modules hold theorems, for every value of the constants; a run checks each
property on a small instance too, and most of the inductive invariants as well.

**`SharedMonitor_proofs`**, from `SharedMonitorAssumption` alone (a ring of at least two
semaphores; waiters, notifiers and `None` are distinct).

- `RingInvariant`: `Spec => []RingInv`. `RingInv` strengthens the properties with
  `HolderInside` (a thread inside the critical section holds the mutex), `RingHasRoom`
  (outside `enqueue_semaphore` less than half of the ring is queued) and `SlotInv` (a
  queued slot's semaphore is 0 and a notified thread's is 1, unless the ring lapped it).
  A process killed in `enqueue_semaphore` leaves the queue at half of the ring;
  `RingHasRoom` excepts it, and the exception is harmless because that process keeps the
  mutex and nobody enqueues again.
- `WakeupsAreKept`, `QueueFitsRing` and `MonitorTypes` follow from it.
- `MonitorImplementsCondVar`: with prompt wake-ups every behaviour of the ring is one
  of `CondVar`, the abstract condition variable that `DataUpdate` uses. The step lemma
  needs `PromptInv` (then no two threads share a semaphore, and only a process that died
  with the mutex has passed over one).

**`DataUpdate_proofs`**, from `DataUpdateAssumption` and `MaxSharedRegionsAssumption`.
`UpdateInvariant` proves `Spec => []UpdateInv`; `UpdateInv` (module `DataUpdateInv`) is
inductive. Its parts, and what each is there for:

| part | why it is needed |
| --- | --- |
| `StoreLockInv`, `MonitorInv`, `MutexInv` | one datastore at a time is past the file lock and it works on the newest monitor; newer monitors are empty; who is in a critical section holds that monitor's mutex |
| `ContentInv`, `BoundInv` | contents are settled before a segment can be found; a segment has one key at most |
| `RegisterInv` | a registered key is reserved and leads to a loaded segment of the right dataset |
| `NewKeyInv`, `NoKeyInv` | a datastore's unpublished keys are its own, so a timeout removes nobody else's segment |
| `BaseInv`, `PairInv` | updatable data belongs to the registered static region, except between the two halves of publishing, when a datastore holds (or died with) the mutex |
| `OldKeyInv` | replaced keys stay reserved until the clean-up loop gets to them, and no region is registered under them |
| `CopyInv`, `QueryInv` | equal timestamps mean equal regions, so a region the watchdog does not copy again is still the registered one |
| `SettledKeys` | free keys name nothing |
| `FacadeCoherent`, `AllClientsSwitched` | the goals themselves |

The argument: publishing needs the mutex, so a watchdog that holds it sees both regions
or neither; the register's keys are disjoint from the clean-up's, so what the watchdog
copied stays bound until it has mapped it; when the guard of `WaitForDetach` holds, no
key names the old segment and whoever maps a segment does so through a key.
`FacadesAreCoherent`, `WatchdogFindsRegions`, `FreeKeysNameNothing`,
`ClientsHaveSwitched` and `UpdateTypes` follow.

Layout: `StoreForms` and `WatchForms` reduce the actions once to *step forms* (what a
step does to its own state, the newest register and the keys); `OtherStores`,
`OtherWatchers`, `StoreFrame`, `WatchFrame` and `OthersWait` say what it leaves alone.
One lemma per part of `UpdateInv` (`TypeNext` ... `SwitchedNext`) then goes through the
forms, and `InvNext` combines them.

Its second part is about resources (module `DataUpdateKeys`): `ResourceInvariant` proves
`Spec => [](UpdateInv /\ ResourceInv)`. `ResourceInv` is inductive only together with
`UpdateInv`, which says who may touch what. Its parts:

| part | why it is needed |
| --- | --- |
| `HandleInv` | a datastore has no handles before it loads data and after it has ended, so a key is held by the one that works |
| `PublishedInv` | what a datastore has published stays registered under its key until it ends |
| `FoundInv` | the register never holds more regions than it has room for |
| `PairedInv` (for an even number of regions) | half a dataset is registered only inside the critical section: if there is room for the static half, an even register has room for the updatable one |
| `AttachedInv` | what a datastore maps are its new regions, the ones it replaced and the static region it goes on using |
| `ViewInv`, `KeyInv` (without failures) | routed processes map the registered or the just-replaced segment only; a key is in use if and only if a region or a handle has it |

From it follow `AllKeysAccountedFor`; `TwiceAsManyKeysSuffice`, which counts: at most
`MAX_SHARED_REGIONS` registered keys and the four handles of the one datastore at work,
two of which are registered keys, and is stated for at least two regions;
`DatasetsRegisteredInPairs`, stated for an even number of regions (with an odd number a
dataset can end up registered by half) and also for a datastore that failed with the mutex; and `TwoCopiesAtMost`. The code has 512 regions.

**`Connection_proofs`**, from `ConnectionAssumption` alone. `ConnectionInvariant` proves
`Spec => []ConnectionInv`:

| part | why it is needed |
| --- | --- |
| `SocketInv` | one operation on the socket is pending or waits for its handler, never two: every handler starts at most one |
| `ParserInv` | the parser has been reset whenever a read is under way |
| `TimerInv` | the timer is armed only when the next read starts, and a read that succeeds stops it |
| `LimitInv` | the budget that an earlier reply announced covers what is left of it and the reply under way |
| `StreamInv` | of a client that waits for each answer, one request is on its way, split between parser, completed read and stream |

`OneOperationAtATime`, `TimerOnlyWhileWaiting`, `LimitsAreKept`, `WellFormedAreAccepted`
and `ConnectionTypes` follow. `parse` goes through the bytes of a read one after the
other, so what it returns for a whole request in any number of pieces (`ParseRequest`) is
an induction along the read.

**`SetInduction`** makes such inductions possible. The library's induction theorems take
an operator as parameter, which the installed provers cannot instantiate; as lemmas with a
set (`LoopInduction`) or a function (`LoopDefined`: a loop over n steps has a value after
each of them) the same facts can be cited. They rest on the well-foundedness of `<` only.

**`DynamicGraph_proofs`** is about the array of `util/dynamic_graph.hpp`, for every number
of nodes and every array that is `Consistent` (typed, well-formed, lists that end within the
array). `InsertEdgeConsistent` goes through the three places an edge may go to (behind the
list, in front of it after moving the last edge, the end of the array after moving the list);
`DeleteConsistent` is an induction over the loop of `DeleteEdgesTo`, whose invariant
(`CutInv`) says which edges have been passed, which are kept and which slots are dummies by
now; `RenumberConsistent` and `FilterConsistent` rest on where the lists begin when they are
laid out one after the other. Each also says which targets and which edges every list has
afterwards; the proofs below use nothing else of the array.

The module also settles what a shortest distance is. Paths would need induction over
sequences; potentials do not. A potential gives every node a value up to
`INVALID_EDGE_WEIGHT` and is *feasible* for a set of arcs if it rises along no arc by more
than its weight. `DistancesAreGreatest` shows that `DistancesFrom`, the reference that
the runs compare with, is the greatest feasible potential that is 0 at the source: no round
of relaxation goes below one (`RoundsStayAbove`), and a node has its distance after as many
rounds as there are nodes nearer to the source (`RoundsReach`). `SameDistances` follows: two
sets of arcs agree on the nodes of K if feasible potentials of one can be turned
into feasible potentials of the other without a change on K.

**`ContractorOps_proofs` and `Contractor_proofs`**, from `NAssumption` (there is a node) and
`ContractionAssumption` (hashes are integers, the input is a set of arcs between nodes with
natural weights, bounds and the size of the core are natural numbers) and `FloatAssumption`
(there are significands and scales, whichever). `ContractorInvariant` proves `Spec => []ContractorInv`
for the composition `CHRouting`:

| part | why it is needed |
| --- | --- |
| `InputInv`, `SharedCoreInv` | what `contractGraph` is called with, also for the second and later filters, whose graph is the shared core of the first contraction |
| `GraphInv`, `NumberingInv` | the array is consistent; old and new numbers correspond one to one |
| `NodeInv` | nodes that may be contracted have a priority that is a fraction, so only nodes that stay have the largest one |
| `PoolInv` | which nodes are left, may be contracted or belong to the batch, loop by loop |
| `SymmetryInv` | an edge of a node that is left leads to a node that is left and there is one back; while edges are being cut also to nodes whose turn has not come |
| `InsertedInv` | shortcuts that wait in a thread's list are between nodes that are left and outside the batch, each with one in the other direction |
| `ContractedApart` | the goal itself |

The argument. Independence is decided by looking two hops along outgoing edges, so it
separates two nodes only if edges lead both ways: `SymmetryInv`. It is kept because
`toContractorGraph` makes an edge at both ends, every shortcut is created with its mirror
image (`MirroredBothWays`) and merging, sorting and dropping duplicates keep one edge
for each pair of nodes (`MergedShortcuts`, `SortedJoins`, `InsertShortcutsTargets`); and
because `DeleteIncomingEdges`, which walks along the edges of the contracted node, finds all
that have an edge to it (`CutOffTargets`). Shortcuts of one iteration join neighbours of its
node, which by `ContractedApart` are not in the batch, so inserting them revives no contracted
node. Of two independent nodes with a common neighbour each would be among the nodes the other
looks at, and by `OneGoesFirst` one of them steps back (`IndependentApart`). A first node
exists if no two priorities nearly tie: then the epsilon test is an equality (`NoNearTies`),
the order is transitive (`GoesFirstTransitive`: cross-multiplied priorities, then hash, then
number) and nodes outside the pool have the largest priority (`RoundFinds`). Nothing else is
used of the floats than that they are fractions (`FloatFraction`), so the theorem holds for
every format. `BatchesAreApart`, `ArraysStayConsistent`, `RoundsContract` and
`ContractorTypes` follow. `Contractor_proofs` has one lemma per action (`...Keeps`), each with
one step per part of the invariant.

`DistancesStayShortest` proves `Spec => []DistancesPreserved` with a second inductive
invariant, `DistancesInv`, on top of `ContractorInv`. It says for every step of the first
contraction, not only before a round:

| part | why it is needed |
| --- | --- |
| `Represents` | the edges between nodes that are left, with the shortcuts that wait in the threads' lists, have the distances of the input: what is feasible for the input is feasible for them, and what is feasible for them extends to the nodes that are gone |
| `HasMirrors`, `IsMirrored` | an edge from u to v is known at v as well, with the same weight: the witness search goes forwards from u only, and `ContractNode` finds the ways into a node in the node's own list |
| `Bypassed` | while the loop contracts: every way past a node whose turn has been is no shorter than a shortcut that waits or than a way around the node |

The argument. A witness search adds up edges that avoid the node, so none of its keys is
below what a feasible potential allows (`SearchKeys`), however early it gives up; a way
without a good enough key gets a shortcut (`ContractEdgesResult`), so each contracted node
is bypassed (`NodeBypassed`). Witnesses for one node of a batch may run through another node
of the batch, which goes in the same round and whose own witness may run through the first.
`ContractedNodesBypassed` shows why no distance is lost. Take a potential on the nodes that
stay. The batch lies apart, so each of its nodes can be given the largest value that the arcs
into it allow, if no way past it is shorter than the potential allows (`ExtendedPotential`).
The shortest way that were too short would have no shortcut; around its node, the other nodes
of the batch can be given values again once the potential is held between those of the
way's ends, because all shorter ways are in order, and then a way around contradicts it
(`BypassesHold`). In the other direction a shortcut is a way past its node, so it is feasible wherever the two edges are
(`ShortcutsShorten`). The remaining steps move edges without changing arcs: `CutOff` removes
only those that touch contracted nodes (`CutOffWays`), `InsertEdges` keeps the shorter of an
edge and a shortcut for each pair and direction (`InsertedWays`), `RenumberData` renames
(`RenamedArcs`, `RelabelledRepresent`), and the initial graph has the arcs of the input,
those that are merged or dropped excepted (`InputRepresented`). Loops at a node, whose
pruning is wrong (finding 3), are longer than nothing and do not matter for distances
between nodes. `DistancesInv` speaks of all potentials and of infinite sets of arcs, so TLC
does not evaluate it; `ch_routes` checks `DistancesPreserved` itself.

**`CellCustomizer_proofs`**, from `NAssumption` and `CustomizerAssumption`: cells of a level
lie inside cells of the next, and no sum of weights overflows, which the code does not
check. The bound assumed for that (2 * N times the heaviest turn is less than
`INVALID_EDGE_WEIGHT`) is simple and sufficient, not necessary: a country-size network does
not satisfy it although its shortest ways are far from the limit. `MetricsAreExact` proves
`CustomizerSpec => []MetricExact`; `CustomizerSpec` is the customisation alone, which is what
`MLDRouting` does to these variables (`Customizing`; its other actions leave them alone).
`CustomizerInvariant` proves the inductive invariant, `CustomizerInv`, which says of every
step what `MetricExact`, which `mld_routes` checks, says of a finished metric:

| part | why it is needed |
| --- | --- |
| `InputInv` | graph, partition and filters do not change, so what was exact stays exact |
| `IsMetric` | a row has an entry for each destination of its cell, in every state |
| `CellExact` for the levels below | a search follows shortcuts of the level below instead of edges |
| `CellExact` for finished cells of the level | the cells are done in parallel; each writes only the rows of its own sources (`CustomizeExact`) |
| `CellExact` for finished filters | the goal itself |

The argument for one search (`SearchExact`). It goes from a node at the border of its cell
along edges that cross sub-cells and along shortcuts inside them, so it never sees most
nodes. `SearchInv` is the invariant of its loop (`SearchStep`): keys are not below distances,
settled keys not above open ones, and every settled node has been followed. A node that was
reached by a shortcut is not followed by another, and need not be, because the node before it
has a shortcut to everything it could reach in the sub-cell (`ReachedByShortcut`). To show that
the keys are not above distances either, the search is turned into a potential (`Reach`): each
node of the cell, also inside sub-cells, is given the least settled key plus the way inside its
sub-cell, but no more than the least open key. This is feasible for all turns of the cell
(`ReachFeasible`), and distances are the greatest feasible potential (`DistancesAreGreatest`).
The ways that `RelaxNode` takes are those the argument needs (`NodeWays`): boundary nodes are
found in both edge directions (`TurnEnds`), a node at the border of a cell is at the border
of its sub-cell (`BorderBelow`), and the loop over a row stays in step with the list of
destinations although its `continue` does not advance it, because a destination that is not
allowed is out of reach and its entry is invalid (`SubcellShortcuts`). The search stops when
its destinations are settled; the others are not allowed (`RowExact`).

Only model-checked:
- all liveness (`DatastoreEnds`, `WatcherCatchesUp`, `DestructorReturns`, `NotifiedWakes`
  and those of `Connection`), because the prover does not reason about fairness;
- `QueryShortest` and `UnpacksToRoute`. The theorem above is about the nodes that are left;
  a query uses the edges of all nodes, upwards only, with stalling, and its hierarchy may
  come from two contractions. Its proof needs the order in which nodes left as state of
  the model, and the unpacking is a recursion over shortcuts of shortcuts;
- `SearchShortest` and `SearchUnpacks`: `MLDRouting` follows the recursive calls of the code
  (`search` unpacks a shortcut by a search of its own) with `RECURSIVE` operators, which the
  prover's SMT translation does not support.

## 5. Findings

1. `osrm-datastore --max-wait` (`src/tools/store.cpp:125`): the help says that after
   the wait the lock is acquired "by force". `swapData` gives up, removes the new
   segments, keeps their keys reserved, and the process reports success. Run
   `du_maxwait`.
2. `src/server/connection.cpp:183-185`: the comment on `handle_timeout` lists when it
   is called; a fourth case cuts off the reply to a request that arrived just when
   the timer expired. Run `conn_timeout`.
3. `src/contractor/graph_contractor.cpp:191`: a loop at a neighbour is pruned by the bound
   of the contracted node, not by that of the neighbour, although the comment says to
   "keep inserting this loop if it should still be the best". Of three nodes 2 - 1 - 3,
   contracting 3 sets the bound of 1 to the weight of 1-3-1; contracting 1 then drops the
   loop 2-1-2, and a query that has to come back to its one-way segment 2 finds no route.
   Run `ch_loop`; `QueryShortest` is stated without such queries.
4. `include/contractor/contract_excludable_graph.hpp:58`: the contraction shared by all
   exclude filters accepts witnesses past excludable nodes, so a query that excludes them
   misses the shortcut and finds a longer route or none. `docs/http.md:200` promises the
   fastest route, `docs/profiles.md:112` that the listed combinations are supported. Run
   `ch_exclude`; `QueryShortest` is stated for queries that exclude nothing.
   `UnpacksToRoute` holds with exclusion too: what is found is a real, allowed route.
5. `include/engine/routing_algorithms/routing_base_mld.hpp:423`: two turns of the same weight
   in opposite directions share an edge that keeps the turn id of one of them
   (`include/partitioner/edge_based_graph_reader.hpp:124`); the reverse search adds that
   turn's penalty to the weight of the other segment (the assertion about it is commented
   out). When the penalties differ, a query finds a longer way than the fastest route that
   `docs/http.md:200` promises. Run `mld_merged`; `SearchShortest` and `SearchUnpacks` except
   such networks (`MergedTurnsAgree`).

The models also show limits that the properties except explicitly.

- A process that dies with the monitor's mutex blocks all others. It need not be killed: the
  monitor exists from the beginning of `Storage::Run`, and an `osrm-routed` that is started
  before the data is published throws while it holds the mutex
  (`include/engine/data_watchdog.hpp:49`, "Did you run osrm-datastore?"), and nobody catches
  the exception. The datastore that is loading then blocks in `swapData` for good, unless it
  was given `--max-wait`, and later ones wait for its file lock
  (`src/storage/storage.cpp:204`). `DatastoreEnds`, `WatcherCatchesUp` and `DestructorReturns`
  except this state (`MutexLost`); without the exception TLC finds this behaviour.
- A datastore that is killed before `notify_all` leaves watchers asleep on old data until the
  next update; failed and timed-out updates keep their keys reserved for the life of the
  monitor; a process that stays on an unlinked monitor is not protected from later datastores.
- `docs/http.md:3`: "Persistent connections are limited to 512 requests". The budget is
  decremented after a reply, so 513 are served (three for `MaxRequests` = 2 in `conn_serve`);
  `AnnouncedLimitKept` shows that the limits announced in replies are kept.
- Two unequal priorities below 1 that tie keep both nodes from being contracted
  (`src/contractor/graph_contractor.cpp:523`); section 2 says when that can happen.
- `docs/http.md:590` says that a turn's weight may be negative and that "ACTUAL ROUTING USES
  THIS VALUE". In MLD a turn that weighs less than 1 with its segment is raised to 1 in the
  graph the shortcuts are made from (`include/partitioner/edge_based_graph_reader.hpp:42`),
  while the query counts it as it is on edges between cells, so the same turn costs more
  inside a cell than across a border. `mld_routes` has such networks: the weight found lies
  between those of the shortest routes with and without the clamp (`SearchShortest`), and
  `FastestRoute` fails on them (`MCBonusNetworks`) as it does in `mld_merged`. Routes whose
  weight is negative, which the search takes for a target behind the source, are excepted
  (`Searchable`). Segments weigh at least 1 and the updater clamps the penalties it touches
  (`src/updater/updater.cpp:779`), so only a profile's own bonus gets there.

## 6. Not modelled

See `components` in `PROJECT.json`. The models stand for a small share of the repository's
lines. Most of the rest is data transformation without state that outlives a call: the
extractor with its Lua profiles and intersection analysis, guidance, the API's answers and
their generated encodings, grammars, Node.js argument conversion, and file formats. A model
of those would restate the code and check nothing a test cannot; they are left out on
purpose.

Within reach but open: many-to-many, alternative and map-matching searches on both
hierarchies; Dinic's maximum flow in the partitioner; the updater. Known gaps in the
modelled parts: monitor creation in several steps, `--list` and `--spring-clean`, names
longer than 254 characters, tearing of `active`, durations
and distances of shortcuts, `StaticGraph::FindEdge`, which looks an unpacked edge up
without its direction when MLD returns edge ids.

## 7. Plan

1. Done: the data update, the monitor and its refinement, the connection; contraction, CH
   query, customisation and MLD query, each against a reference definition.
2. The server: accept loop, `Stop`, the 2 s limit and the watchdog's destructor
   composed; the request parser's automaton with the claim that its verdict does not
   depend on how the bytes are split, refined to the parser of `Connection`.
3. An abstract specification of the dataset service (a client sees a sequence of
   complete datasets) implemented by `DataUpdate`; the array of the register
   refined to the function; monitor creation in steps.
4. Many-to-many searches on the models of section 2; Dinic's maximum flow;
   `ConcurrentIDMap` under concurrency.
5. Proved for the contractor: consistency of the array under the operations of
   `DynamicGraph`, `ArrayConsistent`, `ContractedApart`, `RoundContracts`, and
   `DistancesPreserved` for the first contraction; for the customizer: `MetricExact`. Open:
   distances in the second contraction of a filter, and that a query on a finished hierarchy
   or metric finds the shortest route, which for the contractor needs the order in which
   nodes left in the model.
