# TLA+ models of iostash

iostash is a Linux kernel driver that caches block device *targets* (HDDs) on
*caches* (SSDs). It takes over a target's `make_request_fn`, serves reads that
hit from an SSD, lets writes invalidate, and fills the cache in the background.
This directory holds models of its core, written from the source, the TLC
configurations that check them, and TLAPS proofs of the safety properties they check,
but for those of one module.

Paths below are relative to the repository root.

## 1. Inventory

| Component | State | Operations | Talks to |
|---|---|---|---|
| cache engine (`src/sce_interface.c`) | `sce->lock`, tables of LUNs and cache devices | `sce_addlun/rmlun`, `sce_addcdev/rmcdev`, `sce_get4read/put4read`, `sce_invalidate`, `sce_get4pop/put4pop` | everything below; called by hook and PDM |
| LUNs and mapping (`src/sce_lun.c`, `src/sce_mapping.c`) | `fragmap` (unmapped + heat, or mapped + valid + pfid), `nr_service`, `waiting4deletion`, a lock per LUN | map, unmap, purge, collect, forget a device | fragments, free list |
| fragments (`src/sce_fragment.c`) | invalid-page bitmap, `nr_valid`, `nr_service`, `nr_ref`, `nr_miss`, owner | set and test ranges | |
| free list (`src/sce_freefraglist.c`) | linked list through the fragments, `nr_freefrag` | get, put, drop a device | |
| population (`src/sce_population.c`, `src/iostash_population.c`) | task in flight | choose, allocate, read HDD, write SSD, complete, cancel | miss log, eviction, mapping |
| miss log (`src/sce_misslog.c`) | ring of recent misses | put, get | population |
| eviction (`src/sce_eviction.c`) | clock arm | sweep | devices, mapping |
| cache devices (`src/sce_cachedev.c`, `src/sce_util.c`) | fragment tables, slots | init, destroy, lookup | |
| I/O hook (`src/iostash_iohook.c`) | `struct iostash_bio` per read: `io_pending`, `error` | submit, worker, completion, retry | engine, SSD, HDD |
| targets (`src/iostash_hdd.c`) | table, `online`, `nr_ref`, `io_pending`, pools, block device, saved request function | register, unregister, unregister all | hook, engine |
| caches (`src/iostash_ssd.c`) | table, `online`, `nr_ref`, block device | register, unregister, unregister all | hook, engine |
| PDM (`src/pdm.c`) | threads, each with its last sample of the counters | create, destroy, sample, one population per iteration | engine |
| module, control files (`src/iostash_module.c`, `src/helpers.c`) | `ctl_mtx`, tables, `nr_hdd`, sysfs | load, unload, commands | targets, caches, PDM, engine |

Interaction. A submitter enters `iostash_mkrequest`, which calls the engine
under the LUN's lock and, on a hit, hands a clone of the read to the SSD through
a work queue; its completion gives the fragment back. PDM threads call
`sce_get4pop` (under `sce->lock`, then the LUN's lock), read the HDD, write the
SSD and call `sce_put4pop`, without locks in between. Control commands run under
`ctl_mtx` and remove LUNs and devices while all of this is going on.

What is hard, and what would make each part right:

* Service counts are taken and given back on a dozen paths, by different actors:
  they must be exact, and the last one out must finish what a deletion or an
  invalidation left to it (`Sce`).
* Mapping, back pointers and free list are three views of one thing (`Sce`).
* `sce_get4pop` looks at a fragment before it has the LUN's lock (`Sce`).
* A cached page must equal the disk though writes only invalidate when they are
  submitted (`Coherence`).
* `sce_rmcdev` walks over structures under several locks while requests run, and
  the SSD's control block goes away afterwards (`Hotplug`).
* A read struct is shared by submitter, worker, completion and retry, and whoever
  is last frees it (`IoHook`).
* Ring indices, word masks, the arm of the clock over devices of different size
  (`MissLog`, `FragBitmap`, `Clock`).
* What belongs to the whole engine (free list, miss log, fragments of other LUNs) is
  changed under the lock of one LUN, so two LUNs do it at once (`LunLocks`).
* Population and hit compute the address of a sector in different places and widths
  (`FragCopy`).
* Targets and caches come and go, and the module with them, while requests hold a
  request function that has been swapped back and tasks hold raw pointers; the last
  stages of unloading are not under `ctl_mtx` (`Driver`).
* A LUN is registered under `sce->lock` and purged under its own lock: both meet on
  the slot of the table and on `nr_lun` (`LunSlot`).
* Eight threads decide by two samples of wrapping counters which of them populates
  (`Pdm`).

`PROJECT.json` lists these hazards line by line.

## 2. Modules

| Module | Models | Uses |
|---|---|---|
| `Sce` | the engine with its readers and population tasks | |
| `Coherence` | the engine plus writes in flight to the disk | extends `Sce` |
| `Hotplug` | the engine plus removal of a cache device | extends `Sce` |
| `EngineProofs` | proofs about these three, in three parts | `Coherence`, `Hotplug` |
| `IoHook` | a read from submission to completion, removal of its target | |
| `IoHookProofs` | proofs about `IoHook` | `IoHook` |
| `RecentMisses` | abstract: the log of the most recent misses | |
| `MissLog` | ring buffer, heat and choice; implements `RecentMisses` | |
| `MissLogProofs` | proofs of that refinement and of the choice | `MissLog` |
| `Clock` | eviction by the clock arm | |
| `ClockProofs` | proofs about `Clock` | `Clock` |
| `Policies` | the two policies side by side | extends `MissLog`, `Clock` |
| `FragBitmap` | bitmap words against the set of invalid pages | |
| `FragCopy` | what a fragment holds: addresses of population and hit | extends `FragBitmap` |
| `FragCopyProofs` | proofs about `FragCopy` and its bitmap | `FragCopy` |
| `LunLocks` | free list, eviction and miss log, one load or store at a time | |
| `LunLocksProofs` | proofs about `LunLocks` | `LunLocks` |
| `LunSlot` | slots of `luntbl`: registration against purge, one load or store at a time | |
| `Driver` | loading, registration, removal and unloading against requests and tasks | |
| `DriverProofs` | proofs about `Driver` | `Driver` |
| `Pdm` | the threads of the PDM and their decisions | |
| `PdmProofs` | proofs about `Pdm` | `Pdm` |

Each `MC*` module adds only the model values, symmetry sets and bounds of its instances.
Definitions marked *Mutant* are wrong variants of the definition that follows;
no specification uses them; substituting one shows that a property can fail.

### Sce

A logical fragment is `<<lun, number>>`, a physical one `<<device, offset>>`.
`map`, `valid` are the `fragmap` with its two flags, `owner` the back pointer in
`frag_t`, `svc` and `lunsvc` the two `nr_service`, `bitmap` the set of invalid
pages. `upc`, `ulf`, `upf` say what each reader or task is doing, on what.

*One action is one critical section.* `sce_get4pop` is the one call with two: `Choose`
(under `sce->lock`) and `AllocFree`, `AllocEvict` or `AllocFail` (with the LUN's lock),
and in between anything that needs only a LUN's lock may run. `sce_put4read`, completion
and cancellation include the purge or collection at their end. `AddLun` is one step too
and excludes a purge, which in the code it does not: `LunSlot` is about that. Both
failing paths that give nothing back are there: `PopReadError` (`pdm.c:168` skips
`sce_put4pop`) and `ReadError` (`_endio4read` retries without `sce_put4read`); such a
user is `"leaked"` and its counts stay. It goes on counting as a holder in the
invariants: `Populating` and `LastUserPurges` take a leaked task or read for a user.

Policies are open: the fragment to populate and the victim are any the code could
pick. So what holds here holds for every policy, including those of `MissLog` and
`Clock`. `Drain` says whether the caller of `sce_rmlun` waits for its reads first,
as `_unload_hdd` does; `FALSE` is what the interface allows by itself.

### Coherence

Data is one bit per page and copy: does it equal the disk? A write is submitted
(invalidating if it passes the hook) and lands later (`Land`, the disk itself,
external). Populations copy what the disk has when they read it. Two histories
mark the pages under a write that was already in flight when the mapping was made,
and under a write that did not pass the hook. Slot `l` stands for one disk.

### Hotplug

`RmCdevStart` (free list), `RmCdevLun` (one LUN after the other), `RmCdevEnd`
(device table, `sce->lock` released), `DrainSsd` (offline, wait for `nr_ref`),
`FreeSsd`. Everything that takes only a LUN's lock interleaves between them.
A population that would take a fragment of an absent device off the free list is a
kernel BUG, and a device added to a slot the free list still names corrupts the
list: both stop the model, so nothing is claimed about what follows them.

### IoHook

Each `_dec_pending` call is a step of its own; `owes` counts the calls running code
still has to make. So the completion of a failed clone, the worker of its retry
and the submitter interleave at each decrement. After a struct has been freed the
model goes on with the values it had. `mishap` is a history of what befell a
request, and the properties that make exceptions name them through it. From 4.4 on
the first run of the worker is a call, not a queued work item: one of the
interleavings modelled.

### MissLog, Clock, Policies

`Chosen` and `Sweep` are the loops of `_choose4population` and `_evict_frag` as
recursive functions, compared in every reachable state with what they should
compute. Each call is atomic; `LunLocks` takes them apart.
`Policies` puts the two side by side. They share no variable: what connects them in the
code is the engine, and `Sce` lets it take any choice of theirs.

### FragBitmap, FragCopy

`SetBitmap` and `CheckBitmap` are the loops of `sce_fragment.c` on words of
`EntSize` bits. `FragCopy` follows one physical fragment: mapped (with the padding
of the last fragment), filled from the target, invalidated page by page, unmapped.
A sector of the SSD is represented by the number of the disk sector it was copied
from, so `HitReadsDisk` compares the addresses of `poptask_read`, `poptask_write`
and `_clone_init` and the padding of `_map_frag` by what a hit gets to see. Products
of fragment numbers are taken modulo `Word`, as in C; sums with a `sector_t` are not.

### LunLocks

A thread is named by the LUN whose lock it holds; a population holds `sce->lock` too.
`pc` says which load or store comes next: `_freefraglist_put` and `_get` are six and
five steps, `nr_freefrag++` a load and a store. The list is a head and `next` links,
as in the code. `raced` records that two threads have moved fragments at once,
`wrapped` that a miss met another one at the wrap of the log. `Races = FALSE` follows
the program up to its first race: there `ListExact` says that the linked list is the
set `Sce` takes it for. `Races = TRUE` goes on. The assertions of `sce_freefraglist.c`
end the thread that fails one (`"bug"`): `BUG_ON(sce->nr_freefrag > sce->nr_frag)` after
the increment, `== 0` before a get, `!frag` in it. A miss that stores one entry beyond
the ring hits the field behind it, the head of the log, which becomes the index of a
LUN; what it hits further on is not known, and the thread is not followed (`"overrun"`).

### LunSlot

A slot is the set of its fields that are not zero, its counts and its lock. `"ctl"` is
the thread in `sce_addlun` and `sce_rmlun` (there is one, under `ctl_mtx`), the others
are tasks. `at` says which load or store comes next: the scan for a slot without a
`fragmap`, `_lun_init`, `_lun_destroy` field by field, and `nr_lun++` and `nr_lun--` as a
load and a store. Calls that no other lock reaches into are one step (`RmLun`, `TaskGet`,
`TaskPut`), and fragments are left to `Sce`. `overlapped` records that a slot was taken
while its purge was under way, `lostUpdate` that two updates of `nr_lun` overlapped; what
the code does after either is modelled, unlocking a lock that is not one's own included,
and the two properties make room for them by these names.

### Driver

`res[d]` and `sres[d]` are what the `hdd_info` and `ssd_info` of a disk hold: the
structure itself, block device, pools, LUN or cache device, kobject. Registration takes
them one by one in the order of `HddParts` and `SsdParts`, may fail before each, and
then runs the removal code on what it has. `cmd`, `cdisk`, `cstep` are the holder of
`ctl_mtx`. Of unloading only the walks over the tables and the last step wait for it
(`SsdWalk`, `HddWalk`, `ExitDone`); the PDM is stopped and the engine freed whatever a
command is doing. `FreedUntouched` says that no command and no request comes to the
freed engine then, unless a disk was registered after its walk. `hook` is the set of
disks whose `make_request_fn` is the driver's; a request reads it in one step and enters
the driver in a later one. Unloading runs through `mod`, and the control files work
until its last step. What is undefined (tables that are all zero, a freed structure in a
table that is walked, a closed device that is used) stops the model or the thread, and
nothing is claimed beyond it.

### Pdm

A thread samples hits, misses and free fragments, compares them with its row of
`gpdmcfg`, and populates. The engine is reduced to what it sees. Counters are true
values; the code's are those modulo `Word`, and `MissRate` computes modulo `Word`.

## 3. Runs

| Run | Configuration | Shows |
|---|---|---|
| `sce` | 2 LUNs of 3 sectors, 2 fragments on one device, 2 pages each, 2 readers, 2 tasks, both faults, fairness | eight invariants and one action property of the engine; a deletion that waits is completed |
| `coherence` | 1 LUN of 4 pages, 1 physical fragment, 2 writes, both faults | cached pages equal the disk, with two named exceptions |
| `coherence_overtaken` | 1 write (violation) | the first of these exceptions happens |
| `hotplug` | 2 LUNs, 2 devices, 2 readers, 2 tasks, 1 removal, both faults | mappings, back pointers, free list and LUN counts survive; no `ssd_info` is freed under a read after the wait |
| `policies` | 2 LUNs of 1 or 2 fragments, ring of 3, window of 2; 2 devices of 1 or 2 fragments, ceiling 2 | ring = log of recent misses; the hottest is chosen; a victim is found and is the coldest |
| `iohook` | 2 reads, all faults, removal, fairness | six properties of the read path |
| `fragment` | 8 pages of 2 sectors, words of 3 bits, 2^32 scaled to 64 | bitmap = set of invalid pages; a hit reads what the disk holds |
| `driver` | 2 disks, 1 request, 1 task, all faults, fairness | what is in use is whole, roles are disjoint, the freed engine is left alone, unloading ends and leaves nothing |
| `lunlocks` | 2 LUNs, 3 fragments, log of 2, up to the first race | the list is exact, the log's head is in the ring |
| `lunlocks_race` | 2 fragments, beyond the race (violation) | the count of the free list is zero when a fragment is taken off it |
| `lunslot` | 2 slots, 2 tasks, counts modulo 4 | what is registered is whole, what is removed is purged, but for two races |
| `pdm` | 2 threads, 1 fragment, 7 reads, all faults, 2^32 scaled to 6, fairness | the miss rate is the true one; somebody populates |

Why the bounds are enough to be interesting. Two LUNs compete for the flash, so eviction
takes from one for the other. A LUN of 3 sectors has a full and a partial fragment (the
padding of `_map_frag`). Two readers share a fragment while a task populates another.
Device tables get holes, devices differ in size. The ring wraps and its window is
shorter than it. Words of 3 bits do not divide 8 pages, so ranges start, end and lie
across word borders; targets of 37, 61 and 70 sectors end inside a page and inside a
fragment, below, across and above 64, where 32 bits wrap. Two reads are the fewest for
one to take the SSD offline under the other. Two disks, each usable both ways, are a
target and a cache, two of either, or one disk asked for both. Two threads of the PDM
are one with conditions and the one without; 7 reads wrap counters of 6. Three fragments
let the list have an inner link. Two slots and two tasks are a LUN that is registered
while one or two others are purged, in its slot or beside it; counts modulo 4 are never
wrapped but by a race. `MaxRemovals`, `MaxMisses` and `MaxReads` bound removals, the
misses of a fragment between populations, and reads; `Reader`, `Task`, `Writer`, `Io`
bound what is in flight at once; `Races` is explained above. `MCOneAtStart` keeps one
policy at its start while the other goes through all its states, instead of the product
of the two.

Symmetry is used for readers, tasks and writes, which nothing orders, for the tasks of
`LunSlot`, and for the LUNs of `LunLocks`, which are only compared; not in runs with
liveness. LUN and device numbers are ordered elsewhere in the code and get none.
Deadlock checking is off where the system may stop: in `iohook` (each read is submitted
once), in `driver` (an unloaded module), in `pdm` (a PDM that is gone, or all reads
done) and in `lunlocks` (the bound `Races`).

Fairness. In `Sce` a read that was handed to an SSD is completed and a PDM thread
inside an iteration goes on: the block layer completes each bio, the threads do not
wait for one another. In `IoHook` the submitter runs on, queued work is run, bios
complete, `_dec_pending` calls are made, and the waits of `_unload_hdd` end when
their condition holds (they spin with `schedule()`). In `Pdm` each thread runs: `msleep`
and the I/O of a task end. All of this is weak fairness. In `Driver` running commands,
requests and tasks go on (weak), and unloading is not held up for ever by commands that
keep taking `ctl_mtx` (strong): a kernel mutex is handed on in the order of its
waiters. Nobody is obliged to submit, write, configure, remove or unload anything.

### Exceptions and deviations

Two runs show the code at odds with what an assertion, a comment, the README or a test
says of it; `PROJECT.json` quotes the lines. These and further deviations are built into
the models, and the properties of the passing runs make room for them:

* a population whose HDD read fails keeps its counts (`pdm.c:168`), and so does a read
  that failed on the SSD (`iostash_iohook.c:69`), though `sce_lun.c:173` promises the
  purge of a LUN that "has just finished servicing": such LUNs are excepted in
  `DeletionCompletes`, lost pins in `PinPut`, a cache used up by failed populations in
  `SomebodyPopulates`;
* a write that ends in the last sector of the target skips the hook
  (`iostash_iohook.c:378`): `unhooked` in `CoherentButForRaces`; a write may land after
  the population that follows its invalidation has read the disk: `late`
  (`coherence_overtaken`);
* a fragment released while `sce_rmcdev` is under way goes back on the free list of a
  device that is about to go (`sce_interface.c:149`), where a later `_freefraglist_get`
  meets `BUG_ON(!frag)`: `returned` in `FreeButForReturned`;
* an SSD that an error has taken offline is freed without waiting for its readers, and
  its freed `ssd_info` stays in the table (`iostash_ssd.c:113`): excepted in
  `ReadsOutliveNoSsd` and `UnloadEnds`;
* after the removal of a device a late `sce_put4read` may hit the fragment the data has
  moved to (`sce_interface.c:362`): `Hotplug` says that LUN counts cover their users,
  and no property says it of fragment counts;
* a read whose SSD goes offline between submission and worker flows to the HDD, where
  `_endio4read` takes its completion for that of a retry and decrements twice
  (`iostash_iohook.c:254`): excepted in `ReleaseIsLast`;
* an entry of a removed LUN ends the search of the miss log (`sce_population.c:264`) and
  one that is too large for the slot's new LUN is looked up beyond its `fragmap`: `Seen`
  and `HasFrag` in `ChoosesHottest`;
* the heat of a fragment that was never cached starts at 0x5555555 (`sce_lun.c:101`):
  `FreshHeat`; `ChoosesHottest` is about heat, not about numbers of misses;
* a sweep is one step short when all fragments are at the ceiling (`sce_eviction.c:84`),
  and the arm misses devices behind a hole (`:45`): the conditions of `EvictsColdest`
  and `RoundIsComplete`;
* from kernel 4.2 on a read that failed on both devices is completed as a success
  (`iostash_iohook.c:200`): the `iohook` run is about older builds (`NewKernel`);
* a read that got past the online check can be allocated between the two waits of
  `_unload_hdd` (`iostash_hdd.c:121`): `"late"` in `QuietButForLate`;
* a retry without memory is never completed: `EveryReadEnds`, `RemovalEnds`;
* fragment numbers times sectors per fragment wrap at 2^32 sectors, on the target and on
  the SSD, and `poptask_write` and `_clone_init` wrap differently where only the header
  crosses: `Fits` in `HitReadsDisk`;
* two LUNs at once race on the free list: counts and links are lost and assertions fail
  (`lunlocks_race`); an eviction can take a fragment from a hit that has looked and not
  yet counted: `stolen` in `HeldUnlessStolen`; a miss that loads the log's head at the
  wrap stores beyond the ring: `wrapped` in `HeadInRing`;
* a slot whose purge has cleared `fragmap` and not yet the rest can be taken by
  `sce_addlun`, whose LUN then loses its size, context or count: `overlapped` in
  `RegisteredIsWhole` and `RemovedIsPurged`; `nr_lun` can lose an update, and a purge
  that finds it zero is refused: `lostUpdate`;
* a counter that has not moved is taken for one that wrapped, so a thread that saw only
  misses computes too low a rate and one that saw only hits a rate without meaning
  (`pdm.c:195`), and a hundred times the misses of a sample can wrap (`:198`): the cases
  of `RateIsTrue`;
* `pdm_create` does not notice a thread that could not be started (`pdm.c:97`), and
  `kthread_stop` is called on it, or on one that has exited for want of memory: the
  model stops there;
* a command during unload can leave a hook into a module that is gone, or make unload
  wait for ever (`iostash_module.c:234`): `late` in `CleanExit`, `FreedUntouched` and
  `UnloadEnds`;
* a request that reads `make_request_fn` before unload and enters after it is lost,
  though the comment at `iostash_iohook.c:343` says it is requeued: `LostOnlyAtUnload`
  is about the time before;
* a removed target stays in the table until unload, so it cannot be registered again
  (`iostash_hdd.c:83`);
* the block device of a target is closed before the engine forgets the LUN
  (`iostash_hdd.c:149`), and tasks hold no reference to target or cache: a task may use
  what is gone (`"oops"`), and `HandsOutOpen` says what the engine itself guarantees;
* the control files are there before the mutex and the tables are initialised, and a
  failed `iostash_init` walks these tables (`iostash_module.c:287`): `LoadCrash`;
* a target removed by command has its kobject put again at unload (`iostash_hdd.c:418`):
  not followed, kobjects being the kernel's.

## 4. Proofs

**The engine** (`EngineProofs`, part 1, about `Sce`). Proved for every number and size
of LUNs, devices, fragments, pages, readers and tasks, with or without faults and
draining, are the type invariant (`TypeCorrect`; no service count falls below zero),
`CountsExact`, `MappingExact`, `HoldersPinned`, `UnfinishedIsPopulated`, `NoZombieLun`,
`GarbageCollected`, `ChoiceIsStable`, and the action property `HoldersUndisturbed`. The
one assumption is `SceAssumption`, the shape of the constants.

None of these invariants is inductive alone. That a `put` finds the fragment it took a
count on needs `Pinned`; that a count does not go below zero needs `Accounting`; that an
eviction or a purge takes nothing from a user needs both; that a cancelled population
frees a fragment nobody else holds needs the clause of `Pinned` on tasks; that `AddLun`
finds a clean slot needs `Partition` and `LastUserPurges`. So `IInv` is the conjunction
of all of them with `Shape`, which says what a user may hold in which state. `InitIInv`
and one lemma per action (`...Step`) make up `NextIInv`. `Gain`, `Lose` and `Same` say
how the number of holders of a fragment or LUN changes; `UnmapPartition`,
`PurgePartition`, `Release` and `Allocate` carry the shared parts. `StepFrame` gives the
action property from `IInv`.

**Coherence** (part 2). Proved are `Coherent` (`CoherentButForRaces`) and, on the way,
that the engine keeps `IInv` under writes (`EngineInvariance`). Two facts make it
inductive. A write in flight is known to every mapping it touches: it has invalidated
the pages, was under way when the mapping was made, or skipped the hook (`WritesKnown`);
else the landing of a write would make a readable page differ from the disk. And the
buffer a task is about to store equals the disk but for such pages (`BuffersGood`); else
the end of a population would. `ExcusesKept` says that invalid pages and histories only
grow while a mapping lasts, which is most of each step. `ImplementsEngine` is the
refinement behind this: submitting a write is an invalidation of the engine or nothing
at all, landing it is a stutter, so `Coherence` implements `Sce`, and what holds of
every behaviour of the engine carries over without a proof of its own, the action
property (`CHoldersUndisturbed`) among it.

**Removal** (part 3, about `Hotplug`). Proved are `MappingsSurvive`, `LunOutlivesUsers`,
`FreeListExplained`, `NoReadOutlivesSsd` and the types. `IInv` does not hold here: a
removal takes mappings from their users without touching a count, a task then completes
what another one has mapped, and fragment counts lose their meaning. What is left is an
inequality. A LUN counts at least its requests, and at least its tasks *plus* the counts
of those of its fragments that can serve reads (`Covered`, over a set with one token for
each such count). The second half is what keeps the first: a `put` of a reader takes a
token, one of a task takes the task, and a LUN whose count is zero has neither, so that
its fragments are out of service when it is purged. `Unfinished` (what cannot serve
reads yet is held once and has a task at work on it) covers the fragments without
tokens. `Removing` says which LUNs `sce_rmcdev` has visited and that it keeps
`sce->lock`, `Late` where stray entries of the free list come from, `Draining` that a
device on its way out is out of the engine, so that no read can start on it after the
wait. Beyond `SceAssumption` the proof uses that `None` is no device. `LunUndisturbed`
is what remains of `HeldIsKept`: a removal takes fragments from requests in flight, but
no step takes their LUN.

**The I/O hook** (`IoHookProofs`). Proved are the four invariants of the `iohook` run,
that the fragment of a request is put (`PinsPut`), and that no read is completed twice
(`CompletesOnce`). `Balance` equates `io_pending` of a request with the decrements that
running code owes now and those that will be owed later (`Future`: by the clone, the
retry or the queued worker; minus one for a read taken for a retry); `Life` ties the
struct to it; `Phase` says which flags and which pin go with which state.
`ErrorsReported` assumes `NewKernel = FALSE`, as the run does: from 4.2 on it does not
hold. Of the liveness property `EveryReadEnds` two halves need no fairness and are
proved: nobody forgets a read (`NobodyForgotten`: it is queued, on a device, owed a
decrement by running code, or stuck without memory), and every step on a read decreases
a measure of what it still has to do (`ReadsComeNearer`), which is never above 13
(`TakesFewSteps`). What is left to TLC is that the steps owed are taken.

**The driver** (`DriverProofs`). Proved are the six invariants of the `driver` run. For
each disk `Target` and `Cache` list what its structures can hold at each step of the
command that holds `ctl_mtx`, and that nothing is half-built otherwise; `Exclusive` is
why a disk cannot pass the checks for both roles; `Stage` bounds tables and commands by
how far the module is loaded. That nothing touches the freed engine (`FreedAlone`) is
this bound once more: the walks have emptied the tables, so no command is left that has
a LUN or a device to give back, and only a late one could come to take one.

**Two LUNs at once** (`LunLocksProofs`). Proved are `HeadStays` for all behaviours, and
`HeldKept` and `ListIsExact` up to the first race. `Ring` says that whoever has loaded
the head of the log has loaded one within it. The rest hangs on `Alone`: while one
thread at a time moves fragments, `Chain` describes the list as a sequence without
repetitions whose elements are those marked as on it, off by the fragment at hand
between two stores of the mover; `Owned`, `Claims` and `Moving` say where each fragment
is meanwhile. `ListExact` speaks of the walk `At`, a recursive function: the proof
exhibits a function that satisfies its equation, the sequence of `Chain`, and shows by a
least counterexample (lemma `Least`, from the well-foundedness of the naturals) that the
walk agrees with it. That LUNs are named neither `"list"` nor `"free"`, the two marks,
is part of `LunLocksAssumption`.

**The PDM** (`PdmProofs`). Proved are `RateTrue` for every width of the counters: no
sample is ahead of the counters (`SamplesBehind`), and the rest is arithmetic of `\div`
and `%` (`RateLemma`); and `FragmentsConserved`.

**The miss log** (`MissLogProofs`). `RingImplementsLog`: `MissLog` implements
`RecentMisses` for every log size. `RingOK` is the inductive part; `LatestIsNew` and
`OthersAge` say that a put becomes entry 0 and moves all others one place back, across
the wrap and with the oldest one overwritten; `PutRecords` turns this into a step of the
abstract log. `PopulatesHottest` is about the search through the window: after `n`
entries the best of them is the hottest candidate among them, the most recent of equals,
and the search ends at the first entry of a removed LUN.

**The bitmap and the copy** (`FragCopyProofs`). A word is a number; the proof reads it
as a set of bits. Lemmas on `Pow2` say what adding one bit, a run of ones and a shifted
run do to each bit (`AddBit`, `RunOfBits`, `MaskBits`), for every width of words. From
them `SetBitmapMarks` (the loop sets the bits of its range, leaves the others, and
counts those it changed) and `CheckBitmapClear` (the masks of head, middle and tail
words together are the range). `BitmapOK` then says that the words are the set of
invalid pages, which gives `ValidCounted` and `RangeChecked`. `CopyOK` adds what the SSD
holds of the disk and that the padding is invalid (`PaddingFits`); `AddressesAgree` is
the arithmetic of the two addresses. `HitReadsDisk` keeps its condition that the
products do not wrap (`Fits`): where they do it is false, as section 3 says.
`HitsWithinTarget` does not need it: no hit covers a sector behind the end of the
target.

**The clock** (`ClockProofs`). `Rank` of a fragment is the number of fragments before it
in the order of the table; where the table has no holes (`Compact`, so that the devices
are the first `NrCdev` slots: `DevsAreFirst`) a step of the arm takes the rank to the
next one modulo the number of fragments (`ArmAdvances`, `RankNext`), and a round visits
all (`VisitsAll`). A sweep takes one reference at each visit. So it passes over a
fragment out of service as often as it has references and stops at the next visit: the
sweep cannot stop at one fragment before another one with fewer references, and cannot
go on beyond the number of its steps if one is below the ceiling (`FindsColdest`). That
all fragments at the ceiling defeat the sweep is the condition of the theorem, and of
the code.

Loops are recursive functions here, and an induction over what they compute is not
available (the library's theorems take an operator). The way round is a least
counterexample: `Least` (from the well-foundedness of the naturals) and `LoopRuns` (a
function that follows the loop's body step by step exists and is the recursive one).
They are repeated in the modules that need them, which have nothing else in common.

The strengthened invariants (`IInv` of each, `CIInv`, `HIInv`) were checked with TLC on
the instances of the runs before they were proved.

Every invariant and action property the passing runs check is stated by a theorem, but
for the two of `lunslot`. Only model-checked are these and liveness
(`DeletionCompletes`, `EveryReadEnds`, `RemovalEnds`, `UnloadEnds`,
`SomebodyPopulates`), which TLAPS does not reach: it needs `ENABLED` under fairness. The
violations are counterexamples and have no theorem.

Type invariants that no run checks are proved as well, alone or as part of `IInv`, and so
are `PinPut`, `HeldUnlessStolen` and `RoundIsComplete`.

## 5. Not modelled

Asynchronous write-through (`SCE_AWT` is commented out); statistics, their text in sysfs,
and the parsing of control commands: text conversions without state; kobject reference
counts and memory ordering inside the kernel; partitions given as targets ("TODO: support
caching from partitions", `iostash_hdd.c:342`); kernels up to 3.1 in `Driver`; the
scripts. Within a critical section `LunLocks` splits only what is shared between LUNs;
the other modules take a section as one step.

## 6. What could follow

The models of section 2 are complete as far as section 5 allows, and what they claim is
proved but for liveness and `LunSlot`. Worth doing next, in this order:

1. `RegisteredIsWhole` as a theorem. It needs that every thread in a purge holds the lock
   of its slot, that the slot's count is the number of tasks using it, and that both hold
   only until the first overlap.
2. Measures like `Remaining` for the waits of unload (`UnloadEnds`) and of removal
   (`RemovalEnds`), so that as much of them as needs no fairness is proved.
3. `SCE_AWT`, should asynchronous write-through be compiled in: it adds a second bitmap,
   write counts and a destager to `Sce`, and dirty pages to `Coherence`.
4. Properties for the three hazards without one: the control files that appear before
   their mutex, the kobject that is put twice, a PDM thread that could not be started.
   The models stop at the first and the last.
