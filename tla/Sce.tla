-------------------------------- MODULE Sce --------------------------------
(***************************************************************************)
(* The solid-state cache engine of iostash (src/src/sce_*.c) together with *)
(* the callers that hold its fragments: reads served from an SSD           *)
(* (iostash_iohook.c) and population tasks of the PDM threads (pdm.c).     *)
(*                                                                         *)
(* An HDD target is a LUN, cut into logical fragments <<lun, fragnum>>.    *)
(* An SSD is a cache device, cut into physical fragments <<cdev, offset>>. *)
(* The engine maps logical onto physical fragments, counts the requests in *)
(* flight on each fragment and on each LUN (nr_service), and keeps a       *)
(* bitmap of invalid pages per physical fragment.                          *)
(*                                                                         *)
(* One action is one critical section.  get4pop takes two: the choice of a *)
(* fragment under sce->lock, then the allocation under the LUN's lock, and *)
(* between them anything that needs only a LUN's lock may run.             *)
(*                                                                         *)
(* Left out here because no control depends on it at this level: hit and   *)
(* miss statistics, and the policies.  The heat and miss log that pick the *)
(* fragment to populate are in module MissLog; the CLOCK arm that picks a  *)
(* victim is in module Clock.  Here either may pick anything it could.     *)
(***************************************************************************)
EXTENDS Integers, FiniteSets

CONSTANTS
    Lun,          \* slots of sce->luntbl, 0 .. SCE_MAXLUN-1
    Cdev,         \* slots of sce->cdevtbl, 0 .. SCE_MAXCDEV-1
    Off,          \* fragment offsets on a cache device
    MaxFrag,      \* bound: fragments of the largest LUN
    PagePerFrag,  \* SCE_PAGEPERFRAG
    SctrPerPage,  \* SCE_SCTRPERPAGE
    LunSize,      \* sizes in sectors a target may have
    Reader,       \* reads that may be in flight on SSDs (bound)
    Task,         \* population tasks that may be in flight (bound)
    Faults,       \* which of "hdd", "ssd" can fail a read
    Drain,        \* does the caller of sce_rmlun wait for its reads first?
    None

Frag == 0 .. MaxFrag - 1
Page == 0 .. PagePerFrag - 1
SctrPerFrag == PagePerFrag * SctrPerPage
LF == Lun \X Frag
Pfid == Cdev \X Off
User == Reader \cup Task

ASSUME SceAssumption ==
    /\ Lun \subseteq Nat /\ Cdev \subseteq Nat
    /\ MaxFrag \in Nat /\ PagePerFrag \in Nat \ {0} /\ SctrPerPage \in Nat \ {0}
    /\ LunSize \subseteq 1 .. MaxFrag * SctrPerFrag
    /\ IsFiniteSet(Reader) /\ IsFiniteSet(Task) /\ Reader \cap Task = {}
    /\ Faults \subseteq {"hdd", "ssd"} /\ Drain \in BOOLEAN
    /\ None \notin LF /\ None \notin Pfid

VARIABLES
    size,      \* lun_t.nr_sctr; 0 when the slot has no fragmap
    waiting,   \* lun_t.waiting4deletion
    lunsvc,    \* lun_t.nr_service
    map,       \* lun_t.fragmap: the pfid where FRAGDESC_MAPPED, None elsewhere
    valid,     \* mapped fragments with FRAGDESC_VALID
    cdev,      \* cache devices present (cdev_t.fragtbl # NULL)
    owner,     \* frag_t.lunidx and fragnum; None when not mapped to
    bitmap,    \* frag_t.bitmap: the INVALID pages (nr_valid = 0 iff all)
    svc,       \* frag_t.nr_service
    freelist,  \* sce->freefraglist
    upc,       \* what a request or task is doing
    ulf,       \* the logical fragment it is about
    upf        \* the physical fragment it was given

lunvars  == <<size, waiting, lunsvc>>
mapvars  == <<map, valid>>
fragvars == <<owner, bitmap, svc, freelist>>
uservars == <<upc, ulf, upf>>
vars == <<lunvars, mapvars, cdev, fragvars, uservars>>

(***************************************************************************)
(* Addressing.  Fragment f exists when its first sector is inside the LUN; *)
(* nr_frag = ceil(nr_sctr / SCTRPERFRAG) says the same.                    *)
(***************************************************************************)
FirstSctr(f, p) == f * SctrPerFrag + p * SctrPerPage
HasFrag(l, f) == f * SctrPerFrag < size[l]

\* Pages of fragment f that the sector range a..b touches.
PagesOf(f, a, b) ==
    {p \in Page : FirstSctr(f, p) <= b /\ a < FirstSctr(f, p) + SctrPerPage}

\* Pages of the last fragment that do not lie wholly inside the LUN: the
\* padding _map_frag invalidates.
Padding(l, f) == {p \in Page : FirstSctr(f, p) + SctrPerPage > size[l]}

Serviceable(l) == size[l] > 0 /\ ~waiting[l]

Init ==
    /\ size = [l \in Lun |-> 0]
    /\ waiting = [l \in Lun |-> FALSE]
    /\ lunsvc = [l \in Lun |-> 0]
    /\ map = [lf \in LF |-> None]
    /\ valid = {}
    /\ cdev = {}
    /\ owner = [p \in Pfid |-> None]
    /\ bitmap = [p \in Pfid |-> {}]
    /\ svc = [p \in Pfid |-> 0]
    /\ freelist = {}
    /\ upc = [u \in User |-> "idle"]
    /\ ulf = [u \in User |-> None]
    /\ upf = [u \in User |-> None]

\* Mutant: configuration calls that do not take sce->lock.
SceUnlockedAlways == TRUE

SceUnlocked == \A t \in Task : upc[t] # "chosen"

Become(u, pc, lf, pf) ==
    /\ upc' = [upc EXCEPT ![u] = pc]
    /\ ulf' = [ulf EXCEPT ![u] = lf]
    /\ upf' = [upf EXCEPT ![u] = pf]

Finish(u) == Become(u, "idle", None, None)

(***************************************************************************)
(* Unmapping.  Collect(l, drop, valid1) is what follows a release: unmap   *)
(* the fragments in drop (_unmap_frag), then, if the LUN waits for its     *)
(* deletion and nothing is in service, purge it: unmap every fragment and  *)
(* free the slot.  A fragment still in service is not put on the free list.*)
(***************************************************************************)
\* Mutant: the free list is not given the fragments.
UnmapWithoutFreeing(freed, valid1) ==
    /\ map' = [lf \in LF |-> IF map[lf] \in freed THEN None ELSE map[lf]]
    /\ valid' = {lf \in valid1 : map[lf] \notin freed}
    /\ owner' = [p \in Pfid |-> IF p \in freed THEN None ELSE owner[p]]
    /\ UNCHANGED freelist

Unmap(freed, valid1) ==
    /\ map' = [lf \in LF |-> IF map[lf] \in freed THEN None ELSE map[lf]]
    /\ valid' = {lf \in valid1 : map[lf] \notin freed}
    /\ owner' = [p \in Pfid |-> IF p \in freed THEN None ELSE owner[p]]
    /\ freelist' = freelist \cup freed

FragOn(p, l) == {f \in Frag : map[<<l, f>>] = p}
FragsOf(l) == {p \in Pfid : FragOn(p, l) # {}}

Purge(l, valid1) ==
    LET freed == {p \in FragsOf(l) : svc'[p] = 0} IN
    /\ size' = [size EXCEPT ![l] = 0]
    /\ waiting' = [waiting EXCEPT ![l] = FALSE]
    /\ map' = [lf \in LF |-> IF lf[1] = l THEN None ELSE map[lf]]
    /\ valid' = {lf \in valid1 : lf[1] # l}
    /\ owner' = [p \in Pfid |-> IF p \in freed THEN None ELSE owner[p]]
    /\ freelist' = freelist \cup freed

\* Mutant: _lun_gc forgets LUNs that wait for their deletion.
CollectWithoutPurge(l, drop, valid1) ==
    Unmap(drop, valid1) /\ UNCHANGED <<size, waiting>>

Collect(l, drop, valid1) ==
    \/ /\ waiting[l] /\ lunsvc'[l] = 0
       /\ Purge(l, valid1)
    \/ /\ ~(waiting[l] /\ lunsvc'[l] = 0)
       /\ Unmap(drop, valid1)
       /\ UNCHANGED <<size, waiting>>

\* Mutant: _lun_gc only looks at the LUN.
NeverDead(p) == svc'[p] < 0

\* _lun_gc: a fragment out of service with no valid page left is dropped.
Dead(p) == svc'[p] = 0 /\ bitmap[p] = Page

(***************************************************************************)
(* Configuration: sce_addcdev, sce_addlun, sce_rmlun.                      *)
(***************************************************************************)
AddCdev(c) ==
    /\ SceUnlocked
    /\ c \notin cdev
    /\ \A d \in Cdev : d < c => d \in cdev
    /\ cdev' = cdev \cup {c}
    /\ freelist' = freelist \cup ({c} \X Off)
    /\ owner' = [p \in Pfid |-> IF p[1] = c THEN None ELSE owner[p]]
    /\ UNCHANGED <<lunvars, mapvars, bitmap, svc, uservars>>

\* One step that excludes a purge; module LunSlot takes the two apart.
AddLun(l, s) ==
    /\ SceUnlocked
    /\ size[l] = 0
    /\ \A k \in Lun : k < l => size[k] > 0
    /\ size' = [size EXCEPT ![l] = s]
    /\ UNCHANGED <<waiting, lunsvc, mapvars, cdev, fragvars, uservars>>

\* Mutant: the LUN is purged at once, whoever is using it.
RmLunAtOnce(l) ==
    /\ SceUnlocked
    /\ size[l] > 0
    /\ UNCHANGED svc
    /\ Purge(l, valid)
    /\ UNCHANGED <<lunsvc, cdev, bitmap, uservars>>

\* _unload_hdd waits for the reads in flight before it calls sce_rmlun.
Drained(l) == Drain => \A r \in Reader : upc[r] = "read" => ulf[r][1] # l

RmLun(l) ==
    /\ SceUnlocked
    /\ Drained(l)
    /\ size[l] > 0
    /\ \/ /\ lunsvc[l] > 0
          /\ waiting' = [waiting EXCEPT ![l] = TRUE]
          /\ UNCHANGED <<size, mapvars, owner, freelist, svc>>
       \/ /\ lunsvc[l] = 0
          /\ UNCHANGED svc
          /\ Purge(l, valid)
    /\ UNCHANGED <<lunsvc, cdev, bitmap, uservars>>

(***************************************************************************)
(* Read path: sce_get4read on a hit, then sce_put4read when the SSD has    *)
(* answered.  A miss changes only heat and statistics.  When the SSD fails *)
(* the read, _endio4read retries on the HDD and never calls sce_put4read.  *)
(***************************************************************************)
GetRead(r, l, f, a, b) ==
    /\ upc[r] = "idle"
    /\ Serviceable(l)
    /\ a <= b /\ b < size[l]
    /\ FirstSctr(f, 0) <= a /\ b < FirstSctr(f + 1, 0)
    /\ map[<<l, f>>] # None
    /\ <<l, f>> \in valid
    /\ PagesOf(f, a, b) \cap bitmap[map[<<l, f>>]] = {}
    /\ svc' = [svc EXCEPT ![map[<<l, f>>]] = @ + 1]
    /\ lunsvc' = [lunsvc EXCEPT ![l] = @ + 1]
    /\ Become(r, "read", <<l, f>>, map[<<l, f>>])
    /\ UNCHANGED <<size, waiting, mapvars, cdev, owner, bitmap, freelist>>

\* Mutant: only the fragment is released.
PutReadKeepsLun(r, lf, p) ==
    /\ svc' = [svc EXCEPT ![p] = @ - 1]
    /\ UNCHANGED lunsvc
    /\ \/ /\ svc'[p] = 0
          /\ Collect(lf[1], {q \in {p} : Dead(q)}, valid)
       \/ /\ svc'[p] # 0
          /\ UNCHANGED <<size, waiting, mapvars, owner, freelist>>

PutReadOk(r, lf, p) ==
    /\ svc' = [svc EXCEPT ![p] = @ - 1]
    /\ lunsvc' = [lunsvc EXCEPT ![lf[1]] = @ - 1]
    /\ \/ /\ svc'[p] = 0
          /\ Collect(lf[1], {q \in {p} : Dead(q)}, valid)
       \/ /\ svc'[p] # 0
          /\ UNCHANGED <<size, waiting, mapvars, owner, freelist>>

CanPutRead(lf) ==
    /\ map[lf] # None
    /\ lf \in valid
    /\ svc[map[lf]] > 0
    /\ lunsvc[lf[1]] > 0

PutRead(r) ==
    /\ upc[r] = "read"
    /\ Finish(r)
    /\ UNCHANGED <<cdev, bitmap>>
    /\ \/ CanPutRead(ulf[r]) /\ PutReadOk(r, ulf[r], map[ulf[r]])
       \/ ~CanPutRead(ulf[r]) /\ UNCHANGED <<lunvars, mapvars, owner, svc, freelist>>

ReadError(r) ==
    /\ "ssd" \in Faults
    /\ upc[r] = "read"
    /\ upc' = [upc EXCEPT ![r] = "leaked"]
    /\ UNCHANGED <<lunvars, mapvars, cdev, fragvars, ulf, upf>>

(***************************************************************************)
(* Write path: sce_invalidate marks the pages of every mapped fragment in  *)
(* the range and garbage-collects fragments that can serve reads.  It does *)
(* nothing on a LUN that waits for its deletion, so it never purges one.   *)
(***************************************************************************)
Hit(p, l, a, b) == UNION {PagesOf(f, a, b) : f \in FragOn(p, l)}
CanServe(p, l) == \E f \in FragOn(p, l) : <<l, f>> \in valid

\* Mutant: a fragment that is still being populated is not invalidated.
InvalidateOnlyValid(l, a, b) ==
    /\ Serviceable(l)
    /\ a <= b /\ b < size[l]
    /\ bitmap' = [p \in Pfid |-> IF CanServe(p, l) THEN bitmap[p] \cup Hit(p, l, a, b)
                                                   ELSE bitmap[p]]
    /\ Unmap({p \in Pfid : /\ Hit(p, l, a, b) # {}
                           /\ CanServe(p, l)
                           /\ svc[p] = 0
                           /\ bitmap'[p] = Page}, valid)
    /\ UNCHANGED <<lunvars, cdev, svc, uservars>>

Invalidate(l, a, b) ==
    /\ Serviceable(l)
    /\ a <= b /\ b < size[l]
    /\ bitmap' = [p \in Pfid |-> bitmap[p] \cup Hit(p, l, a, b)]
    /\ Unmap({p \in Pfid : /\ Hit(p, l, a, b) # {}
                           /\ CanServe(p, l)
                           /\ svc[p] = 0
                           /\ bitmap'[p] = Page}, valid)
    /\ UNCHANGED <<lunvars, cdev, svc, uservars>>

(***************************************************************************)
(* Population: one iteration of _pdm_thread.  sce_get4pop chooses a        *)
(* fragment and allocates; poptask_read fills the buffer from the HDD,     *)
(* poptask_write stores it on the SSD, sce_put4pop completes or cancels.   *)
(* When poptask_read fails the thread skips to its next iteration.         *)
(***************************************************************************)
Choose(t, lf) ==
    /\ SceUnlocked
    /\ upc[t] = "idle"
    /\ Serviceable(lf[1])
    /\ HasFrag(lf[1], lf[2])
    /\ map[lf] = None
    /\ Become(t, "chosen", lf, None)
    /\ UNCHANGED <<lunvars, mapvars, cdev, fragvars>>

\* Mutant: _alloc4population pins the fragment but not the LUN.
MapFragNoLunPin(t, lf, p) ==
    /\ bitmap' = [bitmap EXCEPT ![p] = Padding(lf[1], lf[2])]
    /\ owner' = [owner EXCEPT ![p] = lf]
    /\ svc' = [svc EXCEPT ![p] = 1]
    /\ UNCHANGED lunsvc
    /\ Become(t, "fill", lf, p)

\* _map_frag on the unmapped lf, then the two pins.
MapFrag(t, lf, p) ==
    /\ bitmap' = [bitmap EXCEPT ![p] = Padding(lf[1], lf[2])]
    /\ owner' = [owner EXCEPT ![p] = lf]
    /\ svc' = [svc EXCEPT ![p] = 1]
    /\ lunsvc' = [lunsvc EXCEPT ![lf[1]] = @ + 1]
    /\ Become(t, "fill", lf, p)

\* _alloc4population may map when the LUN is still there and lf unmapped.
CanMap(lf) == HasFrag(lf[1], lf[2]) /\ map[lf] = None

AllocFree(t, p) ==
    /\ upc[t] = "chosen"
    /\ CanMap(ulf[t])
    /\ p \in freelist
    /\ map' = [map EXCEPT ![ulf[t]] = p]
    /\ freelist' = freelist \ {p}
    /\ MapFrag(t, ulf[t], p)
    /\ UNCHANGED <<size, waiting, valid, cdev>>

\* Mutant: CLOCK does not ask whether the fragment is in service.
EvictableInService(p) == owner[p] # None

\* _evict_frag unmaps the victim and _freefraglist_get takes it again.
Evictable(p) == owner[p] # None /\ svc[p] = 0

AllocEvict(t, p) ==
    /\ upc[t] = "chosen"
    /\ CanMap(ulf[t])
    /\ freelist = {}
    /\ Evictable(p)
    /\ map' = [map EXCEPT ![owner[p]] = None, ![ulf[t]] = p]
    /\ valid' = valid \ {owner[p]}
    /\ MapFrag(t, ulf[t], p)
    /\ UNCHANGED <<size, waiting, cdev, freelist>>

\* The CLOCK sweep may give up although a victim exists (see Clock).
AllocFail(t) ==
    /\ upc[t] = "chosen"
    /\ freelist = {}
    /\ Finish(t)
    /\ UNCHANGED <<lunvars, mapvars, cdev, fragvars>>

PopRead(t) ==
    /\ upc[t] = "fill"
    /\ upc' = [upc EXCEPT ![t] = "store"]
    /\ UNCHANGED <<lunvars, mapvars, cdev, fragvars, ulf, upf>>

PopReadError(t) ==
    /\ "hdd" \in Faults
    /\ upc[t] = "fill"
    /\ upc' = [upc EXCEPT ![t] = "leaked"]
    /\ UNCHANGED <<lunvars, mapvars, cdev, fragvars, ulf, upf>>

\* _complete_population.  A fragment already VALID only loses the LUN's pin.
Completed(lf, p) ==
    /\ svc' = IF lf \in valid THEN svc ELSE [svc EXCEPT ![p] = 0]
    /\ lunsvc' = [lunsvc EXCEPT ![lf[1]] = @ - 1]
    /\ Collect(lf[1], {q \in {p} : Dead(q)}, valid \cup {lf})

CanComplete(lf) == map[lf] # None /\ (lf \in valid \/ svc[map[lf]] = 1)

PutPopOk(t) ==
    /\ upc[t] = "store"
    /\ Finish(t)
    /\ UNCHANGED <<cdev, bitmap>>
    /\ \/ CanComplete(ulf[t]) /\ Completed(ulf[t], map[ulf[t]])
       \/ ~CanComplete(ulf[t]) /\ UNCHANGED <<lunvars, mapvars, owner, svc, freelist>>

\* Mutant: the cancelled fragment is not unmapped.
CancelledKeepsMap(lf, p) ==
    /\ svc' = [svc EXCEPT ![p] = 0]
    /\ lunsvc' = [lunsvc EXCEPT ![lf[1]] = @ - 1]
    /\ Collect(lf[1], {}, valid)

\* _cancel_population, after the SSD write failed.
Cancelled(lf, p) ==
    /\ svc' = [svc EXCEPT ![p] = 0]
    /\ lunsvc' = [lunsvc EXCEPT ![lf[1]] = @ - 1]
    /\ Collect(lf[1], {p}, valid)

CanCancel(lf) == map[lf] # None /\ lf \notin valid /\ svc[map[lf]] = 1

PutPopFailed(t) ==
    /\ upc[t] = "store"
    /\ Finish(t)
    /\ UNCHANGED <<cdev, bitmap>>
    /\ \/ CanCancel(ulf[t]) /\ Cancelled(ulf[t], map[ulf[t]])
       \/ ~CanCancel(ulf[t]) /\ UNCHANGED <<lunvars, mapvars, owner, svc, freelist>>

Sctr == 0 .. MaxFrag * SctrPerFrag - 1

Next ==
    \/ \E c \in Cdev : AddCdev(c)
    \/ \E l \in Lun : RmLun(l) \/ \E s \in LunSize : AddLun(l, s)
    \/ \E l \in Lun, a, b \in Sctr :
          Invalidate(l, a, b) \/ \E r \in Reader, f \in Frag : GetRead(r, l, f, a, b)
    \/ \E r \in Reader : PutRead(r) \/ ReadError(r)
    \/ \E t \in Task : \/ \E lf \in LF : Choose(t, lf)
                       \/ \E p \in Pfid : AllocFree(t, p) \/ AllocEvict(t, p)
                       \/ AllocFail(t)
                       \/ PopRead(t) \/ PopReadError(t)
                       \/ PutPopOk(t) \/ PutPopFailed(t)

Spec == Init /\ [][Next]_vars

(***************************************************************************)
(* Fairness.  The block layer completes every bio it was given, one way or *)
(* the other, and a PDM thread inside an iteration runs on to its end.     *)
(* Nothing obliges anybody to read, to write or to configure.              *)
(***************************************************************************)
Fairness ==
    /\ \A r \in Reader : WF_vars(PutRead(r) \/ ReadError(r))
    /\ \A t \in Task : WF_vars(\/ \E p \in Pfid : AllocFree(t, p) \/ AllocEvict(t, p)
                               \/ AllocFail(t)
                               \/ PopRead(t) \/ PopReadError(t)
                               \/ PutPopOk(t) \/ PutPopFailed(t))

FairSpec == Spec /\ Fairness
-----------------------------------------------------------------------------
\* Type invariant.
TypeOK ==
    /\ size \in [Lun -> LunSize \cup {0}]
    /\ waiting \in [Lun -> BOOLEAN]
    /\ lunsvc \in [Lun -> Nat]
    /\ map \in [LF -> Pfid \cup {None}]
    /\ valid \subseteq LF
    /\ cdev \subseteq Cdev
    /\ owner \in [Pfid -> LF \cup {None}]
    /\ bitmap \in [Pfid -> SUBSET Page]
    /\ svc \in [Pfid -> Nat]
    /\ freelist \subseteq Pfid
    /\ upc \in [User -> {"idle", "read", "chosen", "fill", "store", "leaked"}]
    /\ ulf \in [User -> LF \cup {None}]
    /\ upf \in [User -> Pfid \cup {None}]

UsersOn(p) == {u \in User : upf[u] = p}
UsersOf(l) == {u \in User : upf[u] # None /\ ulf[u][1] = l}

\* nr_service of a fragment and of a LUN counts exactly the requests and
\* tasks that hold it, through every path of put4read, complete, cancel,
\* eviction, collection and purge: no early return loses or repeats a count.
Accounting ==
    /\ \A p \in Pfid : svc[p] = Cardinality(UsersOn(p))
    /\ \A l \in Lun : lunsvc[l] = Cardinality(UsersOf(l))

\* fragmap and the fragments' back pointers are inverse to each other (so no
\* two logical fragments share flash), every mapping is within its LUN, and
\* the free list holds exactly the fragments nothing is mapped to.
Partition ==
    /\ \A lf \in LF, p \in Pfid : map[lf] = p <=> owner[p] = lf
    /\ \A lf \in LF : map[lf] # None => HasFrag(lf[1], lf[2])
    /\ \A lf \in valid : map[lf] # None
    /\ freelist = {p \in cdev \X Off : owner[p] = None}
    /\ \A p \in Pfid : owner[p] # None => p[1] \in cdev

\* While a request is in flight its logical fragment stays on the physical
\* fragment it was given: a reader's stays able to serve reads, a population
\* task's stays unable to, and no second holder joins a population.
Pinned ==
    \A u \in User : upf[u] # None =>
        /\ ulf[u] # None
        /\ map[ulf[u]] = upf[u]
        /\ u \in Reader <=> ulf[u] \in valid
        /\ u \in Task => UsersOn(upf[u]) = {u}

\* Whatever is mapped but cannot serve reads is held by a task that populates
\* it, or by one whose read of the HDD failed and that keeps it for ever.
Populating ==
    \A lf \in LF : map[lf] # None /\ lf \notin valid =>
        \E t \in Task : upf[t] = map[lf]

\* A LUN that waits for its deletion has a request in flight that will
\* finish the job: the last one out never leaves without purging.  A user that
\* keeps its counts for ever (leaked) is counted as one in flight.
LastUserPurges == \A l \in Lun : waiting[l] => size[l] > 0 /\ lunsvc[l] > 0

\* A fragment with no valid page left is never kept once out of service,
\* whichever of writer, reader and populator comes last.
NoDeadFragment ==
    \A lf \in LF : map[lf] # None /\ bitmap[map[lf]] = Page => svc[map[lf]] > 0

\* What get4pop chose without the LUN's lock still stands when it has taken
\* the lock: the LUN is serviceable and the fragment unmapped.
ChoiceStands ==
    \A t \in Task : upc[t] = "chosen" =>
        /\ ulf[t] # None
        /\ Serviceable(ulf[t][1])
        /\ CanMap(ulf[t])

\* No step takes a fragment away from a request that stays in flight, nor
\* deletes or resizes the LUN under it.
HeldIsKept ==
    [][\A u \in User : upf[u] # None /\ upf'[u] # None =>
          /\ upf'[u] = upf[u] /\ ulf'[u] = ulf[u]
          /\ owner'[upf[u]] = owner[upf[u]]
          /\ size'[ulf[u][1]] = size[ulf[u][1]]]_vars

\* A LUN whose removal had to wait is deleted once its requests are done,
\* unless an I/O error made one of them keep its counts for ever.
DeletionCompletes ==
    \A l \in Lun : waiting[l] ~> \/ ~waiting[l]
                                 \/ \E u \in UsersOf(l) : upc[u] = "leaked"
=============================================================================
