------------------------------ MODULE LunLocks ------------------------------
(***************************************************************************)
(* What the locks of the cache engine do and do not exclude.  Module Sce   *)
(* makes each critical section one step.  Here one load or store of shared *)
(* memory is one step, for the state that belongs to the whole engine and  *)
(* is changed under the lock of whichever LUN is concerned: the linked     *)
(* free list with its count, the fragments eviction takes from other LUNs, *)
(* and the head of the miss log.                                           *)
(*                                                                         *)
(* A thread is named by the LUN whose lock it holds, so there is at most   *)
(* one per LUN.  A population also holds sce->lock.  Fragments are         *)
(* numbered from 1; 0 ends the list.  One device; removal is in Hotplug.   *)
(***************************************************************************)
EXTENDS Integers, FiniteSets

CONSTANTS
    Lun,      \* targets
    NrFrag,   \* sce->nr_frag
    LogSize,  \* SCE_CACHEMISSLOGSIZE
    Races     \* BOUND: is the program followed beyond its first race?

ASSUME LunLocksAssumption ==
    /\ IsFiniteSet(Lun) /\ "list" \notin Lun /\ "free" \notin Lun
    /\ NrFrag \in Nat \ {0} /\ LogSize \in Nat \ {0} /\ Races \in BOOLEAN

Frag == 1 .. NrFrag

VARIABLES
    pc,      \* what the holder of each LUN's lock is doing
    pop,     \* LUNs whose thread runs sce_get4pop, holding sce->lock too
    arg,     \* the fragment it works on
    vic,     \* the LUN it unmaps that fragment from
    cnt,     \* the counter value it has loaded
    map,     \* the fragments each LUN's fragmap leads to
    mark,    \* frag_t.lunidx, fragnum: the owner, "list" or "free"
    svc,     \* frag_t.nr_service
    hold,    \* the fragment that a request or task of the LUN is using
    head, next, nrFree,  \* the free list
    logHead, \* sce->misslog_head
    stolen,  \* history: <<LUN, fragment>> unmapped on behalf of another LUN
    raced,   \* history: two threads have moved fragments at once
    wrapped  \* history: a put has met another one at the wrap of the log

locvars == <<pc, pop, arg, vic, cnt>>
fragvars == <<map, mark, svc, hold>>
listvars == <<head, next, nrFree>>
histvars == <<stolen, wrapped>>
vars == <<locvars, fragvars, listvars, logHead, histvars, raced>>

\* sce_addcdev has put all fragments on the list, the last one first.
Init ==
    /\ pc = [l \in Lun |-> "idle"] /\ pop = {}
    /\ arg = [l \in Lun |-> 0] /\ vic = [l \in Lun |-> l] /\ cnt = [l \in Lun |-> 0]
    /\ map = [l \in Lun |-> {}] /\ mark = [p \in Frag |-> "list"]
    /\ svc = [p \in Frag |-> 0] /\ hold = [l \in Lun |-> 0]
    /\ head = 1 /\ next = [p \in Frag |-> IF p < NrFrag THEN p + 1 ELSE 0]
    /\ nrFree = NrFrag
    /\ logHead = 0
    /\ stolen = {} /\ raced = FALSE /\ wrapped = FALSE

\* Nothing but a program counter and what the thread remembers changes.
Go(l, from, to) == pc[l] = from /\ pc' = [pc EXCEPT ![l] = to]
\* The lock is released; what the thread knew is forgotten.
Unlock(l) ==
    /\ pc' = [pc EXCEPT ![l] = "idle"] /\ pop' = pop \ {l}
    /\ arg' = [arg EXCEPT ![l] = 0] /\ vic' = [vic EXCEPT ![l] = l]
    /\ cnt' = [cnt EXCEPT ![l] = 0]
\* Where _unmap_frag returns to: _alloc4population tries the list again.
Return(l) ==
    \/ l \in pop /\ pc' = [pc EXCEPT ![l] = "get"] /\ UNCHANGED <<pop, arg, vic, cnt>>
    \/ l \notin pop /\ Unlock(l)

(***************************************************************************)
(* sce_get4read and sce_put4read, of a hit.                                *)
(***************************************************************************)
HitLook(l, p) ==
    /\ Go(l, "idle", "hit")
    /\ hold[l] = 0 /\ p \in map[l]
    /\ arg' = [arg EXCEPT ![l] = p]
    /\ UNCHANGED <<pop, vic, cnt, fragvars, listvars, logHead, histvars>>

HitCount(l) ==
    /\ pc[l] = "hit"
    /\ svc' = [svc EXCEPT ![arg[l]] = @ + 1]
    /\ hold' = [hold EXCEPT ![l] = arg[l]]
    /\ Unlock(l)
    /\ UNCHANGED <<map, mark, listvars, logHead, histvars>>

\* The fragment is looked up in fragmap again; one that is gone is not found.
Put(l) ==
    /\ pc[l] = "idle" /\ hold[l] # 0
    /\ svc' = IF hold[l] \in map[l] /\ svc[hold[l]] > 0
              THEN [svc EXCEPT ![hold[l]] = @ - 1] ELSE svc
    /\ hold' = [hold EXCEPT ![l] = 0]
    /\ UNCHANGED <<locvars, map, mark, listvars, logHead, histvars>>

(***************************************************************************)
(* _unmap_frag, called by _lun_gc or _lun_purge of the LUN itself, or by   *)
(* _evict_frag for another one.                                            *)
(***************************************************************************)
Drop(l, p) ==
    /\ Go(l, "idle", "unmap")
    /\ p \in map[l]
    /\ arg' = [arg EXCEPT ![l] = p]
    /\ UNCHANGED <<pop, vic, cnt, fragvars, listvars, logHead, histvars>>

UnmapCheck(l) ==
    LET ok == arg[l] \in map[vic[l]] /\ svc[arg[l]] = 0
    IN  /\ pc[l] = "unmap"
        /\ \/ /\ ok /\ Go(l, "unmap", "put")
              /\ stolen' = IF vic[l] = l THEN stolen ELSE stolen \cup {<<vic[l], arg[l]>>}
              /\ UNCHANGED <<pop, arg, vic, cnt>>
           \/ ~ok /\ Return(l) /\ UNCHANGED stolen
        /\ UNCHANGED <<fragvars, listvars, logHead, wrapped>>

\* The mapping is cleared after the fragment went on the list.
Clear(l) ==
    /\ pc[l] = "clear"
    /\ map' = [map EXCEPT ![vic[l]] = @ \ {arg[l]}]
    /\ Return(l)
    /\ UNCHANGED <<mark, svc, hold, listvars, logHead, histvars>>

(***************************************************************************)
(* _freefraglist_put.                                                      *)
(***************************************************************************)
PutCheck(l) ==
    /\ pc[l] = "put"
    /\ \/ mark[arg[l]] # "list" /\ Go(l, "put", "mark") /\ UNCHANGED <<pop, arg, vic, cnt>>
       \/ mark[arg[l]] = "list" /\ Return(l)
    /\ UNCHANGED <<fragvars, listvars, logHead, histvars>>

PutMark(l) ==
    /\ Go(l, "mark", "link")
    /\ mark' = [mark EXCEPT ![arg[l]] = "list"]
    /\ UNCHANGED <<pop, arg, vic, cnt, map, svc, hold, listvars, logHead, histvars>>

\* Mutant: the old head of the list is lost.
PutLinkNot(l) ==
    /\ Go(l, "link", "head")
    /\ next' = [next EXCEPT ![arg[l]] = 0]
    /\ UNCHANGED <<pop, arg, vic, cnt, fragvars, head, nrFree, logHead, histvars>>

PutLink(l) ==
    /\ Go(l, "link", "head")
    /\ next' = [next EXCEPT ![arg[l]] = head]
    /\ UNCHANGED <<pop, arg, vic, cnt, fragvars, head, nrFree, logHead, histvars>>

PutHead(l) ==
    /\ Go(l, "head", "inc")
    /\ head' = arg[l]
    /\ UNCHANGED <<pop, arg, vic, cnt, fragvars, next, nrFree, logHead, histvars>>

\* nr_freefrag++ and nr_freefrag-- are a load and a store each.
LoadFree(l) ==
    /\ Go(l, "inc", "inc_store") \/ (nrFree > 0 /\ Go(l, "dec", "dec_store"))
    /\ cnt' = [cnt EXCEPT ![l] = nrFree]
    /\ UNCHANGED <<pop, arg, vic, fragvars, listvars, logHead, histvars>>

\* A count above nr_frag is stored and stops the thread, locks held, at the
\* BUG_ON that follows (sce_freefraglist.c:57).
StoreFree(l) ==
    /\ \/ /\ Go(l, "inc_store", IF cnt[l] < NrFrag THEN "clear" ELSE "bug")
          /\ nrFree' = cnt[l] + 1
       \/ Go(l, "dec_store", "map") /\ nrFree' = cnt[l] - 1
    /\ UNCHANGED <<pop, arg, vic, cnt, fragvars, head, next, logHead, histvars>>

(***************************************************************************)
(* sce_get4pop: _alloc4population with _freefraglist_get and _evict_frag.  *)
(***************************************************************************)
PopStart(l) ==
    /\ Go(l, "idle", "get")
    /\ pop = {} /\ hold[l] = 0
    /\ pop' = {l}
    /\ UNCHANGED <<arg, vic, cnt, fragvars, listvars, logHead, histvars>>

GetHead(l) ==
    /\ Go(l, "get", IF head = 0 THEN "evict" ELSE "take")
    /\ arg' = [arg EXCEPT ![l] = head] /\ vic' = [vic EXCEPT ![l] = l]
    /\ UNCHANGED <<pop, cnt, fragvars, listvars, logHead, histvars>>

\* head = frag->next
GetTake(l) ==
    /\ Go(l, "take", "untie")
    /\ head' = next[arg[l]]
    /\ UNCHANGED <<pop, arg, vic, cnt, fragvars, next, nrFree, logHead, histvars>>

GetUntie(l) ==
    /\ Go(l, "untie", "dec")
    /\ next' = [next EXCEPT ![arg[l]] = 0]
    /\ mark' = [mark EXCEPT ![arg[l]] = "free"]
    /\ UNCHANGED <<pop, arg, vic, cnt, map, svc, hold, head, nrFree, logHead, histvars>>

\* _evict_frag looks for a fragment out of service, of any LUN.
EvictPick(l, p) ==
    /\ Go(l, "evict", "unmap")
    /\ nrFree < NrFrag
    /\ mark[p] \in Lun /\ svc[p] = 0
    /\ arg' = [arg EXCEPT ![l] = p] /\ vic' = [vic EXCEPT ![l] = mark[p]]
    /\ UNCHANGED <<pop, cnt, fragvars, listvars, logHead, histvars>>

EvictFail(l) ==
    /\ pc[l] = "evict"
    /\ Unlock(l)
    /\ UNCHANGED <<fragvars, listvars, logHead, histvars>>

\* _map_frag; the task holds the fragment from here on.
MapFrag(l) ==
    /\ pc[l] = "map"
    /\ map' = [map EXCEPT ![l] = @ \cup {arg[l]}]
    /\ mark' = [mark EXCEPT ![arg[l]] = l]
    /\ svc' = [svc EXCEPT ![arg[l]] = 1]
    /\ hold' = [hold EXCEPT ![l] = arg[l]]
    /\ stolen' = stolen \ {<<l, arg[l]>>}
    /\ Unlock(l)
    /\ UNCHANGED <<listvars, logHead, wrapped>>

(***************************************************************************)
(* _misslog_put, of a miss.  misslog_head follows the array of LUN indices *)
(* in sce_t: an entry stored one beyond the end sets it to such an index   *)
(* (little endian; SCE_MAXLUN is below SCE_CACHEMISSLOGSIZE).  Further     *)
(* beyond anything is damaged, and the thread is not followed.             *)
(***************************************************************************)
MissStore(l) ==
    /\ Go(l, "idle", IF logHead <= LogSize THEN "log_inc" ELSE "overrun")
    /\ logHead' \in IF logHead = LogSize THEN 0 .. LogSize - 1 ELSE {logHead}
    /\ UNCHANGED <<pop, arg, vic, cnt, fragvars, listvars, histvars>>

\* ++misslog_head loads ...
MissLoad(l) ==
    /\ Go(l, "log_inc", "log_store")
    /\ cnt' = [cnt EXCEPT ![l] = logHead]
    /\ wrapped' = (wrapped \/ \E k \in Lun : pc[k] = "log_wrap")
    /\ UNCHANGED <<pop, arg, vic, fragvars, listvars, logHead, stolen>>

\* Mutant: the comparison is off by one.
MissIncLate(l) ==
    /\ pc[l] = "log_store"
    /\ logHead' = cnt[l] + 1
    /\ \/ /\ cnt[l] + 1 > LogSize /\ Go(l, "log_store", "log_wrap")
          /\ UNCHANGED <<pop, arg, vic, cnt>>
       \/ cnt[l] + 1 <= LogSize /\ Unlock(l)
    /\ UNCHANGED <<fragvars, listvars, histvars>>

\* ... and stores, and compares what it stored.
MissInc(l) ==
    /\ pc[l] = "log_store"
    /\ logHead' = cnt[l] + 1
    /\ \/ /\ cnt[l] + 1 = LogSize /\ Go(l, "log_store", "log_wrap")
          /\ UNCHANGED <<pop, arg, vic, cnt>>
       \/ cnt[l] + 1 # LogSize /\ Unlock(l)
    /\ UNCHANGED <<fragvars, listvars, histvars>>

MissWrap(l) ==
    /\ pc[l] = "log_wrap"
    /\ logHead' = 0
    /\ Unlock(l)
    /\ UNCHANGED <<fragvars, listvars, histvars>>

Step(l) ==
    \/ HitCount(l) \/ Put(l) \/ UnmapCheck(l) \/ Clear(l)
    \/ PutCheck(l) \/ PutMark(l) \/ PutLink(l) \/ PutHead(l) \/ LoadFree(l) \/ StoreFree(l)
    \/ PopStart(l) \/ GetHead(l) \/ GetTake(l) \/ GetUntie(l) \/ EvictFail(l) \/ MapFrag(l)
    \/ MissStore(l) \/ MissLoad(l) \/ MissInc(l) \/ MissWrap(l)
    \/ \E p \in Frag : HitLook(l, p) \/ Drop(l, p) \/ EvictPick(l, p)

\* A thread moves a fragment from the time it found it out of service, or
\* at the head of the list, until it is unmapped or mapped.
OnList(l) == pc[l] \in {"put", "mark", "link", "head", "inc", "inc_store", "bug",
                        "clear", "take", "untie", "dec", "dec_store", "map"}

Next ==
    /\ Races \/ ~(raced \/ wrapped)
    /\ \E l \in Lun : Step(l)
    /\ raced' = (raced \/ \E l, k \in Lun : l # k /\ OnList(l)' /\ OnList(k)')

Spec == Init /\ [][Next]_vars
-----------------------------------------------------------------------------
\* The n-th fragment of the list, 0 behind its end.
At[n \in 0 .. NrFrag] ==
    IF n = 0 THEN head ELSE IF At[n - 1] = 0 THEN 0 ELSE next[At[n - 1]]

\* Until two threads overlap the linked list is the set module Sce takes it
\* for: it ends, holds each fragment that is marked so once and no fragment
\* that is mapped, and nr_freefrag is its length.
ListExact ==
    ~raced /\ (\A l \in Lun : ~OnList(l)) =>
        LET listed == {At[n] : n \in 0 .. NrFrag} \ {0}
        IN  /\ At[NrFrag] = 0
            /\ listed = {p \in Frag : mark[p] = "list"}
            /\ nrFree = Cardinality(listed)
            /\ \A l \in Lun : listed \cap map[l] = {}
            /\ \A l, k \in Lun : l # k => map[l] \cap map[k] = {}

\* Until then a request or task in flight keeps its fragment, unless a
\* population of ANOTHER LUN evicted it, whose lock does not exclude the hit.
HeldUnlessStolen ==
    ~raced => \A l \in Lun : hold[l] # 0 /\ <<l, hold[l]>> \notin stolen =>
        hold[l] \in map[l] /\ mark[hold[l]] = l /\ svc[hold[l]] > 0

\* Overlapping puts into the miss log leave its head in the ring, unless one
\* loads the head between another one's increment and its reset.
HeadInRing ==
    ~wrapped => \/ logHead < LogSize
                \/ logHead = LogSize /\ \E l \in Lun : pc[l] = "log_wrap"

\* BUG_ON(sce->nr_freefrag == 0) in _freefraglist_get: a list that is not
\* empty has a count that is not zero.
CountBacksList == \A l \in Lun : pc[l] = "dec" => nrFree > 0
=============================================================================
