------------------------------ MODULE MissLog ------------------------------
(***************************************************************************)
(* The cache miss log and the heat of fragments (sce_misslog.c, the miss   *)
(* branch of sce_get4read) and the policy that picks the fragment to       *)
(* populate, _choose4population in its SCE_POPULATION_HOTMRU build.        *)
(*                                                                         *)
(* The engine of module Sce is seen here as far as the policy looks at it: *)
(* which LUN slots are in use and how large, and which fragments are       *)
(* mapped.  A fragment has one counter: while unmapped it is the heat in   *)
(* its fragdesc, while mapped it is frag_t.nr_miss, which _unmap_frag      *)
(* writes back as the heat.                                                *)
(*                                                                         *)
(* Each action is atomic.  In the code misses on different LUNs write the  *)
(* log under different locks, and the choice reads it under a third.       *)
(***************************************************************************)
EXTENDS Integers

CONSTANTS
    MaxLun,     \* SCE_MAXLUN
    MaxFrag,    \* bound: fragments of the largest LUN
    LunFrags,   \* numbers of fragments a LUN may have
    LogSize,    \* SCE_CACHEMISSLOGSIZE
    Window,     \* SCE_MISSWINDOW
    FreshHeat,  \* the heat _lun_init leaves: 0x5555555, bytes of 85
    MaxMisses,  \* bound: misses of a fragment
    None

Lun == 0 .. MaxLun - 1
Frag == 0 .. MaxFrag - 1
LF == Lun \X Frag
Slot == 0 .. LogSize - 1

ASSUME MissLogAssumption ==
    /\ MaxLun \in Nat \ {0} /\ MaxFrag \in Nat \ {0}
    /\ LunFrags \subseteq 1 .. MaxFrag
    /\ LogSize \in Nat \ {0} /\ Window \in Nat
    /\ FreshHeat \in Nat /\ MaxMisses \in Nat
    /\ None \notin LF

VARIABLES
    nrfrag,  \* lun_t.nr_frag of a LUN in service; 0 when _lun_isvalididx fails
    mapped,  \* fragments with FRAGDESC_MAPPED
    heat,    \* FRAGDESC_DATA of an unmapped fragment, nr_miss of a mapped one
    ring,    \* misslog_lunidx and misslog_fragnum
    head,    \* misslog_head
    size,    \* misslog_size
    misses   \* history: misses of a fragment since its LUN was added, or
             \* since it was last populated

lunvars == <<nrfrag, mapped, heat, misses>>
logvars == <<ring, head, size>>
vars == <<lunvars, logvars>>

Init ==
    /\ nrfrag = [l \in Lun |-> 0]
    /\ mapped = {}
    /\ heat = [lf \in LF |-> FreshHeat]
    /\ ring = [i \in Slot |-> <<0, 0>>]
    /\ head = 0
    /\ size = 0
    /\ misses = [lf \in LF |-> 0]

HasFrag(lf) == lf[2] < nrfrag[lf[1]]

\* Mutant: the head pointer stays on the last slot.
WrapLate(h) == IF h + 1 > LogSize - 1 THEN LogSize - 1 ELSE h + 1

Wrap(h) == IF h + 1 = LogSize THEN 0 ELSE h + 1

\* _misslog_put.
Put(e) ==
    /\ ring' = [ring EXCEPT ![head] = e]
    /\ head' = Wrap(head)
    /\ size' = IF size < LogSize THEN size + 1 ELSE size

\* _misslog_get: where the entry idx places before the latest one is.
Index(idx) == IF head >= idx + 1 THEN head - (idx + 1) ELSE LogSize - (idx + 1 - head)

Get(idx) == ring[Index(idx)]
LunIsValid(e) == nrfrag[e[1]] > 0
CanGet(idx) == idx < size /\ LunIsValid(Get(idx))

\* sce_get4read without a hit: on an unmapped fragment, or on a mapped one
\* that is being populated or has invalid pages in the range.
Miss(lf) ==
    /\ HasFrag(lf)
    /\ misses[lf] < MaxMisses
    /\ heat' = [heat EXCEPT ![lf] = @ + 1]
    /\ misses' = [misses EXCEPT ![lf] = @ + 1]
    /\ Put(lf)
    /\ UNCHANGED <<nrfrag, mapped>>

\* Mutant: a later entry of equal heat displaces an earlier one.
BetterOrEqual(miss, maxmiss) == miss >= maxmiss

Better(miss, maxmiss) == miss > maxmiss

(***************************************************************************)
(* _choose4population: Scan[i] is the best fragment after the first i      *)
(* entries, with stop set once the loop has been left.  An entry beyond    *)
(* the end of a smaller LUN's fragmap makes the code read foreign memory:  *)
(* it is passed over, or wins and makes _alloc4population fail, which is a *)
(* stuttering step here.                                                   *)
(***************************************************************************)
Start == [best |-> None, maxmiss |-> 0, stop |-> FALSE]

Visit(s, e) ==
    IF HasFrag(e) /\ e \notin mapped /\ Better(heat[e], s.maxmiss)
    THEN [s EXCEPT !.best = e, !.maxmiss = heat[e]]
    ELSE s

Step(s, i) ==
    IF s.stop \/ ~CanGet(i) THEN [s EXCEPT !.stop = TRUE] ELSE Visit(s, Get(i))

Chosen ==
    LET Scan[i \in 0 .. Window] == IF i = 0 THEN Start ELSE Step(Scan[i - 1], i - 1)
    IN  Scan[Window].best

\* sce_get4pop with a fragment to map to: _map_frag clears nr_miss.
Populate ==
    /\ Chosen # None
    /\ mapped' = mapped \cup {Chosen}
    /\ heat' = [heat EXCEPT ![Chosen] = 0]
    /\ misses' = [misses EXCEPT ![Chosen] = 0]
    /\ UNCHANGED <<nrfrag, logvars>>

\* Eviction, collection and cancellation: _unmap_frag.
Unmap(lf) ==
    /\ lf \in mapped
    /\ mapped' = mapped \ {lf}
    /\ UNCHANGED <<nrfrag, heat, misses, logvars>>

AddLun(l, n) ==
    /\ nrfrag[l] = 0
    /\ \A k \in Lun : k < l => nrfrag[k] > 0
    /\ nrfrag' = [nrfrag EXCEPT ![l] = n]
    /\ heat' = [lf \in LF |-> IF lf[1] = l THEN FreshHeat ELSE heat[lf]]
    /\ misses' = [lf \in LF |-> IF lf[1] = l THEN 0 ELSE misses[lf]]
    /\ UNCHANGED <<mapped, logvars>>

\* sce_rmlun; nothing removes the LUN's entries from the log.
RmLun(l) ==
    /\ nrfrag[l] > 0
    /\ nrfrag' = [nrfrag EXCEPT ![l] = 0]
    /\ mapped' = {lf \in mapped : lf[1] # l}
    /\ UNCHANGED <<heat, misses, logvars>>

Next ==
    \/ \E lf \in LF : Miss(lf) \/ Unmap(lf)
    \/ Populate
    \/ \E l \in Lun : RmLun(l) \/ \E n \in LunFrags : AddLun(l, n)

Spec == Init /\ [][Next]_vars
-----------------------------------------------------------------------------
\* Type invariant.
TypeOK ==
    /\ nrfrag \in [Lun -> LunFrags \cup {0}]
    /\ mapped \subseteq LF
    /\ heat \in [LF -> Nat]
    /\ ring \in [Slot -> LF]
    /\ head \in Slot
    /\ size \in 0 .. LogSize
    /\ misses \in [LF -> 0 .. MaxMisses]

\* The ring read through _misslog_get, the latest miss first.
Recent == [k \in 1 .. size |-> Get(k - 1)]

R == INSTANCE RecentMisses WITH log <- Recent, Entry <- LF, Capacity <- LogSize

\* The ring buffer implements the log of the LogSize most recent misses,
\* across the wrap of head and from empty to full.
KeepsRecentMisses == R!Spec

\* Entries the policy looks at: those of the window down to the first one of a
\* removed LUN, which ends the search.  And those it could populate.
Seen == {k \in 1 .. size : k <= Window /\ \A j \in 1 .. k : LunIsValid(Recent[j])}
Candidates == {k \in Seen : HasFrag(Recent[k]) /\ Recent[k] \notin mapped
                            /\ heat[Recent[k]] > 0}
Hottest(e) ==
    \E k \in Candidates :
        /\ e = Recent[k]
        /\ \A j \in Candidates : \/ heat[Recent[j]] < heat[e]
                                 \/ heat[Recent[j]] = heat[e] /\ (Recent[j] = e \/ k < j)

\* "populate the hottest MRU fragment within cache miss window" (sce.h): the
\* choice is the hottest unmapped fragment among the recent misses up to the
\* first removed LUN, the most recent of equals, whatever wraps, removals and
\* smaller LUNs in the same slot left in the ring.
ChoosesHottest ==
    IF Candidates = {} THEN Chosen = None ELSE Chosen # None /\ Hottest(Chosen)
=============================================================================
