------------------------------ MODULE EngineProofs ------------------------------
(***************************************************************************)
(* TLAPS proofs about the engine, for any number of LUNs, cache devices,   *)
(* fragments, requests, writes and removals, in three parts:               *)
(*   - module Sce: the invariant of the engine, with or without faults;    *)
(*   - module Coherence: that invariant carries over, and data is coherent *)
(*     on top of it;                                                       *)
(*   - module Hotplug: what is left of the invariant when a cache device   *)
(*     is removed under requests in flight.                                *)
(***************************************************************************)
EXTENDS Coherence, Hotplug, FiniteSetTheorems, TLAPS

(***************************************************************************)
(* Part 1.  The engine: module Sce.                                        *)
(***************************************************************************)

Holding == {"read", "fill", "store", "leaked"}

\* What the program counter says about the rest of a request's state, and
\* that sce->lock admits one chooser at a time.
Shape ==
    /\ \A u \in User : upc[u] = "idle" => ulf[u] = None
    /\ \A u \in User : upf[u] # None <=> upc[u] \in Holding
    /\ \A u \in User : upc[u] = "read" => u \in Reader
    /\ \A u \in User : upc[u] \in {"chosen", "fill", "store"} => u \in Task
    /\ \A t, v \in Task : upc[t] = "chosen" /\ upc[v] = "chosen" => t = v

\* The inductive invariant.
IInv ==
    /\ TypeOK /\ Accounting /\ Partition /\ Pinned /\ Populating
    /\ LastUserPurges /\ NoDeadFragment /\ ChoiceStands /\ Shape

-----------------------------------------------------------------------------
(* Counting holders. *)

LEMMA UserFinite == IsFiniteSet(User)
BY SceAssumption, FS_Union DEF User

LEMMA Count ==
    ASSUME NEW S, S \subseteq User
    PROVE  /\ IsFiniteSet(S)
           /\ Cardinality(S) \in Nat
           /\ Cardinality(S) = 0 <=> S = {}
           /\ \A u \in User \ S : Cardinality(S \cup {u}) = Cardinality(S) + 1
           /\ \A u \in S : Cardinality(S \ {u}) = Cardinality(S) - 1
BY UserFinite, FS_Subset, FS_CardinalityType, FS_EmptySet, FS_AddElement, FS_RemoveElement

\* Taking a fragment adds one holder to it and one to its LUN.
LEMMA Gain ==
    ASSUME TypeOK, NEW u \in User, upf[u] = None,
           NEW pc, NEW lf \in LF, NEW p \in Pfid, Become(u, pc, lf, p)
    PROVE  /\ \A q \in Pfid : UsersOn(q)' = IF q = p THEN UsersOn(q) \cup {u} ELSE UsersOn(q)
           /\ \A l \in Lun : UsersOf(l)' = IF l = lf[1] THEN UsersOf(l) \cup {u} ELSE UsersOf(l)
           /\ u \notin UsersOn(p) /\ u \notin UsersOf(lf[1])
<1>1. p # None BY SceAssumption
<1>2. upf' = [upf EXCEPT ![u] = p] /\ ulf' = [ulf EXCEPT ![u] = lf] BY DEF Become
<1>3. ASSUME NEW q \in Pfid
      PROVE  UsersOn(q)' = IF q = p THEN UsersOn(q) \cup {u} ELSE UsersOn(q)
  BY <1>1, <1>2, SceAssumption DEF TypeOK, UsersOn
<1>4. ASSUME NEW l \in Lun
      PROVE  UsersOf(l)' = IF l = lf[1] THEN UsersOf(l) \cup {u} ELSE UsersOf(l)
  BY <1>1, <1>2 DEF TypeOK, UsersOf
<1> QED BY <1>1, <1>3, <1>4 DEF UsersOn, UsersOf

\* Leaving removes one holder from the fragment and from its LUN.
LEMMA Lose ==
    ASSUME TypeOK, NEW u \in User, upf[u] # None, ulf[u] # None, Finish(u)
    PROVE  /\ \A q \in Pfid : UsersOn(q)' = IF q = upf[u] THEN UsersOn(q) \ {u} ELSE UsersOn(q)
           /\ \A l \in Lun : UsersOf(l)' = IF l = ulf[u][1] THEN UsersOf(l) \ {u} ELSE UsersOf(l)
           /\ u \in UsersOn(upf[u]) /\ u \in UsersOf(ulf[u][1])
           /\ upf[u] \in Pfid /\ ulf[u] \in LF
<1>1. upf' = [upf EXCEPT ![u] = None] /\ ulf' = [ulf EXCEPT ![u] = None] BY DEF Finish, Become
<1>2. upf[u] \in Pfid /\ ulf[u] \in LF BY DEF TypeOK
<1>3. None \notin Pfid BY SceAssumption
<1> QED BY <1>1, <1>2, <1>3 DEF TypeOK, UsersOn, UsersOf

\* A step that gives or takes no fragment changes no set of holders.
LEMMA Same ==
    ASSUME TypeOK, upf' = upf,
           \A u \in User : upf[u] # None => ulf'[u] = ulf[u]
    PROVE  /\ \A q \in Pfid : UsersOn(q)' = UsersOn(q)
           /\ \A l \in Lun : UsersOf(l)' = UsersOf(l)
BY DEF UsersOn, UsersOf

-----------------------------------------------------------------------------
LEMMA InitIInv == Init => IInv
<1> SUFFICES ASSUME Init PROVE IInv OBVIOUS
<1>1. TypeOK BY SceAssumption DEF Init, TypeOK
<1>2. /\ \A p \in Pfid : UsersOn(p) = {}
      /\ \A l \in Lun : UsersOf(l) = {}
  BY SceAssumption DEF Init, UsersOn, UsersOf
<1>3. Accounting BY <1>2, FS_EmptySet DEF Init, Accounting
<1>4. Partition BY SceAssumption DEF Init, Partition
<1>5. Pinned /\ Populating /\ LastUserPurges /\ NoDeadFragment
  BY DEF Init, Pinned, Populating, LastUserPurges, NoDeadFragment
<1>6. ChoiceStands /\ Shape BY DEF Init, ChoiceStands, Shape, Holding, User
<1> QED BY <1>1, <1>3, <1>4, <1>5, <1>6 DEF IInv
-----------------------------------------------------------------------------
(* Consequences of the invariant used by every action. *)

\* A holder's fragment points back at the holder's logical fragment.
LEMMA Held ==
    ASSUME IInv, NEW u \in User, upf[u] # None
    PROVE  /\ ulf[u] \in LF /\ upf[u] \in Pfid /\ ulf[u][1] \in Lun /\ ulf[u][2] \in Frag
           /\ map[ulf[u]] = upf[u] /\ owner[upf[u]] = ulf[u]
           /\ u \in UsersOn(upf[u]) /\ u \in UsersOf(ulf[u][1])
           /\ svc[upf[u]] > 0 /\ lunsvc[ulf[u][1]] > 0
<1>1. ulf[u] \in LF /\ upf[u] \in Pfid /\ map[ulf[u]] = upf[u]
  BY DEF IInv, TypeOK, Pinned
<1>2. ulf[u][1] \in Lun /\ ulf[u][2] \in Frag BY <1>1 DEF LF
<1>3. owner[upf[u]] = ulf[u] BY <1>1 DEF IInv, Partition
<1>4. u \in UsersOn(upf[u]) /\ u \in UsersOf(ulf[u][1]) BY DEF UsersOn, UsersOf
<1>5. UsersOn(upf[u]) \subseteq User /\ UsersOf(ulf[u][1]) \subseteq User BY DEF UsersOn, UsersOf
<1>6. Cardinality(UsersOn(upf[u])) > 0 /\ Cardinality(UsersOf(ulf[u][1])) > 0
  <2>1. Cardinality(UsersOn(upf[u])) \in Nat \ {0} BY ONLY <1>4, <1>5, Count
  <2>2. Cardinality(UsersOf(ulf[u][1])) \in Nat \ {0} BY ONLY <1>4, <1>5, Count
  <2> QED BY <2>1, <2>2
<1> QED BY <1>1, <1>2, <1>3, <1>4, <1>6 DEF IInv, Accounting

\* A fragment out of service has no holder.
LEMMA Unheld ==
    ASSUME Accounting, NEW q \in Pfid, svc[q] = 0
    PROVE  UsersOn(q) = {} /\ \A u \in User : upf[u] # q
<1>1. UsersOn(q) \subseteq User BY DEF UsersOn
<1>2. Cardinality(UsersOn(q)) = 0 BY DEF Accounting
<1>3. UsersOn(q) = {} BY <1>1, <1>2, Count
<1> QED BY <1>3 DEF UsersOn

\* Unmapping fragments that somebody owns keeps fragmap, back pointers and
\* free list in step.
LEMMA UnmapPartition ==
    ASSUME TypeOK, Partition, NEW freed \in SUBSET Pfid,
           \A q \in freed : owner[q] # None,
           NEW valid1 \in SUBSET LF, \A lf \in valid1 : map[lf] # None,
           Unmap(freed, valid1), UNCHANGED <<size, cdev>>
    PROVE  Partition'
<1>1. \A lf \in LF, q \in Pfid : map'[lf] = q <=> owner'[q] = lf
  BY SceAssumption DEF TypeOK, Partition, Unmap
<1>2. \A lf \in LF : map'[lf] # None => HasFrag(lf[1], lf[2])'
  BY DEF TypeOK, Partition, Unmap, HasFrag
<1>3. \A lf \in valid' : map'[lf] # None BY DEF TypeOK, Unmap
<1>4. \A q \in freed : q[1] \in cdev /\ q \in cdev \X Off
  BY DEF Partition, TypeOK, Pfid
<1>5. freelist' = {q \in cdev' \X Off : owner'[q] = None}
  <2>1. cdev \X Off \subseteq Pfid BY DEF TypeOK, Pfid
  <2> QED BY <1>4, <2>1 DEF Partition, Unmap
<1>6. \A q \in Pfid : owner'[q] # None => q[1] \in cdev' BY DEF Partition, Unmap
<1> QED BY <1>1, <1>2, <1>3, <1>5, <1>6 DEF Partition

\* The fragments of a LUN are those that point back at it.
LEMMA FragsOfOwned ==
    ASSUME TypeOK, Partition, NEW l \in Lun, NEW q \in Pfid
    PROVE  q \in FragsOf(l) <=> owner[q] # None /\ owner[q][1] = l
<1>1. ASSUME NEW f \in Frag, map[<<l, f>>] = q PROVE owner[q] = <<l, f>>
  BY <1>1 DEF Partition, LF
<1>2. ASSUME owner[q] # None, owner[q][1] = l
      PROVE  owner[q][2] \in Frag /\ map[<<l, owner[q][2]>>] = q
  <2>1. owner[q] \in LF BY <1>2 DEF TypeOK
  <2>2. owner[q] = <<l, owner[q][2]>> /\ owner[q][2] \in Frag BY <1>2, <2>1 DEF LF
  <2> QED BY <2>1, <2>2 DEF Partition
<1>3. \A f \in Frag : <<l, f>> \in LF BY DEF LF
<1>4. ASSUME q \in FragsOf(l) PROVE owner[q] # None /\ owner[q][1] = l
  <2>1. PICK f \in Frag : map[<<l, f>>] = q BY <1>4 DEF FragsOf, FragOn
  <2> QED BY <1>1, <1>3, <2>1, SceAssumption
<1>5. ASSUME owner[q] # None, owner[q][1] = l PROVE q \in FragsOf(l)
  BY <1>2, <1>5 DEF FragsOf, FragOn
<1> QED BY <1>4, <1>5

\* So does purging a LUN none of whose fragments is in service.
LEMMA PurgePartition ==
    ASSUME TypeOK, Partition, NEW l \in Lun, \A q \in FragsOf(l) : svc'[q] = 0,
           NEW valid1 \in SUBSET LF, \A lf \in valid1 : map[lf] # None,
           Purge(l, valid1), UNCHANGED cdev
    PROVE  Partition'
<1> DEFINE freed == FragsOf(l)
<1>0. /\ size' = [size EXCEPT ![l] = 0]
      /\ map' = [lf \in LF |-> IF lf[1] = l THEN None ELSE map[lf]]
      /\ valid' = {lf \in valid1 : lf[1] # l}
      /\ owner' = [q \in Pfid |-> IF q \in freed THEN None ELSE owner[q]]
      /\ freelist' = freelist \cup freed
  BY DEF Purge
<1>a. \A q \in Pfid : q \in freed <=> owner[q] # None /\ owner[q][1] = l
  BY FragsOfOwned
<1>b. freed \subseteq Pfid BY DEF FragsOf
<1> HIDE DEF freed
<1>1. \A lf \in LF, q \in Pfid : map'[lf] = q <=> owner'[q] = lf
  BY <1>0, <1>a, SceAssumption DEF TypeOK, Partition
<1>2. \A lf \in LF : map'[lf] # None => HasFrag(lf[1], lf[2])'
  BY <1>0 DEF TypeOK, Partition, HasFrag, LF
<1>3. \A lf \in valid' : map'[lf] # None BY <1>0 DEF TypeOK
<1>4. \A q \in freed : q \in cdev \X Off
  BY <1>a, <1>b DEF Partition, TypeOK, Pfid
<1>5. freelist' = {q \in cdev' \X Off : owner'[q] = None}
  <2>1. cdev \X Off \subseteq Pfid BY DEF TypeOK, Pfid
  <2> QED BY <1>0, <1>4, <2>1 DEF Partition
<1>6. \A q \in Pfid : owner'[q] # None => q[1] \in cdev' BY <1>0 DEF Partition
<1> QED BY <1>1, <1>2, <1>3, <1>5, <1>6 DEF Partition

-----------------------------------------------------------------------------
(* The one lemma behind put4read, complete_population and cancel_population:
   a holder leaves, its two counts go down, and the collector runs. *)
LEMMA Release ==
    ASSUME IInv, NEW u \in User, NEW p \in Pfid, NEW lf \in LF, NEW l \in Lun,
           upf[u] = p, ulf[u] = lf, lf[1] = l, Finish(u),
           NEW drop \in SUBSET {p}, NEW valid1 \in {valid, valid \cup {lf}},
           svc' = [svc EXCEPT ![p] = @ - 1],
           lunsvc' = [lunsvc EXCEPT ![l] = @ - 1],
           Collect(l, drop, valid1),
           drop # {} => svc'[p] = 0,
           svc'[p] = 0 /\ bitmap[p] = Page => drop = {p},
           u \in Reader => valid1 = valid,
           u \in Task /\ valid1 = valid => drop = {p},
           UNCHANGED <<cdev, bitmap>>
    PROVE  IInv'
<1>1. /\ upf[u] # None /\ ulf[u] # None
      /\ map[lf] = p /\ owner[p] = lf
      /\ svc[p] > 0 /\ lunsvc[l] > 0
  BY Held, SceAssumption
<1>2. TypeOK /\ Accounting /\ Partition BY DEF IInv
<1>3. /\ \A q \in Pfid : UsersOn(q)' = IF q = p THEN UsersOn(q) \ {u} ELSE UsersOn(q)
      /\ \A k \in Lun : UsersOf(k)' = IF k = l THEN UsersOf(k) \ {u} ELSE UsersOf(k)
      /\ u \in UsersOn(p) /\ u \in UsersOf(l)
  BY <1>1, <1>2, Lose, SceAssumption
<1>4. /\ upc' = [upc EXCEPT ![u] = "idle"]
      /\ ulf' = [ulf EXCEPT ![u] = None]
      /\ upf' = [upf EXCEPT ![u] = None]
  BY DEF Finish, Become
<1>5. Accounting'
  <2>1. \A q \in Pfid : svc'[q] = Cardinality(UsersOn(q)')
    <3> TAKE q \in Pfid
    <3>1. UsersOn(q) \subseteq User BY DEF UsersOn
    <3>2. svc[q] = Cardinality(UsersOn(q)) BY <1>2 DEF Accounting
    <3>3. CASE q = p
      <4>1. Cardinality(UsersOn(q) \ {u}) = Cardinality(UsersOn(q)) - 1
        BY <1>3, <3>1, <3>3, Count
      <4> QED BY <1>1, <1>2, <1>3, <3>2, <3>3, <4>1 DEF TypeOK
    <3>4. CASE q # p BY <1>1, <1>2, <1>3, <3>2, <3>4 DEF TypeOK
    <3> QED BY <3>3, <3>4
  <2>2. \A k \in Lun : lunsvc'[k] = Cardinality(UsersOf(k)')
    <3> TAKE k \in Lun
    <3>1. UsersOf(k) \subseteq User BY DEF UsersOf
    <3>2. lunsvc[k] = Cardinality(UsersOf(k)) BY <1>2 DEF Accounting
    <3>3. CASE k = l
      <4>1. Cardinality(UsersOf(k) \ {u}) = Cardinality(UsersOf(k)) - 1
        BY <1>3, <3>1, <3>3, Count
      <4> QED BY <1>1, <1>2, <1>3, <3>2, <3>3, <4>1 DEF TypeOK
    <3>4. CASE k # l BY <1>1, <1>2, <1>3, <3>2, <3>4 DEF TypeOK
    <3> QED BY <3>3, <3>4
  <2> QED BY <2>1, <2>2 DEF Accounting
<1>6. svc' \in [Pfid -> Nat] /\ lunsvc' \in [Lun -> Nat] BY <1>1, <1>2 DEF TypeOK
<1>7. valid1 \subseteq LF /\ \A k \in valid1 : map[k] # None
  BY <1>1, <1>2, SceAssumption DEF Partition, TypeOK
<1>8. \A q \in Pfid : svc'[q] = 0 => \A v \in User : upf'[v] # q
  <2> TAKE q \in Pfid
  <2> HAVE svc'[q] = 0
  <2>1. UsersOn(q)' \subseteq User BY DEF UsersOn
  <2>2. Cardinality(UsersOn(q)') = 0 BY <1>5 DEF Accounting
  <2>3. UsersOn(q)' = {} BY <2>1, <2>2, Count
  <2> QED BY <2>3 DEF UsersOn
<1>9. Shape' BY <1>4 DEF IInv, TypeOK, Shape, Holding, User
<1>10. CASE ~(waiting[l] /\ lunsvc'[l] = 0)
  <2>1. Unmap(drop, valid1) /\ UNCHANGED <<size, waiting>> BY <1>10 DEF Collect
  <2>2. /\ map' = [k \in LF |-> IF map[k] \in drop THEN None ELSE map[k]]
        /\ valid' = {k \in valid1 : map[k] \notin drop}
        /\ owner' = [q \in Pfid |-> IF q \in drop THEN None ELSE owner[q]]
        /\ freelist' = freelist \cup drop
    BY <2>1 DEF Unmap
  <2>3. TypeOK' BY <1>1, <1>2, <1>4, <1>6, <1>7, <2>1, <2>2 DEF TypeOK
  <2>4. Partition'
    BY <1>1, <1>2, <1>7, <2>1, UnmapPartition, SceAssumption
  <2>5. Pinned'
    <3> SUFFICES ASSUME NEW v \in User, NEW q, q = upf'[v], q # None
                 PROVE  /\ ulf'[v] # None
                        /\ map'[ulf'[v]] = q
                        /\ v \in Reader <=> ulf'[v] \in valid'
                        /\ v \in Task => UsersOn(q)' = {v}
      BY DEF Pinned, UsersOn
    <3>1. v # u /\ upf[v] = q /\ ulf'[v] = ulf[v] BY <1>2, <1>4 DEF TypeOK
    <3>2. /\ ulf[v] # None /\ map[ulf[v]] = q /\ ulf[v] \in LF /\ q \in Pfid
          /\ v \in Reader <=> ulf[v] \in valid
          /\ v \in Task => UsersOn(q) = {v}
          /\ v \in UsersOn(q)
      BY <3>1, Held DEF IInv, Pinned
    <3>3. q \notin drop BY <1>8, <3>2
    <3>4. v \in Task => q # p BY <1>3, <3>1, <3>2
    <3>5. v \in Task => ulf[v] # lf BY <1>1, <3>2, <3>4
    <3>6. v \in Reader \/ v \in Task BY DEF User
    <3>7. v \in Reader <=> ulf[v] \in valid'
      BY <1>1, <2>2, <3>2, <3>3, <3>5, <3>6, SceAssumption
    <3>8. v \in Task => UsersOn(q)' = {v} BY <1>3, <3>2, <3>4
    <3> QED BY <2>2, <3>1, <3>2, <3>3, <3>7, <3>8
  <2>6. Populating'
    <3> SUFFICES ASSUME NEW k \in LF, map'[k] # None, k \notin valid'
                 PROVE  \E t \in Task : upf'[t] = map'[k]
      BY DEF Populating
    <3>1. map'[k] = map[k] /\ map[k] # None /\ map[k] \notin drop /\ k \notin valid1
      BY <2>2
    <3>2. PICK t \in Task : upf[t] = map[k] BY <3>1 DEF IInv, Populating
    <3>3. t # u
      <4> SUFFICES ASSUME t = u PROVE FALSE OBVIOUS
      <4>1. owner[p] = k BY <1>1, <1>2, <3>2 DEF Partition
      <4> QED BY <1>1, <3>1, <3>2, <4>1
    <3> QED BY <1>2, <1>4, <3>1, <3>2, <3>3 DEF TypeOK, User
  <2>7. LastUserPurges' BY <1>1, <1>2, <1>6, <1>10, <2>1 DEF IInv, LastUserPurges, TypeOK
  <2>8. NoDeadFragment'
    <3> SUFFICES ASSUME NEW k \in LF, map'[k] # None, bitmap'[map'[k]] = Page
                 PROVE  svc'[map'[k]] > 0
      BY DEF NoDeadFragment
    <3>1. map'[k] = map[k] /\ map[k] \in Pfid /\ map[k] \notin drop BY <1>2, <2>2 DEF TypeOK
    <3>2. svc[map[k]] > 0 BY <3>1, SceAssumption DEF IInv, NoDeadFragment
    <3> QED BY <1>2, <1>6, <3>1, <3>2 DEF TypeOK
  <2>9. ChoiceStands' BY <1>2, <1>4, <2>1, <2>2
        DEF IInv, ChoiceStands, TypeOK, User, Serviceable, CanMap, HasFrag
  <2> QED BY <1>5, <1>9, <2>3, <2>4, <2>5, <2>6, <2>7, <2>8, <2>9 DEF IInv
<1>11. CASE waiting[l] /\ lunsvc'[l] = 0
  <2>1. Purge(l, valid1) BY <1>11 DEF Collect
  <2>2. \A v \in User : upf'[v] # None => upf'[v] = upf[v] /\ ulf'[v] = ulf[v] /\ ulf[v][1] # l
    <3>1. UsersOf(l)' \subseteq User BY DEF UsersOf
    <3>2. Cardinality(UsersOf(l)') = 0 BY <1>1, <1>5, <1>11 DEF Accounting
    <3>3. UsersOf(l)' = {} BY <3>1, <3>2, Count
    <3> QED BY <1>2, <1>4, <3>3 DEF TypeOK, UsersOf
  <2>3. \A q \in FragsOf(l) : svc'[q] = 0
    <3> SUFFICES ASSUME NEW q \in FragsOf(l), svc'[q] # 0 PROVE FALSE OBVIOUS
    <3>1. q \in Pfid /\ owner[q][1] = l BY FragsOfOwned DEF FragsOf, IInv
    <3>2. UsersOn(q)' \subseteq User BY DEF UsersOn
    <3>3. Cardinality(UsersOn(q)') # 0 BY <1>5, <3>1 DEF Accounting
    <3>4. PICK v \in User : upf'[v] = q BY <3>2, <3>3, Count DEF UsersOn
    <3>5. upf[v] = q /\ upf[v] # None /\ ulf[v][1] # l BY <2>2, <3>1, <3>4, SceAssumption
    <3>6. owner[q] = ulf[v] BY <3>5, Held
    <3> QED BY <3>1, <3>5, <3>6
  <2>4. /\ size' = [size EXCEPT ![l] = 0]
        /\ waiting' = [waiting EXCEPT ![l] = FALSE]
        /\ map' = [k \in LF |-> IF k[1] = l THEN None ELSE map[k]]
        /\ valid' = {k \in valid1 : k[1] # l}
    BY <2>1 DEF Purge
  <2>5. TypeOK'
    <3>1. owner' \in [Pfid -> LF \cup {None}] /\ freelist' \subseteq Pfid
      BY <1>2, <2>1 DEF Purge, FragsOf, TypeOK
    <3> QED BY <1>1, <1>2, <1>4, <1>6, <1>7, <2>4, <3>1 DEF TypeOK
  <2>6. Partition' BY <1>1, <1>2, <1>7, <2>1, <2>3, PurgePartition
  <2>7. Pinned'
    <3> SUFFICES ASSUME NEW v \in User, NEW q, q = upf'[v], q # None
                 PROVE  /\ ulf'[v] # None
                        /\ map'[ulf'[v]] = q
                        /\ v \in Reader <=> ulf'[v] \in valid'
                        /\ v \in Task => UsersOn(q)' = {v}
      BY DEF Pinned, UsersOn
    <3>1. upf[v] = q /\ ulf'[v] = ulf[v] /\ ulf[v][1] # l BY <2>2
    <3>2. /\ ulf[v] # None /\ map[ulf[v]] = q /\ ulf[v] \in LF /\ q \in Pfid
          /\ v \in Reader <=> ulf[v] \in valid
          /\ v \in Task => UsersOn(q) = {v}
          /\ owner[q] = ulf[v]
      BY <3>1, Held DEF IInv, Pinned
    <3>3. q # p BY <1>1, <3>1, <3>2
    <3>4. v \in Task => UsersOn(q)' = {v} BY <1>3, <3>2, <3>3
    <3>5. ulf[v] \in valid' <=> ulf[v] \in valid BY <2>4, <3>1
    <3> QED BY <2>4, <3>1, <3>2, <3>4, <3>5
  <2>8. Populating'
    <3> SUFFICES ASSUME NEW k \in LF, map'[k] # None, k \notin valid'
                 PROVE  \E t \in Task : upf'[t] = map'[k]
      BY DEF Populating
    <3>1. map'[k] = map[k] /\ map[k] # None /\ k[1] # l /\ k \notin valid1 BY <2>4
    <3>2. PICK t \in Task : upf[t] = map[k] BY <3>1 DEF IInv, Populating
    <3>3. t # u
      <4> SUFFICES ASSUME t = u PROVE FALSE OBVIOUS
      <4>1. owner[p] = k BY <1>1, <1>2, <3>2 DEF Partition
      <4> QED BY <1>1, <3>1, <4>1
    <3> QED BY <1>2, <1>4, <3>1, <3>2, <3>3 DEF TypeOK, User
  <2>9. LastUserPurges'
    <3> SUFFICES ASSUME NEW k \in Lun, waiting'[k] PROVE size'[k] > 0 /\ lunsvc'[k] > 0
      BY DEF LastUserPurges
    <3>1. k # l /\ waiting[k] BY <1>2, <2>4 DEF TypeOK
    <3> QED BY <1>2, <2>4, <3>1 DEF IInv, LastUserPurges, TypeOK
  <2>10. NoDeadFragment'
    <3> SUFFICES ASSUME NEW k \in LF, map'[k] # None, bitmap'[map'[k]] = Page
                 PROVE  svc'[map'[k]] > 0
      BY DEF NoDeadFragment
    <3>1. map'[k] = map[k] /\ map[k] \in Pfid /\ k[1] # l BY <1>2, <2>4 DEF TypeOK
    <3>2. svc[map[k]] > 0 BY <3>1, SceAssumption DEF IInv, NoDeadFragment
    <3>3. map[k] # p BY <1>1, <1>2, <3>1 DEF Partition
    <3> QED BY <1>2, <3>1, <3>2, <3>3 DEF TypeOK
  <2>11. ChoiceStands'
    <3> SUFFICES ASSUME NEW t \in Task, NEW k, upc'[t] = "chosen", k = ulf'[t]
                 PROVE  k # None /\ Serviceable(k[1])' /\ CanMap(k)'
      BY DEF ChoiceStands, Serviceable, CanMap, HasFrag
    <3>1. upc[t] = "chosen" /\ ulf[t] = k BY <1>2, <1>4 DEF TypeOK, User
    <3>2. k \in LF /\ Serviceable(k[1]) /\ CanMap(k)
      BY <1>2, <3>1 DEF IInv, ChoiceStands, TypeOK, User
    <3>3. k[1] # l /\ k[1] \in Lun BY <1>11, <3>2 DEF Serviceable, LF
    <3> QED BY <1>2, <2>4, <3>1, <3>2, <3>3, SceAssumption
         DEF Serviceable, CanMap, HasFrag, TypeOK
  <2> QED BY <1>5, <1>9, <2>5, <2>6, <2>7, <2>8, <2>9, <2>10, <2>11 DEF IInv
<1> QED BY <1>10, <1>11

\* Steps that only move a request along, without giving or taking a fragment.
LEMMA Frame ==
    ASSUME IInv, UNCHANGED <<lunvars, mapvars, cdev, fragvars>>, upf' = upf,
           \A u \in User : upf[u] # None => ulf'[u] = ulf[u]
    PROVE  /\ Accounting' /\ Partition' /\ Pinned'
           /\ Populating' /\ LastUserPurges' /\ NoDeadFragment'
<1> USE DEF lunvars, mapvars, fragvars
<1>1. /\ \A q \in Pfid : UsersOn(q)' = UsersOn(q)
      /\ \A l \in Lun : UsersOf(l)' = UsersOf(l)
  BY Same DEF IInv
<1>2. Accounting' BY <1>1 DEF IInv, Accounting
<1>3. Partition' BY DEF IInv, Partition, HasFrag
<1>4. Pinned' BY <1>1 DEF IInv, Pinned, UsersOn
<1>5. Populating' /\ LastUserPurges' /\ NoDeadFragment'
  BY DEF IInv, Populating, LastUserPurges, NoDeadFragment
<1> QED BY <1>2, <1>3, <1>4, <1>5

LEMMA PcStep ==
    ASSUME IInv, NEW u \in User, upf[u] # None, NEW pc \in Holding,
           pc = "read" => u \in Reader, pc \in {"fill", "store"} => u \in Task,
           upc' = [upc EXCEPT ![u] = pc],
           UNCHANGED <<lunvars, mapvars, cdev, fragvars, ulf, upf>>
    PROVE  IInv'
<1>1. /\ Accounting' /\ Partition' /\ Pinned'
      /\ Populating' /\ LastUserPurges' /\ NoDeadFragment'
  BY Frame
<1>2. TypeOK' BY DEF IInv, TypeOK, Holding, lunvars, mapvars, fragvars
<1>3. ChoiceStands'
  BY DEF IInv, ChoiceStands, TypeOK, User, Holding, lunvars, mapvars, Serviceable, CanMap, HasFrag
<1>4. Shape' BY DEF IInv, TypeOK, Shape, Holding, User
<1> QED BY <1>1, <1>2, <1>3, <1>4 DEF IInv

LEMMA ChooseStep == ASSUME IInv, NEW t \in Task, NEW lf \in LF, Choose(t, lf) PROVE IInv'
<1>1. /\ t \in User /\ upc[t] = "idle" /\ upf[t] = None
      /\ upc' = [upc EXCEPT ![t] = "chosen"]
      /\ ulf' = [ulf EXCEPT ![t] = lf]
      /\ upf' = upf
  BY DEF IInv, TypeOK, Shape, Holding, Choose, Become, User
<1>2. UNCHANGED <<lunvars, mapvars, cdev, fragvars>> BY DEF Choose
<1>3. /\ Accounting' /\ Partition' /\ Pinned'
      /\ Populating' /\ LastUserPurges' /\ NoDeadFragment'
  BY <1>1, <1>2, Frame DEF IInv, TypeOK
<1>4. TypeOK' BY <1>1, <1>2 DEF IInv, TypeOK, lunvars, mapvars, fragvars
<1>5. ChoiceStands'
  BY <1>1, <1>2, SceAssumption
  DEF IInv, TypeOK, ChoiceStands, Choose, CanMap, Serviceable, HasFrag, lunvars, mapvars, User
<1>6. Shape' BY <1>1 DEF IInv, TypeOK, Shape, Holding, User, Choose, SceUnlocked
<1> QED BY <1>3, <1>4, <1>5, <1>6 DEF IInv

LEMMA AllocFailStep == ASSUME IInv, NEW t \in Task, AllocFail(t) PROVE IInv'
<1>1. /\ t \in User /\ upc[t] = "chosen" /\ upf[t] = None
      /\ upc' = [upc EXCEPT ![t] = "idle"]
      /\ ulf' = [ulf EXCEPT ![t] = None]
      /\ upf' = upf
  BY DEF IInv, TypeOK, Shape, Holding, AllocFail, Finish, Become, User
<1>2. UNCHANGED <<lunvars, mapvars, cdev, fragvars>> BY DEF AllocFail
<1>3. /\ Accounting' /\ Partition' /\ Pinned'
      /\ Populating' /\ LastUserPurges' /\ NoDeadFragment'
  BY <1>1, <1>2, Frame DEF IInv, TypeOK
<1>4. TypeOK' BY <1>1, <1>2 DEF IInv, TypeOK, lunvars, mapvars, fragvars
<1>5. ChoiceStands'
  BY <1>1, <1>2
  DEF IInv, TypeOK, ChoiceStands, CanMap, Serviceable, HasFrag, lunvars, mapvars, User
<1>6. Shape' BY <1>1 DEF IInv, TypeOK, Shape, Holding, User
<1> QED BY <1>3, <1>4, <1>5, <1>6 DEF IInv

-----------------------------------------------------------------------------
(* Releases. *)

\* All holders of a fragment are holders of its LUN.
LEMMA LunBusy ==
    ASSUME IInv, NEW u \in User, upf[u] # None
    PROVE  svc[upf[u]] <= lunsvc[ulf[u][1]]
<1>1. UsersOn(upf[u]) \subseteq UsersOf(ulf[u][1])
  <2> SUFFICES ASSUME NEW v \in User, upf[v] = upf[u] PROVE ulf[v][1] = ulf[u][1]
    BY DEF UsersOn, UsersOf
  <2> QED BY Held
<1>2. IsFiniteSet(UsersOf(ulf[u][1])) BY Count DEF UsersOf
<1>3. Cardinality(UsersOn(upf[u])) <= Cardinality(UsersOf(ulf[u][1])) BY <1>1, <1>2, FS_Subset
<1> QED BY <1>3, Held DEF IInv, Accounting

LEMMA PutReadStep == ASSUME IInv, NEW r \in Reader, PutRead(r) PROVE IInv'
<1>1. r \in User /\ upf[r] # None BY DEF IInv, Shape, Holding, PutRead, User
<1>2. /\ upf[r] \in Pfid /\ ulf[r] \in LF /\ ulf[r][1] \in Lun
      /\ map[ulf[r]] = upf[r] /\ svc[upf[r]] > 0 /\ lunsvc[ulf[r][1]] > 0
  BY <1>1, Held
<1>3. ulf[r] \in valid BY <1>1 DEF IInv, Pinned
<1>4. CanPutRead(ulf[r]) BY <1>1, <1>2, <1>3 DEF CanPutRead
<1>5. PutReadOk(r, ulf[r], upf[r]) /\ Finish(r) /\ UNCHANGED <<cdev, bitmap>>
  BY <1>2, <1>4 DEF PutRead
<1>6. PICK pf \in Pfid, k \in LF, l \in Lun : pf = upf[r] /\ k = ulf[r] /\ l = k[1] BY <1>2
<1>7. svc' = [svc EXCEPT ![pf] = @ - 1] /\ lunsvc' = [lunsvc EXCEPT ![l] = @ - 1]
  BY <1>5, <1>6 DEF PutReadOk
<1>8. r \notin Task BY SceAssumption
<1>9. CASE svc'[pf] = 0
  <2>1. Collect(l, {q \in {pf} : Dead(q)}, valid) BY <1>5, <1>6, <1>9 DEF PutReadOk
  <2>2. PICK drop \in SUBSET {pf} : drop = {q \in {pf} : Dead(q)} OBVIOUS
  <2>3. bitmap[pf] = Page => drop = {pf} BY <1>9, <2>2 DEF Dead
  <2> QED BY <1>1, <1>5, <1>6, <1>7, <1>8, <1>9, <2>1, <2>2, <2>3, Release
<1>10. CASE svc'[pf] # 0
  <2>1. lunsvc'[l] # 0
    BY <1>1, <1>2, <1>6, <1>7, <1>10, LunBusy DEF IInv, TypeOK
  <2>2. UNCHANGED <<size, waiting, map, valid, owner, freelist>>
    BY <1>5, <1>6, <1>10 DEF PutReadOk, mapvars
  <2>3. map = [k2 \in LF |-> map[k2]] /\ owner = [q \in Pfid |-> owner[q]]
    BY DEF IInv, TypeOK
  <2>4. Unmap({}, valid) BY <2>2, <2>3 DEF Unmap
  <2>5. Collect(l, {}, valid) BY <2>1, <2>2, <2>4 DEF Collect
  <2> QED BY <1>1, <1>5, <1>6, <1>7, <1>8, <1>10, <2>5, Release
<1> QED BY <1>9, <1>10

LEMMA PutPopOkStep == ASSUME IInv, NEW t \in Task, PutPopOk(t) PROVE IInv'
<1>1. t \in User /\ upf[t] # None BY DEF IInv, Shape, Holding, PutPopOk, User
<1>2. PICK pf \in Pfid, k \in LF, l \in Lun : pf = upf[t] /\ k = ulf[t] /\ l = k[1] BY <1>1, Held
<1>3. map[k] = pf /\ svc[pf] = 1 /\ k \notin valid
  <2>1. UsersOn(pf) = {t} /\ t \notin Reader BY <1>1, <1>2, SceAssumption DEF IInv, Pinned
  <2>2. Cardinality({t}) = 1 BY FS_Singleton
  <2> QED BY <1>1, <1>2, <2>1, <2>2, SceAssumption DEF IInv, Pinned, Accounting
<1>4. CanComplete(ulf[t]) BY <1>1, <1>2, <1>3 DEF CanComplete
<1>5. Completed(k, pf) /\ Finish(t) /\ UNCHANGED <<cdev, bitmap>>
  BY <1>2, <1>3, <1>4 DEF PutPopOk
<1>6. svc' = [svc EXCEPT ![pf] = @ - 1] /\ lunsvc' = [lunsvc EXCEPT ![l] = @ - 1]
  BY <1>2, <1>3, <1>5 DEF Completed, IInv, TypeOK
<1>7. svc'[pf] = 0 BY <1>3, <1>6 DEF IInv, TypeOK
<1>8. Collect(l, {q \in {pf} : Dead(q)}, valid \cup {k}) BY <1>2, <1>5 DEF Completed
<1>9. PICK drop \in SUBSET {pf} : drop = {q \in {pf} : Dead(q)} OBVIOUS
<1>10. bitmap[pf] = Page => drop = {pf} BY <1>7, <1>9 DEF Dead
<1>11. t \notin Reader /\ valid \cup {k} # valid BY <1>3, SceAssumption
<1> QED BY <1>1, <1>2, <1>5, <1>6, <1>7, <1>8, <1>9, <1>10, <1>11, Release

LEMMA PutPopFailedStep == ASSUME IInv, NEW t \in Task, PutPopFailed(t) PROVE IInv'
<1>1. t \in User /\ upf[t] # None BY DEF IInv, Shape, Holding, PutPopFailed, User
<1>2. PICK pf \in Pfid, k \in LF, l \in Lun : pf = upf[t] /\ k = ulf[t] /\ l = k[1] BY <1>1, Held
<1>3. map[k] = pf /\ svc[pf] = 1 /\ k \notin valid
  <2>1. UsersOn(pf) = {t} /\ t \notin Reader BY <1>1, <1>2, SceAssumption DEF IInv, Pinned
  <2>2. Cardinality({t}) = 1 BY FS_Singleton
  <2> QED BY <1>1, <1>2, <2>1, <2>2, SceAssumption DEF IInv, Pinned, Accounting
<1>4. CanCancel(ulf[t]) BY <1>1, <1>2, <1>3 DEF CanCancel
<1>5. Cancelled(k, pf) /\ Finish(t) /\ UNCHANGED <<cdev, bitmap>>
  BY <1>2, <1>3, <1>4 DEF PutPopFailed
<1>6. svc' = [svc EXCEPT ![pf] = @ - 1] /\ lunsvc' = [lunsvc EXCEPT ![l] = @ - 1]
  BY <1>2, <1>3, <1>5 DEF Cancelled, IInv, TypeOK
<1>7. svc'[pf] = 0 BY <1>3, <1>6 DEF IInv, TypeOK
<1>8. Collect(l, {pf}, valid) BY <1>2, <1>5 DEF Cancelled
<1>9. t \notin Reader BY SceAssumption
<1> QED BY <1>1, <1>2, <1>5, <1>6, <1>7, <1>8, <1>9, Release

-----------------------------------------------------------------------------
(* Steps that take a fragment. *)

LEMMA GetReadStep ==
    ASSUME IInv, NEW r \in Reader, NEW l \in Lun, NEW f \in Frag, NEW a, NEW b,
           GetRead(r, l, f, a, b)
    PROVE  IInv'
<1>1. r \in User /\ upf[r] = None /\ <<l, f>> \in LF
  BY DEF GetRead, IInv, Shape, Holding, User, TypeOK, LF
<1>2. PICK p \in Pfid, k \in LF : /\ p = map[<<l, f>>] /\ k = <<l, f>>
                                  /\ k \in valid /\ map[k] = p /\ k[1] = l
  BY <1>1 DEF GetRead, IInv, TypeOK
<1>3. /\ svc' = [svc EXCEPT ![p] = @ + 1]
      /\ lunsvc' = [lunsvc EXCEPT ![l] = @ + 1]
      /\ Become(r, "read", k, p)
      /\ UNCHANGED <<size, waiting, map, valid, cdev, owner, bitmap, freelist>>
  BY <1>2 DEF GetRead, mapvars
<1>4. /\ upc' = [upc EXCEPT ![r] = "read"]
      /\ ulf' = [ulf EXCEPT ![r] = k]
      /\ upf' = [upf EXCEPT ![r] = p]
  BY <1>3 DEF Become
<1>5. /\ \A q \in Pfid : UsersOn(q)' = IF q = p THEN UsersOn(q) \cup {r} ELSE UsersOn(q)
      /\ \A m \in Lun : UsersOf(m)' = IF m = l THEN UsersOf(m) \cup {r} ELSE UsersOf(m)
      /\ r \notin UsersOn(p) /\ r \notin UsersOf(l)
  BY <1>1, <1>2, <1>3, Gain DEF IInv
<1>6. TypeOK' BY <1>1, <1>3, <1>4 DEF IInv, TypeOK
<1>7. Accounting'
  <2>1. \A q \in Pfid : UsersOn(q) \subseteq User BY DEF UsersOn
  <2>2. \A m \in Lun : UsersOf(m) \subseteq User BY DEF UsersOf
  <2>3. Cardinality(UsersOn(p) \cup {r}) = Cardinality(UsersOn(p)) + 1
    BY <1>1, <1>5, <2>1, Count
  <2>4. Cardinality(UsersOf(l) \cup {r}) = Cardinality(UsersOf(l)) + 1
    BY <1>1, <1>5, <2>2, Count
  <2>5. \A q \in Pfid : svc'[q] = Cardinality(UsersOn(q)')
    BY <1>3, <1>5, <2>3 DEF IInv, TypeOK, Accounting
  <2>6. \A m \in Lun : lunsvc'[m] = Cardinality(UsersOf(m)')
    BY <1>3, <1>5, <2>4 DEF IInv, TypeOK, Accounting
  <2> QED BY <2>5, <2>6 DEF Accounting
<1>8. Partition' BY <1>3 DEF IInv, Partition, HasFrag
<1>9. Pinned'
  <2> SUFFICES ASSUME NEW v \in User, NEW q, q = upf'[v], q # None
               PROVE  /\ ulf'[v] # None
                      /\ map[ulf'[v]] = q
                      /\ v \in Reader <=> ulf'[v] \in valid
                      /\ v \in Task => UsersOn(q)' = {v}
    BY <1>3 DEF Pinned, UsersOn
  <2>1. CASE v = r
    BY <1>1, <1>2, <1>4, <2>1, SceAssumption DEF IInv, TypeOK
  <2>2. CASE v # r
    <3>1. upf[v] = q /\ ulf'[v] = ulf[v] BY <1>4, <2>2 DEF IInv, TypeOK
    <3>2. /\ ulf[v] # None /\ map[ulf[v]] = q /\ q \in Pfid
          /\ v \in Reader <=> ulf[v] \in valid
          /\ v \in Task => UsersOn(q) = {v}
          /\ owner[q] = ulf[v]
      BY <3>1, Held DEF IInv, Pinned
    <3>3. v \in Task => q # p BY <1>2, <3>2, SceAssumption DEF IInv, Partition
    <3> QED BY <1>5, <3>1, <3>2, <3>3
  <2> QED BY <2>1, <2>2
<1>10. Populating'
  <2>1. \A t \in Task : t # r /\ t \in User BY SceAssumption DEF User
  <2> QED BY <1>3, <1>4, <2>1 DEF IInv, TypeOK, Populating
<1>11. LastUserPurges' BY <1>3 DEF IInv, TypeOK, LastUserPurges
<1>12. NoDeadFragment' BY <1>2, <1>3 DEF IInv, TypeOK, NoDeadFragment
<1>13. ChoiceStands'
  BY <1>3, <1>4 DEF IInv, TypeOK, ChoiceStands, CanMap, Serviceable, HasFrag, User
<1>14. Shape'
  <2>1. p # None BY SceAssumption
  <2> QED BY <1>4, <2>1 DEF IInv, TypeOK, Shape, Holding, User
<1> QED BY <1>6, <1>7, <1>8, <1>9, <1>10, <1>11, <1>12, <1>13, <1>14 DEF IInv

\* What both allocations share: an unused fragment p is mapped for task t.
\* taken says which logical fragment lost p to an eviction.
Allocation(t, p, lf, taken) ==
    /\ upc[t] = "chosen" /\ ulf[t] = lf /\ map[lf] = None
    /\ svc[p] = 0 /\ owner[p] = taken /\ p[1] \in cdev
    /\ map' = [k \in LF |-> IF k = lf THEN p ELSE IF k = taken THEN None ELSE map[k]]
    /\ valid' = valid \ {taken}
    /\ freelist' = freelist \ {p}
    /\ MapFrag(t, lf, p)
    /\ UNCHANGED <<size, waiting, cdev>>

LEMMA Allocate ==
    ASSUME IInv, NEW t \in Task, NEW p \in Pfid, NEW lf \in LF, NEW taken \in LF \cup {None},
           Allocation(t, p, lf, taken)
    PROVE  IInv'
<1> USE DEF Allocation
<1>1. /\ t \in User /\ upf[t] = None /\ lf # None /\ p # None /\ lf[1] \in Lun
      /\ HasFrag(lf[1], lf[2]) /\ lf \notin valid /\ taken # lf
  BY SceAssumption
  DEF User, IInv, Shape, Holding, ChoiceStands, CanMap, Partition, LF
<1>2. /\ bitmap' = [bitmap EXCEPT ![p] = Padding(lf[1], lf[2])]
      /\ owner' = [owner EXCEPT ![p] = lf]
      /\ svc' = [svc EXCEPT ![p] = 1]
      /\ lunsvc' = [lunsvc EXCEPT ![lf[1]] = @ + 1]
      /\ upc' = [upc EXCEPT ![t] = "fill"]
      /\ ulf' = [ulf EXCEPT ![t] = lf]
      /\ upf' = [upf EXCEPT ![t] = p]
  BY DEF MapFrag, Become
<1>3. /\ \A q \in Pfid : UsersOn(q)' = IF q = p THEN UsersOn(q) \cup {t} ELSE UsersOn(q)
      /\ \A m \in Lun : UsersOf(m)' = IF m = lf[1] THEN UsersOf(m) \cup {t} ELSE UsersOf(m)
      /\ t \notin UsersOn(p) /\ t \notin UsersOf(lf[1])
  <2>1. TypeOK /\ Become(t, "fill", lf, p) BY DEF IInv, MapFrag
  <2> HIDE DEF Allocation
  <2> QED BY <1>1, <2>1, Gain
<1>4. UsersOn(p) = {} /\ \A u \in User : upf[u] # p BY Unheld DEF IInv
<1>5. TypeOK'
  <2>1. Padding(lf[1], lf[2]) \subseteq Page BY DEF Padding
  <2> QED BY <1>1, <1>2, <2>1 DEF IInv, TypeOK
<1>6. Accounting'
  <2>1. \A q \in Pfid : UsersOn(q) \subseteq User BY DEF UsersOn
  <2>2. \A m \in Lun : UsersOf(m) \subseteq User BY DEF UsersOf
  <2>3. Cardinality(UsersOn(p)') = 1 BY <1>3, <1>4, FS_Singleton
  <2>4. Cardinality(UsersOf(lf[1]) \cup {t}) = Cardinality(UsersOf(lf[1])) + 1
    BY <1>1, <1>3, <2>2, Count
  <2>5. \A q \in Pfid : svc'[q] = Cardinality(UsersOn(q)')
    BY <1>2, <1>3, <2>3 DEF IInv, TypeOK, Accounting
  <2>6. \A m \in Lun : lunsvc'[m] = Cardinality(UsersOf(m)')
    BY <1>2, <1>3, <2>4 DEF IInv, TypeOK, Accounting
  <2> QED BY <2>5, <2>6 DEF Accounting
<1>7. Partition'
  <2>1. \A k \in LF, q \in Pfid : map'[k] = q <=> owner'[q] = k
    BY <1>1, <1>2, SceAssumption DEF IInv, TypeOK, Partition
  <2>2. \A k \in LF : map'[k] # None => HasFrag(k[1], k[2])'
    BY <1>1 DEF IInv, Partition, HasFrag
  <2>3. \A k \in valid' : map'[k] # None BY <1>1 DEF IInv, TypeOK, Partition
  <2>4. freelist' = {q \in cdev' \X Off : owner'[q] = None}
    <3>1. cdev \X Off \subseteq Pfid BY DEF IInv, TypeOK, Pfid
    <3> QED BY <1>1, <1>2, <3>1 DEF IInv, TypeOK, Partition
  <2>5. \A q \in Pfid : owner'[q] # None => q[1] \in cdev'
    BY <1>2 DEF IInv, TypeOK, Partition
  <2> QED BY <2>1, <2>2, <2>3, <2>4, <2>5 DEF Partition
<1>8. Pinned'
  <2> SUFFICES ASSUME NEW v \in User, NEW q, q = upf'[v], q # None
               PROVE  /\ ulf'[v] # None
                      /\ map'[ulf'[v]] = q
                      /\ v \in Reader <=> ulf'[v] \in valid'
                      /\ v \in Task => UsersOn(q)' = {v}
    BY DEF Pinned, UsersOn
  <2>1. CASE v = t
    <3>1. q = p /\ ulf'[v] = lf BY <1>1, <1>2, <2>1 DEF IInv, TypeOK
    <3> QED BY <1>1, <1>3, <1>4, <2>1, <3>1, SceAssumption
  <2>2. CASE v # t
    <3>1. upf[v] = q /\ ulf'[v] = ulf[v] BY <1>2, <2>2 DEF IInv, TypeOK
    <3>2. /\ ulf[v] # None /\ map[ulf[v]] = q /\ q \in Pfid /\ ulf[v] \in LF
          /\ v \in Reader <=> ulf[v] \in valid
          /\ v \in Task => UsersOn(q) = {v}
          /\ owner[q] = ulf[v]
      BY <3>1, Held DEF IInv, Pinned
    <3>3. q # p /\ ulf[v] # lf BY <1>4, <3>1, <3>2
    <3>4. ulf[v] # taken BY <3>2, <3>3 DEF IInv, Partition
    <3> QED BY <1>3, <3>1, <3>2, <3>3, <3>4
  <2> QED BY <2>1, <2>2
<1>9. Populating'
  <2> SUFFICES ASSUME NEW k \in LF, map'[k] # None, k \notin valid'
               PROVE  \E v \in Task : upf'[v] = map'[k]
    BY DEF Populating
  <2>1. CASE k = lf BY <1>1, <1>2, <2>1 DEF IInv, TypeOK
  <2>2. CASE k # lf
    <3>1. map'[k] = map[k] /\ k # taken /\ k \notin valid BY <2>2
    <3>2. PICK v \in Task : upf[v] = map[k] BY <3>1 DEF IInv, Populating
    <3>3. v # t BY <1>1, <3>1, <3>2
    <3> QED BY <1>2, <3>1, <3>2, <3>3 DEF IInv, TypeOK, User
  <2> QED BY <2>1, <2>2
<1>10. LastUserPurges' BY <1>1, <1>2 DEF IInv, TypeOK, LastUserPurges
<1>11. NoDeadFragment'
  <2> SUFFICES ASSUME NEW k \in LF, map'[k] # None, bitmap'[map'[k]] = Page
               PROVE  svc'[map'[k]] > 0
    BY DEF NoDeadFragment
  <2>1. CASE map'[k] = p BY <1>2, <2>1 DEF IInv, TypeOK
  <2>2. CASE map'[k] # p
    <3>1. map'[k] = map[k] /\ map[k] \in Pfid BY <2>2 DEF IInv, TypeOK
    <3> QED BY <1>2, <2>2, <3>1 DEF IInv, TypeOK, NoDeadFragment
  <2> QED BY <2>1, <2>2
<1>12. ChoiceStands'
  <2> SUFFICES ASSUME NEW v \in Task, upc'[v] = "chosen" PROVE FALSE BY DEF ChoiceStands
  <2>1. v # t /\ upc[v] = "chosen" BY <1>1, <1>2 DEF IInv, TypeOK, User
  <2> QED BY <2>1 DEF IInv, Shape
<1>13. Shape' BY <1>1, <1>2 DEF IInv, TypeOK, Shape, Holding, User
<1> QED BY <1>5, <1>6, <1>7, <1>8, <1>9, <1>10, <1>11, <1>12, <1>13 DEF IInv

LEMMA AllocFreeStep == ASSUME IInv, NEW t \in Task, NEW p \in Pfid, AllocFree(t, p) PROVE IInv'
<1>1. PICK lf \in LF : lf = ulf[t]
  BY DEF AllocFree, IInv, ChoiceStands, TypeOK, User
<1>2. /\ upc[t] = "chosen" /\ map[lf] = None /\ p \in freelist
      /\ map' = [map EXCEPT ![lf] = p] /\ freelist' = freelist \ {p}
      /\ MapFrag(t, lf, p) /\ UNCHANGED <<size, waiting, valid, cdev>>
  BY <1>1 DEF AllocFree, CanMap
<1>3. owner[p] = None /\ p[1] \in cdev
  BY <1>2 DEF IInv, Partition
<1>4. svc[p] = 0
  <2> SUFFICES ASSUME svc[p] # 0 PROVE FALSE OBVIOUS
  <2>1. UsersOn(p) \subseteq User BY DEF UsersOn
  <2>2. PICK u \in User : upf[u] = p
    BY <2>1, Count DEF IInv, Accounting, UsersOn
  <2> QED BY <1>3, <2>2, Held, SceAssumption
<1>5. map' = [k \in LF |-> IF k = lf THEN p ELSE IF k = None THEN None ELSE map[k]]
  BY <1>2, SceAssumption DEF IInv, TypeOK
<1>6. valid' = valid \ {None} BY <1>2, SceAssumption DEF IInv, TypeOK
<1>7. ulf[t] = lf /\ UNCHANGED <<size, waiting, cdev>> /\ None \in LF \cup {None}
  BY <1>1, <1>2
<1>8. Allocation(t, p, lf, None) BY <1>2, <1>3, <1>4, <1>5, <1>6, <1>7 DEF Allocation
<1> QED BY <1>8, Allocate

LEMMA AllocEvictStep == ASSUME IInv, NEW t \in Task, NEW p \in Pfid, AllocEvict(t, p) PROVE IInv'
<1>1. PICK lf \in LF : lf = ulf[t]
  BY DEF AllocEvict, IInv, ChoiceStands, TypeOK, User
<1>2. PICK taken \in LF : taken = owner[p]
  BY DEF AllocEvict, Evictable, IInv, TypeOK
<1>3. /\ upc[t] = "chosen" /\ map[lf] = None /\ freelist = {} /\ svc[p] = 0
      /\ map' = [map EXCEPT ![taken] = None, ![lf] = p]
      /\ valid' = valid \ {taken}
      /\ MapFrag(t, lf, p) /\ UNCHANGED <<size, waiting, cdev, freelist>>
  BY <1>1, <1>2 DEF AllocEvict, CanMap, Evictable
<1>4. p[1] \in cdev BY <1>2, SceAssumption DEF IInv, Partition
<1>5. map' = [k \in LF |-> IF k = lf THEN p ELSE IF k = taken THEN None ELSE map[k]]
  BY <1>3 DEF IInv, TypeOK
<1>6. freelist' = freelist \ {p} BY <1>3
<1>7. /\ ulf[t] = lf /\ owner[p] = taken /\ taken \in LF \cup {None}
      /\ UNCHANGED <<size, waiting, cdev>>
  BY <1>1, <1>2, <1>3
<1>8. Allocation(t, p, lf, taken) BY <1>3, <1>4, <1>5, <1>6, <1>7 DEF Allocation
<1> QED BY <1>7, <1>8, Allocate

-----------------------------------------------------------------------------
(* Configuration and writes. *)

LEMMA AddCdevStep == ASSUME IInv, NEW c \in Cdev, AddCdev(c) PROVE IInv'
<1>1. /\ c \notin cdev /\ cdev' = cdev \cup {c}
      /\ freelist' = freelist \cup ({c} \X Off)
      /\ owner' = [q \in Pfid |-> IF q[1] = c THEN None ELSE owner[q]]
      /\ UNCHANGED <<size, waiting, lunsvc, map, valid, bitmap, svc, upc, ulf, upf>>
  BY DEF AddCdev, lunvars, mapvars, uservars
<1>2. owner' = owner
  BY <1>1 DEF IInv, TypeOK, Partition
<1>3. {c} \X Off \subseteq Pfid BY DEF Pfid
<1>4. TypeOK' BY <1>1, <1>2, <1>3 DEF IInv, TypeOK
<1>5. Accounting' BY <1>1 DEF IInv, Accounting, UsersOn, UsersOf
<1>6. Partition'
  <2>1. freelist' = {q \in cdev' \X Off : owner'[q] = None}
    <3>1. \A q \in {c} \X Off : owner[q] = None BY <1>1, <1>3 DEF IInv, Partition
    <3> QED BY <1>1, <1>2, <3>1 DEF IInv, Partition
  <2>2. \A q \in Pfid : owner'[q] # None => q[1] \in cdev' BY <1>1, <1>2 DEF IInv, Partition
  <2> QED BY <1>1, <1>2, <2>1, <2>2 DEF IInv, Partition, HasFrag
<1>7. Pinned' BY <1>1 DEF IInv, Pinned, UsersOn
<1>8. Populating' /\ LastUserPurges' /\ NoDeadFragment'
  BY <1>1 DEF IInv, Populating, LastUserPurges, NoDeadFragment
<1>9. ChoiceStands' /\ Shape'
  BY <1>1 DEF IInv, ChoiceStands, Shape, Serviceable, CanMap, HasFrag
<1> QED BY <1>4, <1>5, <1>6, <1>7, <1>8, <1>9 DEF IInv

\* A slot without a fragmap has nothing mapped, nobody waiting, no chooser.
LEMMA AddLunStep == ASSUME IInv, NEW l \in Lun, NEW s \in LunSize, AddLun(l, s) PROVE IInv'
<1>1. /\ size[l] = 0 /\ size' = [size EXCEPT ![l] = s]
      /\ UNCHANGED <<waiting, lunsvc, map, valid, cdev, owner, bitmap, svc, freelist, upc, ulf, upf>>
  BY DEF AddLun, mapvars, fragvars, uservars
<1>2. s \in Nat /\ s > 0 BY SceAssumption
<1>3. TypeOK' BY <1>1 DEF IInv, TypeOK
<1>4. Accounting' BY <1>1 DEF IInv, Accounting, UsersOn, UsersOf
<1>5. Partition'
  <2>1. ASSUME NEW lf \in LF, map[lf] # None PROVE HasFrag(lf[1], lf[2])'
    <3>1. HasFrag(lf[1], lf[2]) /\ lf[1] \in Lun /\ lf[2] \in Frag
      BY <2>1 DEF IInv, Partition, LF
    <3>2. lf[1] # l
      <4> SUFFICES ASSUME lf[1] = l PROVE FALSE OBVIOUS
      <4>1. SctrPerFrag \in Nat
        BY SceAssumption, SMT DEF SctrPerFrag
      <4>2. lf[2] \in Nat BY <3>1, SceAssumption DEF Frag
      <4>3. lf[2] * SctrPerFrag \in Nat BY <4>1, <4>2, SMT
      <4> QED BY <1>1, <3>1, <4>3 DEF HasFrag
    <3> QED BY <1>1, <3>1, <3>2 DEF HasFrag, IInv, TypeOK
  <2> QED BY <1>1, <2>1 DEF IInv, Partition
<1>6. Pinned' BY <1>1 DEF IInv, Pinned, UsersOn
<1>7. Populating' /\ NoDeadFragment' BY <1>1 DEF IInv, Populating, NoDeadFragment
<1>8. LastUserPurges' BY <1>1, <1>2 DEF IInv, TypeOK, LastUserPurges
<1>9. ChoiceStands' BY <1>1 DEF IInv, ChoiceStands, AddLun, SceUnlocked
<1>10. Shape' BY <1>1 DEF IInv, Shape
<1> QED BY <1>3, <1>4, <1>5, <1>6, <1>7, <1>8, <1>9, <1>10 DEF IInv

LEMMA RmLunStep == ASSUME IInv, NEW l \in Lun, RmLun(l) PROVE IInv'
<1>1. /\ size[l] > 0 /\ SceUnlocked
      /\ UNCHANGED <<svc, lunsvc, cdev, bitmap, upc, ulf, upf>>
  BY DEF RmLun, uservars
<1>2. Accounting' BY <1>1 DEF IInv, Accounting, UsersOn, UsersOf
<1>3. Shape' BY <1>1 DEF IInv, Shape
<1>4. ChoiceStands' BY <1>1 DEF ChoiceStands, SceUnlocked
<1>5. CASE lunsvc[l] > 0
  <2>1. waiting' = [waiting EXCEPT ![l] = TRUE] /\ UNCHANGED <<size, map, valid, owner, freelist>>
    BY <1>5 DEF RmLun, mapvars
  <2>2. TypeOK' BY <1>1, <2>1 DEF IInv, TypeOK
  <2>3. Partition' BY <1>1, <2>1 DEF IInv, Partition, HasFrag
  <2>4. Pinned' BY <1>1, <2>1 DEF IInv, Pinned, UsersOn
  <2>5. Populating' /\ NoDeadFragment' BY <1>1, <2>1 DEF IInv, Populating, NoDeadFragment
  <2>6. LastUserPurges' BY <1>1, <1>5, <2>1 DEF IInv, TypeOK, LastUserPurges
  <2> QED BY <1>2, <1>3, <1>4, <2>2, <2>3, <2>4, <2>5, <2>6 DEF IInv
<1>6. CASE lunsvc[l] = 0
  <2>1. Purge(l, valid) BY <1>6 DEF RmLun
  <2>2. /\ size' = [size EXCEPT ![l] = 0]
        /\ waiting' = [waiting EXCEPT ![l] = FALSE]
        /\ map' = [k \in LF |-> IF k[1] = l THEN None ELSE map[k]]
        /\ valid' = {k \in valid : k[1] # l}
    BY <2>1 DEF Purge
  <2>3. \A v \in User : upf[v] # None => ulf[v][1] # l
    BY <1>6, Held
  <2>4. \A q \in FragsOf(l) : svc'[q] = 0
    <3> SUFFICES ASSUME NEW q \in FragsOf(l), svc[q] # 0 PROVE FALSE BY <1>1
    <3>1. q \in Pfid /\ owner[q][1] = l BY FragsOfOwned DEF FragsOf, IInv
    <3>2. UsersOn(q) \subseteq User BY DEF UsersOn
    <3>a. Cardinality(UsersOn(q)) # 0 BY <3>1 DEF IInv, Accounting
    <3>b. UsersOn(q) # {} BY <3>2, <3>a, Count
    <3>3. PICK v \in User : upf[v] = q BY <3>b DEF UsersOn
    <3>4. owner[q] = ulf[v] /\ ulf[v][1] # l BY <2>3, <3>1, <3>3, Held, SceAssumption
    <3> QED BY <3>1, <3>4
  <2>5. TypeOK'
    <3>1. owner' \in [Pfid -> LF \cup {None}] /\ freelist' \subseteq Pfid
      BY <2>1 DEF Purge, FragsOf, IInv, TypeOK
    <3> QED BY <1>1, <2>2, <3>1 DEF IInv, TypeOK
  <2>6. Partition'
    <3>1. /\ TypeOK /\ Partition /\ valid \in SUBSET LF
          /\ \A lf \in valid : map[lf] # None
      BY DEF IInv, TypeOK, Partition
    <3> QED BY <1>1, <2>1, <2>4, <3>1, PurgePartition
  <2>7. Pinned'
    <3> SUFFICES ASSUME NEW v \in User, NEW q, q = upf[v], q # None
                 PROVE  /\ ulf[v] # None
                        /\ map'[ulf[v]] = q
                        /\ v \in Reader <=> ulf[v] \in valid'
                        /\ v \in Task => UsersOn(q)' = {v}
      BY <1>1 DEF Pinned, UsersOn
    <3>1. /\ ulf[v] # None /\ map[ulf[v]] = q /\ ulf[v] \in LF /\ ulf[v][1] # l
          /\ v \in Reader <=> ulf[v] \in valid
          /\ v \in Task => UsersOn(q) = {v}
      BY <2>3, Held DEF IInv, Pinned
    <3>2. UsersOn(q)' = UsersOn(q) BY <1>1 DEF UsersOn
    <3> QED BY <2>2, <3>1, <3>2
  <2>8. Populating' BY <1>1, <2>2 DEF IInv, Populating
  <2>9. NoDeadFragment' BY <1>1, <2>2 DEF IInv, NoDeadFragment
  <2>10. LastUserPurges' BY <1>1, <2>2 DEF IInv, TypeOK, LastUserPurges
  <2> QED BY <1>2, <1>3, <1>4, <2>5, <2>6, <2>7, <2>8, <2>9, <2>10 DEF IInv
<1>7. lunsvc[l] \in Nat BY DEF IInv, TypeOK
<1> QED BY <1>5, <1>6, <1>7

LEMMA InvalidateStep == ASSUME IInv, NEW l \in Lun, NEW a, NEW b, Invalidate(l, a, b) PROVE IInv'
<1> DEFINE dropped == {q \in Pfid : /\ Hit(q, l, a, b) # {} /\ CanServe(q, l)
                                    /\ svc[q] = 0 /\ bitmap'[q] = Page}
<1>1. /\ bitmap' = [q \in Pfid |-> bitmap[q] \cup Hit(q, l, a, b)]
      /\ Unmap(dropped, valid)
      /\ UNCHANGED <<size, waiting, lunsvc, cdev, svc, upc, ulf, upf>>
  BY DEF Invalidate, lunvars, uservars
<1>2. PICK freed \in SUBSET Pfid : freed = dropped OBVIOUS
<1>3. \A q \in Pfid : q \in freed <=> /\ Hit(q, l, a, b) # {} /\ CanServe(q, l)
                                      /\ svc[q] = 0 /\ bitmap'[q] = Page
  BY <1>2
<1>4. Unmap(freed, valid) BY <1>1, <1>2
<1> HIDE DEF dropped
<1>5. /\ map' = [k \in LF |-> IF map[k] \in freed THEN None ELSE map[k]]
      /\ valid' = {k \in valid : map[k] \notin freed}
      /\ owner' = [q \in Pfid |-> IF q \in freed THEN None ELSE owner[q]]
      /\ freelist' = freelist \cup freed
  BY <1>4 DEF Unmap
<1>6. \A u \in User : upf[u] \notin freed BY <1>3, Unheld DEF IInv
<1>7. TypeOK'
  <2>1. \A q \in Pfid : Hit(q, l, a, b) \subseteq Page BY DEF Hit, PagesOf
  <2> QED BY <1>1, <1>5, <2>1 DEF IInv, TypeOK
<1>8. Accounting' BY <1>1 DEF IInv, Accounting, UsersOn, UsersOf
<1>9. Partition'
  <2>1. \A q \in freed : owner[q] # None
    <3> SUFFICES ASSUME NEW q \in freed PROVE owner[q] # None OBVIOUS
    <3>1. PICK f \in Frag : map[<<l, f>>] = q BY <1>3 DEF CanServe, FragOn
    <3> QED BY <3>1, SceAssumption DEF IInv, Partition, LF
  <2>2. /\ TypeOK /\ Partition /\ valid \in SUBSET LF
        /\ \A lf \in valid : map[lf] # None
    BY DEF IInv, TypeOK, Partition
  <2> QED BY <1>1, <1>4, <2>1, <2>2, UnmapPartition
<1>10. Pinned'
  <2> SUFFICES ASSUME NEW v \in User, NEW q, q = upf[v], q # None
               PROVE  /\ ulf[v] # None
                      /\ map'[ulf[v]] = q
                      /\ v \in Reader <=> ulf[v] \in valid'
                      /\ v \in Task => UsersOn(q)' = {v}
    BY <1>1 DEF Pinned, UsersOn
  <2>1. /\ ulf[v] # None /\ map[ulf[v]] = q /\ ulf[v] \in LF /\ q \notin freed
        /\ v \in Reader <=> ulf[v] \in valid
        /\ v \in Task => UsersOn(q) = {v}
    BY <1>6, Held DEF IInv, Pinned
  <2>2. UsersOn(q)' = UsersOn(q) BY <1>1 DEF UsersOn
  <2> QED BY <1>5, <2>1, <2>2
<1>11. Populating' BY <1>1, <1>5 DEF IInv, Populating
<1>12. LastUserPurges' BY <1>1 DEF IInv, LastUserPurges
<1>13. NoDeadFragment'
  <2> SUFFICES ASSUME NEW k \in LF, NEW q, q = map'[k], q # None, bitmap'[q] = Page, svc[q] = 0
               PROVE  FALSE
    BY <1>1, <1>7 DEF NoDeadFragment, TypeOK
  <2>1. map[k] = q /\ q \in Pfid /\ q \notin freed /\ owner[q] = k
    BY <1>5, SceAssumption DEF IInv, TypeOK, Partition
  <2>2. k \in valid
    <3> SUFFICES ASSUME k \notin valid PROVE FALSE OBVIOUS
    <3>1. PICK t \in Task : upf[t] = q BY <2>1 DEF IInv, Populating
    <3> QED BY <2>1, <3>1, Unheld DEF IInv, User
  <2>3. Hit(q, l, a, b) = {}
    <3> SUFFICES ASSUME NEW f \in Frag, map[<<l, f>>] = q, Hit(q, l, a, b) # {} PROVE FALSE
      BY DEF Hit, FragOn
    <3>1. <<l, f>> = k BY <2>1 DEF IInv, Partition, LF
    <3>2. CanServe(q, l) BY <2>2, <3>1 DEF CanServe, FragOn
    <3> QED BY <1>1, <1>3, <2>1, <3>2
  <2>4. bitmap[q] = Page BY <1>1, <2>1, <2>3
  <2> QED BY <2>1, <2>4 DEF IInv, NoDeadFragment
<1>14. ChoiceStands'
  BY <1>1, <1>5 DEF IInv, TypeOK, ChoiceStands, Serviceable, CanMap, HasFrag, User
<1>15. Shape' BY <1>1 DEF IInv, Shape
<1> QED BY <1>7, <1>8, <1>9, <1>10, <1>11, <1>12, <1>13, <1>14, <1>15 DEF IInv

-----------------------------------------------------------------------------
\* The invariant is inductive: one case per action of the engine.
LEMMA NextIInv == IInv /\ [Next]_vars => IInv'
<1> SUFFICES ASSUME IInv, [Next]_vars PROVE IInv' OBVIOUS
<1>1. ASSUME NEW c \in Cdev, AddCdev(c) PROVE IInv' BY <1>1, AddCdevStep
<1>2. ASSUME NEW l \in Lun, RmLun(l) PROVE IInv' BY <1>2, RmLunStep
<1>3. ASSUME NEW l \in Lun, NEW s \in LunSize, AddLun(l, s) PROVE IInv' BY <1>3, AddLunStep
<1>4. ASSUME NEW l \in Lun, NEW a \in Sctr, NEW b \in Sctr, Invalidate(l, a, b) PROVE IInv'
  BY <1>4, InvalidateStep
<1>5. ASSUME NEW l \in Lun, NEW a \in Sctr, NEW b \in Sctr, NEW r \in Reader, NEW f \in Frag,
             GetRead(r, l, f, a, b)
      PROVE  IInv'
  BY <1>5, GetReadStep
<1>6. ASSUME NEW r \in Reader, PutRead(r) PROVE IInv' BY <1>6, PutReadStep
<1>7. ASSUME NEW r \in Reader, ReadError(r) PROVE IInv'
  <2>1. r \in User /\ upf[r] # None BY <1>7 DEF ReadError, User, IInv, Shape, Holding
  <2> QED BY <1>7, <2>1, PcStep DEF ReadError, Holding
<1>8. ASSUME NEW t \in Task, NEW lf \in LF, Choose(t, lf) PROVE IInv' BY <1>8, ChooseStep
<1>9. ASSUME NEW t \in Task, NEW p \in Pfid, AllocFree(t, p) PROVE IInv' BY <1>9, AllocFreeStep
<1>10. ASSUME NEW t \in Task, NEW p \in Pfid, AllocEvict(t, p) PROVE IInv'
  BY <1>10, AllocEvictStep
<1>11. ASSUME NEW t \in Task, AllocFail(t) PROVE IInv' BY <1>11, AllocFailStep
<1>12. ASSUME NEW t \in Task, PopRead(t) PROVE IInv'
  <2>1. t \in User /\ upf[t] # None BY <1>12 DEF PopRead, User, IInv, Shape, Holding
  <2> QED BY <1>12, <2>1, PcStep DEF PopRead, Holding
<1>13. ASSUME NEW t \in Task, PopReadError(t) PROVE IInv'
  <2>1. t \in User /\ upf[t] # None BY <1>13 DEF PopReadError, User, IInv, Shape, Holding
  <2> QED BY <1>13, <2>1, PcStep DEF PopReadError, Holding
<1>14. ASSUME NEW t \in Task, PutPopOk(t) PROVE IInv' BY <1>14, PutPopOkStep
<1>15. ASSUME NEW t \in Task, PutPopFailed(t) PROVE IInv' BY <1>15, PutPopFailedStep
<1>16. CASE UNCHANGED vars
  <2> USE <1>16 DEF vars, lunvars, mapvars, fragvars, uservars
  <2>1. TypeOK' BY DEF IInv, TypeOK
  <2>2. /\ Accounting' /\ Partition' /\ Pinned'
        /\ Populating' /\ LastUserPurges' /\ NoDeadFragment'
    BY Frame
  <2>3. ChoiceStands' BY DEF IInv, ChoiceStands, Serviceable, CanMap, HasFrag
  <2>4. Shape' BY DEF IInv, Shape
  <2> QED BY <2>1, <2>2, <2>3, <2>4 DEF IInv
<1> QED
  BY <1>1, <1>2, <1>3, <1>4, <1>5, <1>6, <1>7, <1>8, <1>9, <1>10, <1>11, <1>12,
     <1>13, <1>14, <1>15, <1>16 DEF Next

\* The engine keeps its inductive invariant in every reachable state.
THEOREM Invariance == Spec => []IInv
BY InitIInv, NextIInv, PTL DEF Spec

\* Type correctness, in particular that no nr_service ever underflows.
THEOREM TypeCorrect == Spec => []TypeOK
<1>1. IInv => TypeOK BY DEF IInv
<1> QED BY <1>1, Invariance, PTL

\* The service counts of fragments and LUNs are exact.
THEOREM CountsExact == Spec => []Accounting
<1>1. IInv => Accounting BY DEF IInv
<1> QED BY <1>1, Invariance, PTL

\* No two logical fragments share flash and no fragment is lost.
THEOREM MappingExact == Spec => []Partition
<1>1. IInv => Partition BY DEF IInv
<1> QED BY <1>1, Invariance, PTL

\* A request in flight keeps the fragment it was given.
THEOREM HoldersPinned == Spec => []Pinned
<1>1. IInv => Pinned BY DEF IInv
<1> QED BY <1>1, Invariance, PTL

\* Every fragment that cannot serve reads yet is in a task's hands.
THEOREM UnfinishedIsPopulated == Spec => []Populating
<1>1. IInv => Populating BY DEF IInv
<1> QED BY <1>1, Invariance, PTL

\* The last request out of a LUN that waits for its deletion purges it.
THEOREM NoZombieLun == Spec => []LastUserPurges
<1>1. IInv => LastUserPurges BY DEF IInv
<1> QED BY <1>1, Invariance, PTL

\* No fragment without a valid page outlives its last user.
THEOREM GarbageCollected == Spec => []NoDeadFragment
<1>1. IInv => NoDeadFragment BY DEF IInv
<1> QED BY <1>1, Invariance, PTL

\* What get4pop chose before taking the LUN's lock is still so afterwards.
THEOREM ChoiceIsStable == Spec => []ChoiceStands
<1>1. IInv => ChoiceStands BY DEF IInv
<1> QED BY <1>1, Invariance, PTL

-----------------------------------------------------------------------------
(* The action property. *)

\* A request with a fragment of a device has a logical fragment.
HoldsLun ==
    \A u \in User : /\ upf[u] # None <=> upc[u] \in Holding
                    /\ upc[u] \in Holding => ulf[u] # None

\* A step changes the fragment of a request only by giving or taking it, and
\* the size of a LUN only from or to zero.
LEMMA StepFrame ==
    ASSUME TypeOK, HoldsLun, [Next]_vars
    PROVE  /\ \A u \in User : upf[u] # None /\ upf'[u] # None =>
                                upf'[u] = upf[u] /\ ulf'[u] = ulf[u]
           /\ \A l \in Lun : size'[l] = size[l] \/ size'[l] = 0 \/ size[l] = 0
<1> DEFINE Users == \A u \in User : upf[u] # None /\ upf'[u] # None =>
                                      upf'[u] = upf[u] /\ ulf'[u] = ulf[u]
           Sizes == \A l \in Lun : size'[l] = size[l] \/ size'[l] = 0 \/ size[l] = 0
<1>a. ASSUME NEW u \in User, NEW pc, NEW lf, NEW p, upf[u] = None, Become(u, pc, lf, p) PROVE Users
  BY <1>a DEF Become, TypeOK
<1>b. ASSUME NEW u \in User, Finish(u) PROVE Users BY <1>b DEF Finish, Become, TypeOK
<1>c. ASSUME NEW l \in Lun, NEW drop, NEW valid1, Collect(l, drop, valid1) PROVE Sizes
  BY <1>c DEF Collect, Purge, TypeOK
<1>d. \A u \in User : upc[u] \in {"idle", "chosen"} => upf[u] = None
  BY DEF HoldsLun, Holding
<1>e. \A u \in User : upc[u] \in Holding => ulf[u][1] \in Lun
  BY DEF HoldsLun, TypeOK, LF
<1>1. ASSUME NEW c \in Cdev, AddCdev(c) PROVE Users /\ Sizes
  BY <1>1 DEF AddCdev, uservars, lunvars
<1>2. ASSUME NEW l \in Lun, RmLun(l) PROVE Users /\ Sizes
  BY <1>2 DEF RmLun, Purge, uservars, TypeOK
<1>3. ASSUME NEW l \in Lun, NEW s \in LunSize, AddLun(l, s) PROVE Users /\ Sizes
  BY <1>3 DEF AddLun, uservars, TypeOK
<1>4. ASSUME NEW l \in Lun, NEW a \in Sctr, NEW b \in Sctr, Invalidate(l, a, b) PROVE Users /\ Sizes
  BY <1>4 DEF Invalidate, uservars, lunvars
<1>5. ASSUME NEW l \in Lun, NEW a \in Sctr, NEW b \in Sctr, NEW r \in Reader, NEW f \in Frag,
             GetRead(r, l, f, a, b)
      PROVE  Users /\ Sizes
  <2>1. r \in User /\ upf[r] = None BY <1>5, <1>d DEF GetRead, User
  <2>2. Users BY <1>5, <1>a, <2>1 DEF GetRead
  <2> QED BY <1>5, <2>2 DEF GetRead
<1>6. ASSUME NEW r \in Reader, PutRead(r) PROVE Users /\ Sizes
  <2>1. r \in User /\ ulf[r][1] \in Lun BY <1>6, <1>e DEF PutRead, Holding, User
  <2>2. Users BY <1>6, <1>b, <2>1 DEF PutRead
  <2> QED BY <1>6, <1>c, <2>1, <2>2 DEF PutRead, PutReadOk, lunvars
<1>7. ASSUME NEW r \in Reader, ReadError(r) PROVE Users /\ Sizes
  BY <1>7 DEF ReadError, lunvars
<1>8. ASSUME NEW t \in Task, NEW lf \in LF, Choose(t, lf) PROVE Users /\ Sizes
  <2>1. t \in User /\ upf[t] = None BY <1>8, <1>d DEF Choose, User
  <2>2. Users BY <1>8, <1>a, <2>1 DEF Choose
  <2> QED BY <1>8, <2>2 DEF Choose, lunvars
<1>9. ASSUME NEW t \in Task, NEW p \in Pfid, AllocFree(t, p) PROVE Users /\ Sizes
  <2>1. t \in User /\ upf[t] = None BY <1>9, <1>d DEF AllocFree, User
  <2>2. Users BY <1>9, <1>a, <2>1 DEF AllocFree, MapFrag
  <2> QED BY <1>9, <2>2 DEF AllocFree
<1>10. ASSUME NEW t \in Task, NEW p \in Pfid, AllocEvict(t, p) PROVE Users /\ Sizes
  <2>1. t \in User /\ upf[t] = None BY <1>10, <1>d DEF AllocEvict, User
  <2>2. Users BY <1>10, <1>a, <2>1 DEF AllocEvict, MapFrag
  <2> QED BY <1>10, <2>2 DEF AllocEvict
<1>11. ASSUME NEW t \in Task, AllocFail(t) PROVE Users /\ Sizes
  BY <1>11, <1>b DEF AllocFail, lunvars, User
<1>12. ASSUME NEW t \in Task, PopRead(t) PROVE Users /\ Sizes BY <1>12 DEF PopRead, lunvars
<1>13. ASSUME NEW t \in Task, PopReadError(t) PROVE Users /\ Sizes
  BY <1>13 DEF PopReadError, lunvars
<1>14. ASSUME NEW t \in Task, PutPopOk(t) PROVE Users /\ Sizes
  <2>1. t \in User /\ ulf[t][1] \in Lun BY <1>14, <1>e DEF PutPopOk, Holding, User
  <2>2. Users BY <1>14, <1>b, <2>1 DEF PutPopOk
  <2> QED BY <1>14, <1>c, <2>1, <2>2 DEF PutPopOk, Completed, lunvars
<1>15. ASSUME NEW t \in Task, PutPopFailed(t) PROVE Users /\ Sizes
  <2>1. t \in User /\ ulf[t][1] \in Lun BY <1>15, <1>e DEF PutPopFailed, Holding, User
  <2>2. Users BY <1>15, <1>b, <2>1 DEF PutPopFailed
  <2> QED BY <1>15, <1>c, <2>1, <2>2 DEF PutPopFailed, Cancelled, lunvars
<1>16. CASE UNCHANGED vars BY <1>16 DEF vars, lunvars, uservars
<1>17. Users /\ Sizes
  BY <1>1, <1>2, <1>3, <1>4, <1>5, <1>6, <1>7, <1>8, <1>9, <1>10, <1>11, <1>12,
     <1>13, <1>14, <1>15, <1>16 DEF Next
<1> QED BY <1>17

\* No step of any actor takes a fragment, or its LUN, from a request that
\* stays in flight.
THEOREM HoldersUndisturbed == Spec => HeldIsKept
<1>1. IInv /\ IInv' /\ [Next]_vars =>
        [\A u \in User : upf[u] # None /\ upf'[u] # None =>
          /\ upf'[u] = upf[u] /\ ulf'[u] = ulf[u]
          /\ owner'[upf[u]] = owner[upf[u]]
          /\ size'[ulf[u][1]] = size[ulf[u][1]]]_vars
  <2> SUFFICES ASSUME IInv, IInv', [Next]_vars, NEW u \in User, upf[u] # None, upf'[u] # None
               PROVE  /\ upf'[u] = upf[u] /\ ulf'[u] = ulf[u]
                      /\ owner'[upf[u]] = owner[upf[u]]
                      /\ size'[ulf[u][1]] = size[ulf[u][1]]
    OBVIOUS
  <2>0. TypeOK /\ HoldsLun
    <3>1. None \notin LF BY SceAssumption
    <3> QED BY <3>1, Held DEF IInv, Shape, HoldsLun
  <2>1. upf'[u] = upf[u] /\ ulf'[u] = ulf[u] BY <2>0, StepFrame
  <2>2. /\ upf[u] \in Pfid /\ ulf[u] \in LF /\ ulf[u][1] \in Lun /\ ulf[u][2] \in Frag
        /\ map[ulf[u]] = upf[u] /\ owner[upf[u]] = ulf[u]
    BY Held
  <2>3. map'[ulf[u]] = upf[u] /\ owner'[upf[u]] = ulf[u]
    BY <2>1, <2>2 DEF IInv, Pinned, Partition
  <2>4. /\ ulf[u][2] * SctrPerFrag < size[ulf[u][1]]
        /\ ulf[u][2] * SctrPerFrag < size'[ulf[u][1]]
    BY <2>2, <2>3 DEF IInv, Partition, HasFrag
  <2>5. ulf[u][2] * SctrPerFrag \in Nat
    <3>1. SctrPerFrag \in Nat BY SceAssumption DEF SctrPerFrag
    <3>2. ulf[u][2] \in Nat BY <2>2, SceAssumption DEF Frag
    <3> QED BY <3>1, <3>2
  <2>6. size[ulf[u][1]] # 0 /\ size'[ulf[u][1]] # 0 BY <2>4, <2>5
  <2> QED BY <2>0, <2>1, <2>2, <2>3, <2>6, StepFrame
<1> QED BY <1>1, Invariance, PTL DEF Spec, HeldIsKept

(***************************************************************************)
(* Part 2.  The engine and the writes to the HDD: module Coherence.        *)
(***************************************************************************)

\* The pages of lf that a read is excused for.
Excused(lf) == bitmap[map[lf]] \cup late[lf] \cup unhooked[lf]

\* A write in flight is known to every mapping: it invalidated the pages,
\* was submitted before the mapping, or skipped the hook.
WritesKnown ==
    \A lf \in LF, w \in Writer : map[lf] # None => Under(lf, w) \subseteq Excused(lf)

\* The buffer a task is about to store equals the disk but for excused pages.
BuffersGood ==
    \A t \in Task : upc[t] = "store" => Page \subseteq buf[t] \cup Excused(ulf[t])

\* The inductive invariant.
CIInv == CTypeOK /\ IInv /\ WritesKnown /\ BuffersGood /\ CoherentButForRaces
-----------------------------------------------------------------------------
(* What a step of the engine keeps of the three parts. *)

\* A mapping that lasts keeps its history.
LEMMA HistoryKept ==
    ASSUME CTypeOK, History, NEW lf \in LF, map'[lf] # None
    PROVE  late'[lf] = late[lf] /\ unhooked'[lf] = unhooked[lf]
BY DEF History, CTypeOK

\* Mappings last or go, and bitmaps only grow while they last.
Wanes ==
    /\ \A lf \in LF : map'[lf] = None \/ map'[lf] = map[lf]
    /\ \A lf \in LF : map'[lf] # None => bitmap[map[lf]] \subseteq bitmap'[map[lf]]

LEMMA ExcusesKept ==
    ASSUME CTypeOK, History, Wanes, NEW lf \in LF, map'[lf] # None
    PROVE  map'[lf] = map[lf] /\ Excused(lf) \subseteq Excused(lf)'
<1>1. late'[lf] = late[lf] /\ unhooked'[lf] = unhooked[lf] BY HistoryKept
<1>2. map'[lf] = map[lf] /\ bitmap[map[lf]] \subseteq bitmap'[map[lf]] BY DEF Wanes
<1> QED BY <1>1, <1>2 DEF Excused

LEMMA WritesKept ==
    ASSUME CTypeOK, WritesKnown, History, Wanes, wr' = wr
    PROVE  WritesKnown'
<1>1. SUFFICES ASSUME NEW lf \in LF, NEW w \in Writer, map'[lf] # None
               PROVE  Under(lf, w)' \subseteq Excused(lf)'
  BY DEF WritesKnown
<1>2. map'[lf] = map[lf] /\ Excused(lf) \subseteq Excused(lf)' BY <1>1, ExcusesKept
<1>3. Under(lf, w)' = Under(lf, w) BY DEF Under
<1> QED BY <1>1, <1>2, <1>3 DEF WritesKnown

LEMMA BuffersKept ==
    ASSUME CTypeOK, IInv, IInv', BuffersGood, History, Wanes,
           \A t \in Task : upc'[t] = "store" =>
               buf'[t] = Page \/ (upc[t] = "store" /\ ulf'[t] = ulf[t] /\ buf'[t] = buf[t])
    PROVE  BuffersGood'
<1>1. SUFFICES ASSUME NEW t \in Task, upc'[t] = "store", upc[t] = "store", ulf'[t] = ulf[t], buf'[t] = buf[t]
               PROVE  Page \subseteq buf'[t] \cup Excused(ulf[t])'
  BY DEF BuffersGood
<1>2. t \in User /\ upf[t] # None /\ upf'[t] # None BY <1>1 DEF User, IInv, Shape, Holding
<1>3. ulf[t] \in LF /\ ulf'[t] = ulf[t] BY <1>1, <1>2, Held
<1>4. map'[ulf'[t]] = upf'[t] BY <1>2 DEF IInv, Pinned
<1>5. Excused(ulf[t]) \subseteq Excused(ulf[t])' BY <1>2, <1>3, <1>4, ExcusesKept
<1> QED BY <1>1, <1>5 DEF BuffersGood

LEMMA CoherenceKept ==
    ASSUME CTypeOK, IInv, IInv', CoherentButForRaces, History, Wanes, FreshAs(fresh), valid' \subseteq valid
    PROVE  CoherentButForRaces'
<1>1. SUFFICES ASSUME NEW lf \in valid'
               PROVE  Readable(lf)' \subseteq fresh'[map'[lf]] \cup late'[lf] \cup unhooked'[lf]
  BY DEF CoherentButForRaces
<1>2. lf \in valid /\ lf \in LF /\ map'[lf] # None BY <1>1 DEF IInv, Partition, TypeOK
<1>3. map'[lf] = map[lf] /\ late'[lf] = late[lf] /\ unhooked'[lf] = unhooked[lf]
      /\ bitmap[map[lf]] \subseteq bitmap'[map[lf]]
  BY <1>2, HistoryKept, ExcusesKept DEF Wanes
<1>4. map'[lf] \in Pfid /\ owner'[map'[lf]] = lf BY <1>2 DEF IInv, TypeOK, Partition
<1>5. fresh'[map'[lf]] = fresh[map[lf]] BY <1>2, <1>3, <1>4, SceAssumption DEF FreshAs
<1>6. Readable(lf) \subseteq fresh[map[lf]] \cup late[lf] \cup unhooked[lf] BY <1>2 DEF CoherentButForRaces
<1>7. Readable(lf)' \subseteq Readable(lf) BY <1>3 DEF Readable
<1> QED BY <1>3, <1>5, <1>6, <1>7

\* The types of the histories.
LEMMA TypesKept ==
    ASSUME CTypeOK, IInv', History, NEW h \in [Pfid -> SUBSET Page], FreshAs(h),
           wr' \in [Writer -> (Lun \X Sctr \X Sctr) \cup {None}], buf' \in [Task -> SUBSET Page]
    PROVE  CTypeOK'
<1>1. TypeOK' BY DEF IInv
<1>2. late' \in [LF -> SUBSET Page] /\ unhooked' \in [LF -> SUBSET Page] BY DEF CTypeOK, History
<1>3. fresh' \in [Pfid -> SUBSET Page] BY DEF CTypeOK, FreshAs
<1> QED BY <1>1, <1>2, <1>3 DEF CTypeOK
-----------------------------------------------------------------------------
(* The actions of the engine that only shrink the map. *)

LEMMA CollectWanes ==
    ASSUME TypeOK, NEW l \in Lun, NEW drop, NEW valid1, Collect(l, drop, valid1), bitmap' = bitmap
    PROVE  Wanes /\ valid' \subseteq valid1
BY DEF Collect, Purge, Unmap, Wanes, TypeOK

LEMMA EngineStep ==
    ASSUME CIInv, IInv', FreshAs(fresh), History, UNCHANGED <<wr, buf>>, Wanes, valid' \subseteq valid,
           \A t \in Task : upc'[t] = "store" => upc[t] = "store" /\ ulf'[t] = ulf[t]
    PROVE  CIInv'
<1>1. CTypeOK' BY TypesKept DEF CIInv, CTypeOK
<1>2. WritesKnown' BY WritesKept DEF CIInv
<1>3. BuffersGood' BY BuffersKept DEF CIInv
<1>4. CoherentButForRaces' BY CoherenceKept DEF CIInv
<1> QED BY <1>1, <1>2, <1>3, <1>4 DEF CIInv

\* One of the actions that leave data alone.
Plain ==
    \/ \E c \in Cdev : AddCdev(c)
    \/ \E l \in Lun : RmLun(l) \/ \E s \in LunSize : AddLun(l, s)
    \/ \E l \in Lun, a, b \in Sctr, r \in Reader, f \in Frag : GetRead(r, l, f, a, b)
    \/ \E r \in Reader : PutRead(r) \/ ReadError(r)
    \/ \E t \in Task : \/ \E lf \in LF : Choose(t, lf)
                       \/ AllocFail(t) \/ PopReadError(t)

LEMMA PlainWanes ==
    ASSUME IInv, Plain
    PROVE  /\ Wanes /\ valid' \subseteq valid
           /\ \A t \in Task : upc'[t] = "store" => upc[t] = "store" /\ ulf'[t] = ulf[t]
<1> DEFINE Tasks == \A t \in Task : upc'[t] = "store" => upc[t] = "store" /\ ulf'[t] = ulf[t]
<1>0. TypeOK BY DEF IInv
<1>a. UNCHANGED <<map, bitmap>> => Wanes BY DEF Wanes
<1>b. UNCHANGED uservars => Tasks BY DEF uservars
<1>c. ASSUME NEW u \in User, NEW pc \in {"idle", "read", "chosen"}, NEW lf, NEW p, Become(u, pc, lf, p)
      PROVE  Tasks
  BY <1>0, <1>c DEF Become, TypeOK, User
<1>d. ASSUME NEW u \in User, Finish(u) PROVE Tasks BY <1>c, <1>d DEF Finish
<1>1. ASSUME NEW c \in Cdev, AddCdev(c) PROVE Wanes /\ valid' \subseteq valid /\ Tasks
  BY <1>1, <1>a, <1>b DEF AddCdev, mapvars
<1>2. ASSUME NEW l \in Lun, RmLun(l) PROVE Wanes /\ valid' \subseteq valid /\ Tasks
  <2>1. UNCHANGED <<bitmap, uservars>> BY <1>2 DEF RmLun
  <2>2. CASE UNCHANGED mapvars BY <1>a, <1>b, <2>1, <2>2 DEF mapvars
  <2>3. CASE Purge(l, valid) BY <1>0, <1>b, <2>1, <2>3 DEF Purge, Wanes, TypeOK
  <2> QED BY <1>2, <2>2, <2>3 DEF RmLun, mapvars
<1>3. ASSUME NEW l \in Lun, NEW s \in LunSize, AddLun(l, s) PROVE Wanes /\ valid' \subseteq valid /\ Tasks
  BY <1>3, <1>a, <1>b DEF AddLun, mapvars, fragvars
<1>4. ASSUME NEW l \in Lun, NEW a \in Sctr, NEW b \in Sctr, NEW r \in Reader, NEW f \in Frag,
             GetRead(r, l, f, a, b)
      PROVE  Wanes /\ valid' \subseteq valid /\ Tasks
  BY <1>4, <1>a, <1>c DEF GetRead, mapvars, User
<1>5. ASSUME NEW r \in Reader, PutRead(r) PROVE Wanes /\ valid' \subseteq valid /\ Tasks
  <2>1. r \in User /\ Finish(r) /\ bitmap' = bitmap BY <1>5 DEF PutRead, User
  <2>2. upf[r] # None BY <1>5, <2>1 DEF PutRead, IInv, Shape, Holding
  <2>3. ulf[r][1] \in Lun BY <2>1, <2>2, Held
  <2>4. Tasks BY <1>d, <2>1
  <2>5. CASE UNCHANGED mapvars BY <1>a, <2>1, <2>4, <2>5 DEF mapvars
  <2>6. ASSUME NEW drop, Collect(ulf[r][1], drop, valid) PROVE Wanes /\ valid' \subseteq valid
    BY <1>0, <2>1, <2>3, <2>6, CollectWanes
  <2> QED BY <1>5, <2>4, <2>5, <2>6 DEF PutRead, PutReadOk, mapvars
<1>6. ASSUME NEW r \in Reader, ReadError(r) PROVE Wanes /\ valid' \subseteq valid /\ Tasks
  <2>1. Tasks BY <1>0, <1>6 DEF ReadError, TypeOK, User
  <2> QED BY <1>6, <1>a, <2>1 DEF ReadError, mapvars, fragvars
<1>7. ASSUME NEW t \in Task, NEW lf \in LF, Choose(t, lf) PROVE Wanes /\ valid' \subseteq valid /\ Tasks
  BY <1>7, <1>a, <1>c DEF Choose, mapvars, fragvars, User
<1>8. ASSUME NEW t \in Task, AllocFail(t) PROVE Wanes /\ valid' \subseteq valid /\ Tasks
  BY <1>8, <1>a, <1>d DEF AllocFail, mapvars, fragvars, User
<1>9. ASSUME NEW t \in Task, PopReadError(t) PROVE Wanes /\ valid' \subseteq valid /\ Tasks
  <2>1. Tasks BY <1>0, <1>9 DEF PopReadError, TypeOK, User
  <2> QED BY <1>9, <1>a, <2>1 DEF PopReadError, mapvars, fragvars
<1> QED BY <1>1, <1>2, <1>3, <1>4, <1>5, <1>6, <1>7, <1>8, <1>9 DEF Plain
-----------------------------------------------------------------------------
(* The actions that move data. *)

\* poptask_read: the buffer is what the disk is.
LEMMA FillStep ==
    ASSUME CIInv, IInv', NEW t \in Task, Fill(t) PROVE CIInv'
<1>1. PopRead(t) /\ FreshAs(fresh) /\ History /\ wr' = wr /\ buf' = [buf EXCEPT ![t] = Page] BY DEF Fill
<1>2. Wanes /\ valid' = valid BY <1>1 DEF PopRead, mapvars, fragvars, Wanes
<1>3. \A v \in Task : upc'[v] = "store" =>
         buf'[v] = Page \/ (upc[v] = "store" /\ ulf'[v] = ulf[v] /\ buf'[v] = buf[v])
  BY <1>1 DEF PopRead, CIInv, CTypeOK, TypeOK, User
<1>4. wr' \in [Writer -> (Lun \X Sctr \X Sctr) \cup {None}] /\ buf' \in [Task -> SUBSET Page]
  BY <1>1 DEF CIInv, CTypeOK
<1>5. CTypeOK' BY <1>1, <1>4, TypesKept DEF CIInv, CTypeOK
<1>6. WritesKnown' BY <1>1, <1>2, WritesKept DEF CIInv
<1>7. BuffersGood' BY <1>1, <1>2, <1>3, BuffersKept DEF CIInv
<1>8. CoherentButForRaces' BY <1>1, <1>2, CoherenceKept DEF CIInv
<1> QED BY <1>5, <1>6, <1>7, <1>8 DEF CIInv

\* What the last step of a population changes, whichever way it ends.
LEMMA PutPopFrame ==
    ASSUME IInv, NEW t \in Task, PutPopOk(t) \/ PutPopFailed(t)
    PROVE  /\ Wanes /\ valid' \subseteq valid \cup {ulf[t]}
           /\ PutPopFailed(t) => valid' \subseteq valid
           /\ ulf[t] \in LF /\ upf[t] \in Pfid /\ map[ulf[t]] = upf[t] /\ owner[upf[t]] = ulf[t]
           /\ ulf[t] \notin valid /\ bitmap' = bitmap /\ upc[t] = "store"
           /\ \A v \in Task : upc'[v] = "store" => v # t /\ upc[v] = "store" /\ ulf'[v] = ulf[v]
<1>0. TypeOK BY DEF IInv
<1>1. t \in User /\ Finish(t) /\ bitmap' = bitmap /\ upc[t] = "store" BY DEF PutPopOk, PutPopFailed, User
<1>2. upf[t] # None BY <1>1 DEF IInv, Shape, Holding
<1>3. ulf[t] \in LF /\ upf[t] \in Pfid /\ ulf[t][1] \in Lun /\ map[ulf[t]] = upf[t] /\ owner[upf[t]] = ulf[t]
  BY <1>1, <1>2, Held
<1>4. ulf[t] \notin valid
  <2>1. t \notin Reader BY SceAssumption
  <2> QED BY <1>1, <1>2, <2>1 DEF IInv, Pinned
<1>5. \A v \in Task : upc'[v] = "store" => v # t /\ upc[v] = "store" /\ ulf'[v] = ulf[v]
  BY <1>0, <1>1 DEF Finish, Become, TypeOK, User
<1>6. CASE PutPopOk(t)
  <2>1. UNCHANGED mapvars => Wanes /\ valid' \subseteq valid BY <1>1 DEF mapvars, Wanes
  <2>2. ASSUME NEW drop, Collect(ulf[t][1], drop, valid \cup {ulf[t]})
        PROVE  Wanes /\ valid' \subseteq valid \cup {ulf[t]}
    BY <1>0, <1>1, <1>3, <2>2, CollectWanes
  <2>3. Wanes /\ valid' \subseteq valid \cup {ulf[t]}
    BY <1>6, <2>1, <2>2 DEF PutPopOk, Completed, mapvars
  <2>4. PutPopFailed(t) => valid' \subseteq valid
    <3>1. ASSUME PutPopFailed(t) PROVE valid' \subseteq valid
      <4>1. CASE UNCHANGED mapvars BY <4>1 DEF mapvars
      <4>2. ASSUME NEW drop, Collect(ulf[t][1], drop, valid) PROVE valid' \subseteq valid
        BY <1>0, <1>1, <1>3, <4>2, CollectWanes
      <4> QED BY <3>1, <4>1, <4>2 DEF PutPopFailed, Cancelled, mapvars
    <3> QED BY <3>1
  <2> QED BY <1>1, <1>3, <1>4, <1>5, <2>3, <2>4
<1>7. CASE PutPopFailed(t)
  <2>1. UNCHANGED mapvars => Wanes /\ valid' \subseteq valid BY <1>1 DEF mapvars, Wanes
  <2>2. ASSUME NEW drop, Collect(ulf[t][1], drop, valid) PROVE Wanes /\ valid' \subseteq valid
    BY <1>0, <1>1, <1>3, <2>2, CollectWanes
  <2>3. Wanes /\ valid' \subseteq valid BY <1>7, <2>1, <2>2 DEF PutPopFailed, Cancelled, mapvars
  <2> QED BY <1>1, <1>3, <1>4, <1>5, <2>3
<1> QED BY <1>6, <1>7

\* poptask_write and sce_put4pop: the fragment is what the buffer was.
LEMMA StoreStep ==
    ASSUME CIInv, IInv', NEW t \in Task, Store(t) PROVE CIInv'
<1> DEFINE h == [fresh EXCEPT ![upf[t]] = buf[t]]
<1>0. CTypeOK /\ IInv /\ BuffersGood BY DEF CIInv
<1>1. PutPopOk(t) /\ FreshAs(h) /\ History /\ wr' = wr /\ buf' = [buf EXCEPT ![t] = {}] BY DEF Store
<1>2. /\ Wanes /\ valid' \subseteq valid \cup {ulf[t]}
      /\ ulf[t] \in LF /\ upf[t] \in Pfid /\ map[ulf[t]] = upf[t] /\ owner[upf[t]] = ulf[t]
      /\ ulf[t] \notin valid /\ bitmap' = bitmap /\ upc[t] = "store"
      /\ \A v \in Task : upc'[v] = "store" => v # t /\ upc[v] = "store" /\ ulf'[v] = ulf[v]
  BY <1>0, <1>1, PutPopFrame
<1>3. h \in [Pfid -> SUBSET Page] /\ h[upf[t]] = buf[t] /\ \A p \in Pfid : p # upf[t] => h[p] = fresh[p]
  BY <1>0, <1>2 DEF CTypeOK
<1>4. wr' \in [Writer -> (Lun \X Sctr \X Sctr) \cup {None}] /\ buf' \in [Task -> SUBSET Page]
  BY <1>0, <1>1 DEF CTypeOK
<1> HIDE DEF h
<1>5. CTypeOK' BY <1>0, <1>1, <1>3, <1>4, TypesKept
<1>6. WritesKnown' BY <1>0, <1>1, <1>2, WritesKept DEF CIInv
<1>7. \A v \in Task : upc'[v] = "store" => upc[v] = "store" /\ ulf'[v] = ulf[v] /\ buf'[v] = buf[v]
  BY <1>0, <1>1, <1>2 DEF CTypeOK
<1>8. BuffersGood' BY <1>0, <1>1, <1>2, <1>7, BuffersKept
<1>9. CoherentButForRaces'
  <2>1. SUFFICES ASSUME NEW lf \in valid'
                 PROVE  Readable(lf)' \subseteq fresh'[map'[lf]] \cup late'[lf] \cup unhooked'[lf]
    BY DEF CoherentButForRaces
  <2>2. lf \in LF /\ map'[lf] # None /\ lf \in valid \cup {ulf[t]} BY <1>2, <2>1 DEF IInv, Partition, TypeOK
  <2>3. map'[lf] = map[lf] /\ late'[lf] = late[lf] /\ unhooked'[lf] = unhooked[lf]
    BY <1>0, <1>1, <1>2, <2>2, HistoryKept, ExcusesKept
  <2>4. map'[lf] \in Pfid /\ owner'[map'[lf]] = lf /\ owner[map[lf]] = lf
    BY <1>0, <2>2, <2>3 DEF IInv, TypeOK, Partition
  <2>5. fresh'[map'[lf]] = h[map[lf]] BY <1>1, <2>2, <2>3, <2>4, SceAssumption DEF FreshAs
  <2>6. Readable(lf)' = Page \ bitmap[map[lf]] BY <1>2, <2>3 DEF Readable
  <2>7. CASE lf = ulf[t]
    <3>1. Page \subseteq buf[t] \cup Excused(lf) BY <1>0, <1>2, <2>7 DEF BuffersGood
    <3> QED BY <1>2, <1>3, <2>3, <2>5, <2>6, <2>7, <3>1 DEF Excused
  <2>8. CASE lf # ulf[t]
    <3>1. lf \in valid /\ map[lf] # upf[t] BY <1>2, <2>2, <2>4, <2>8
    <3>2. Readable(lf) \subseteq fresh[map[lf]] \cup late[lf] \cup unhooked[lf]
      BY <3>1 DEF CIInv, CoherentButForRaces
    <3> QED BY <1>3, <2>3, <2>4, <2>5, <2>6, <3>1, <3>2 DEF Readable
  <2> QED BY <2>7, <2>8
<1> QED BY <1>5, <1>6, <1>8, <1>9 DEF CIInv

LEMMA StoreFailedStep ==
    ASSUME CIInv, IInv', NEW t \in Task, StoreFailed(t) PROVE CIInv'
<1>0. CTypeOK /\ IInv BY DEF CIInv
<1>1. PutPopFailed(t) /\ FreshAs(fresh) /\ History /\ wr' = wr /\ buf' = [buf EXCEPT ![t] = {}]
  BY DEF StoreFailed
<1>2. /\ Wanes /\ valid' \subseteq valid
      /\ \A v \in Task : upc'[v] = "store" => v # t /\ upc[v] = "store" /\ ulf'[v] = ulf[v]
  BY <1>0, <1>1, PutPopFrame
<1>3. wr' \in [Writer -> (Lun \X Sctr \X Sctr) \cup {None}] /\ buf' \in [Task -> SUBSET Page]
  BY <1>0, <1>1 DEF CTypeOK
<1>4. CTypeOK' BY <1>0, <1>1, <1>3, TypesKept DEF CTypeOK
<1>5. WritesKnown' BY <1>0, <1>1, <1>2, WritesKept DEF CIInv
<1>6. \A v \in Task : upc'[v] = "store" => upc[v] = "store" /\ ulf'[v] = ulf[v] /\ buf'[v] = buf[v]
  BY <1>0, <1>1, <1>2 DEF CTypeOK
<1>7. BuffersGood' BY <1>0, <1>1, <1>2, <1>6, BuffersKept DEF CIInv
<1>8. CoherentButForRaces' BY <1>0, <1>1, <1>2, CoherenceKept DEF CIInv
<1> QED BY <1>4, <1>5, <1>7, <1>8 DEF CIInv

\* A hooked write has invalidated every mapped page before the disk gets it.
LEMMA SubmitHookedStep ==
    ASSUME CIInv, IInv', NEW w \in Writer, NEW l \in Lun, NEW a \in Sctr, NEW b \in Sctr,
           SubmitHooked(w, l, a, b)
    PROVE  CIInv'
<1>0. CTypeOK /\ IInv /\ TypeOK BY DEF CIInv, IInv
<1>1. Invalidate(l, a, b) /\ FreshAs(fresh) /\ History /\ wr' = [wr EXCEPT ![w] = <<l, a, b>>] /\ buf' = buf
  BY DEF SubmitHooked
<1>2. /\ \A lf \in LF : map'[lf] = None \/ map'[lf] = map[lf]
      /\ \A p \in Pfid : bitmap'[p] = bitmap[p] \cup Hit(p, l, a, b)
      /\ valid' \subseteq valid /\ UNCHANGED uservars
  BY <1>0, <1>1 DEF Invalidate, Unmap, TypeOK
<1>3. Wanes BY <1>0, <1>2 DEF Wanes, TypeOK
<1>4. wr' \in [Writer -> (Lun \X Sctr \X Sctr) \cup {None}] /\ buf' \in [Task -> SUBSET Page]
  BY <1>0, <1>1 DEF CTypeOK
<1>5. CTypeOK' BY <1>0, <1>1, <1>4, TypesKept DEF CTypeOK
<1>6. WritesKnown'
  <2>1. SUFFICES ASSUME NEW lf \in LF, NEW v \in Writer, map'[lf] # None
                 PROVE  Under(lf, v)' \subseteq Excused(lf)'
    BY DEF WritesKnown
  <2>2. map'[lf] = map[lf] /\ Excused(lf) \subseteq Excused(lf)' BY <1>0, <1>1, <1>3, <2>1, ExcusesKept
  <2>3. CASE v # w
    <3>1. Under(lf, v)' = Under(lf, v) BY <1>0, <1>1, <2>3 DEF Under, CTypeOK
    <3> QED BY <2>1, <2>2, <3>1 DEF CIInv, WritesKnown
  <2>4. CASE v = w /\ lf[1] = l
    <3>1. Under(lf, v)' \subseteq PagesOf(lf[2], a, b) BY <1>0, <1>1, <2>4 DEF Under, CTypeOK
    <3>2. map[lf] \in Pfid BY <1>0, <2>1, <2>2 DEF TypeOK
    <3>3. lf = <<l, lf[2]>> /\ lf[2] \in Frag BY <2>4 DEF LF
    <3>4. lf[2] \in FragOn(map[lf], l) BY <3>3 DEF FragOn
    <3>5. PagesOf(lf[2], a, b) \subseteq Hit(map[lf], l, a, b) BY <3>4 DEF Hit
    <3> QED BY <1>2, <2>2, <3>1, <3>2, <3>5 DEF Excused
  <2>5. CASE v = w /\ lf[1] # l
    <3>1. Under(lf, v)' = {} BY <1>0, <1>1, <2>5 DEF Under, CTypeOK
    <3> QED BY <3>1
  <2> QED BY <2>3, <2>4, <2>5
<1>7. BuffersGood' BY <1>0, <1>1, <1>2, <1>3, BuffersKept DEF CIInv, uservars
<1>8. CoherentButForRaces' BY <1>0, <1>1, <1>2, <1>3, CoherenceKept DEF CIInv
<1> QED BY <1>5, <1>6, <1>7, <1>8 DEF CIInv

\* A write that skips the hook is put on record with every mapping.
LEMMA SubmitUnhookedStep ==
    ASSUME CIInv, IInv', NEW w \in Writer, NEW l \in Lun, NEW a \in Sctr, NEW b \in Sctr,
           SubmitUnhooked(w, l, a, b)
    PROVE  CIInv'
<1> USE DEF vars, lunvars, mapvars, fragvars, uservars
<1>0. CTypeOK /\ IInv /\ TypeOK BY DEF CIInv, IInv
<1>1. /\ wr' = [wr EXCEPT ![w] = <<l, a, b>>]
      /\ unhooked' = [lf \in LF |-> IF lf[1] = l /\ map[lf] # None
                                    THEN unhooked[lf] \cup PagesOf(lf[2], a, b) ELSE unhooked[lf]]
      /\ UNCHANGED <<map, valid, bitmap, upc, ulf, fresh, buf, late>>
  BY DEF SubmitUnhooked
<1>2. \A lf \in LF : unhooked[lf] \subseteq unhooked'[lf] BY <1>1
<1>3. \A lf \in LF : Excused(lf) \subseteq Excused(lf)' BY <1>1, <1>2 DEF Excused
<1>4. CTypeOK'
  <2>1. \A f : PagesOf(f, a, b) \subseteq Page BY DEF PagesOf
  <2>2. unhooked' \in [LF -> SUBSET Page] BY <1>0, <1>1, <2>1 DEF CTypeOK
  <2>3. TypeOK' BY DEF IInv
  <2> QED BY <1>0, <1>1, <2>2, <2>3 DEF CTypeOK
<1>5. WritesKnown'
  <2>1. SUFFICES ASSUME NEW lf \in LF, NEW v \in Writer, map[lf] # None
                 PROVE  Under(lf, v)' \subseteq Excused(lf)'
    BY <1>1 DEF WritesKnown
  <2>2. CASE v # w
    <3>1. Under(lf, v)' = Under(lf, v) BY <1>0, <1>1, <2>2 DEF Under, CTypeOK
    <3> QED BY <1>3, <2>1, <3>1 DEF CIInv, WritesKnown
  <2>3. CASE v = w /\ lf[1] = l
    <3>1. Under(lf, v)' \subseteq PagesOf(lf[2], a, b) BY <1>0, <1>1, <2>3 DEF Under, CTypeOK
    <3>2. PagesOf(lf[2], a, b) \subseteq unhooked'[lf] BY <1>1, <2>1, <2>3
    <3> QED BY <3>1, <3>2 DEF Excused
  <2>4. CASE v = w /\ lf[1] # l
    <3>1. Under(lf, v)' = {} BY <1>0, <1>1, <2>4 DEF Under, CTypeOK
    <3> QED BY <3>1
  <2> QED BY <2>2, <2>3, <2>4
<1>6. BuffersGood'
  <2>1. SUFFICES ASSUME NEW t \in Task, upc[t] = "store" PROVE Page \subseteq buf[t] \cup Excused(ulf[t])'
    BY <1>1 DEF BuffersGood
  <2>2. t \in User /\ upf[t] # None BY <1>0, <2>1 DEF User, IInv, Shape, Holding
  <2>3. ulf[t] \in LF /\ ulf'[t] = ulf[t] BY <1>0, <1>1, <2>2, Held
  <2> QED BY <1>3, <2>1, <2>3 DEF CIInv, BuffersGood
<1>7. CoherentButForRaces'
  <2>1. SUFFICES ASSUME NEW lf \in valid
                 PROVE  Readable(lf)' \subseteq fresh[map[lf]] \cup late[lf] \cup unhooked'[lf]
    BY <1>1 DEF CoherentButForRaces
  <2>2. lf \in LF /\ Readable(lf)' = Readable(lf) BY <1>0, <1>1 DEF TypeOK, Readable
  <2> QED BY <1>2, <2>2 DEF CIInv, CoherentButForRaces
<1> QED BY <1>4, <1>5, <1>6, <1>7 DEF CIInv

\* The disk changes under copies that know of the write.
LEMMA LandStep ==
    ASSUME CIInv, IInv', NEW w \in Writer, Land(w) PROVE CIInv'
<1> USE DEF vars, lunvars, mapvars, fragvars, uservars
<1>0. CTypeOK /\ IInv /\ TypeOK BY DEF CIInv, IInv
<1>1. /\ wr' = [wr EXCEPT ![w] = None]
      /\ fresh' = [p \in Pfid |-> IF owner[p] = None THEN fresh[p] ELSE fresh[p] \ Under(owner[p], w)]
      /\ buf' = [t \in Task |-> IF ulf[t] = None THEN buf[t] ELSE buf[t] \ Under(ulf[t], w)]
      /\ UNCHANGED <<map, valid, bitmap, upc, ulf, late, unhooked>>
  BY DEF Land
<1>2. \A lf \in LF : Excused(lf)' = Excused(lf) BY <1>1 DEF Excused
<1>3. CTypeOK'
  <2>1. fresh' \in [Pfid -> SUBSET Page] BY <1>0, <1>1 DEF CTypeOK
  <2>2. buf' \in [Task -> SUBSET Page] BY <1>0, <1>1 DEF CTypeOK
  <2>3. wr' \in [Writer -> (Lun \X Sctr \X Sctr) \cup {None}] BY <1>0, <1>1 DEF CTypeOK
  <2>4. TypeOK' BY DEF IInv
  <2> QED BY <1>0, <1>1, <2>1, <2>2, <2>3, <2>4 DEF CTypeOK
<1>4. WritesKnown'
  <2>1. SUFFICES ASSUME NEW lf \in LF, NEW v \in Writer, map[lf] # None
                 PROVE  Under(lf, v)' \subseteq Excused(lf)'
    BY <1>1 DEF WritesKnown
  <2>2. Under(lf, v)' \subseteq Under(lf, v) BY <1>0, <1>1 DEF Under, CTypeOK
  <2> QED BY <1>2, <2>1, <2>2 DEF CIInv, WritesKnown
<1>5. BuffersGood'
  <2>1. SUFFICES ASSUME NEW t \in Task, upc[t] = "store" PROVE Page \subseteq buf'[t] \cup Excused(ulf[t])'
    BY <1>1 DEF BuffersGood
  <2>2. t \in User /\ upf[t] # None BY <1>0, <2>1 DEF User, IInv, Shape, Holding
  <2>3. ulf[t] \in LF /\ ulf'[t] = ulf[t] /\ map[ulf[t]] # None BY <1>0, <1>1, <2>2, Held
  <2>4. Under(ulf[t], w) \subseteq Excused(ulf[t]) BY <2>3 DEF CIInv, WritesKnown
  <2>5. buf[t] \subseteq buf'[t] \cup Under(ulf[t], w) BY <1>1
  <2>6. Page \subseteq buf[t] \cup Excused(ulf[t]) BY <2>1 DEF CIInv, BuffersGood
  <2> QED BY <1>2, <2>3, <2>4, <2>5, <2>6
<1>6. CoherentButForRaces'
  <2>1. SUFFICES ASSUME NEW lf \in valid
                 PROVE  Readable(lf)' \subseteq fresh'[map[lf]] \cup late[lf] \cup unhooked[lf]
    BY <1>1 DEF CoherentButForRaces
  <2>2. lf \in LF /\ map[lf] # None /\ map[lf] \in Pfid /\ owner[map[lf]] = lf
    BY <1>0 DEF TypeOK, IInv, Partition
  <2>3. Readable(lf)' = Page \ bitmap[map[lf]] /\ Readable(lf) = Page \ bitmap[map[lf]] BY <1>1 DEF Readable
  <2>4. Under(lf, w) \subseteq Excused(lf) BY <2>2 DEF CIInv, WritesKnown
  <2>5. fresh[map[lf]] \subseteq fresh'[map[lf]] \cup Under(lf, w) BY <1>1, <2>2
  <2>6. Readable(lf) \subseteq fresh[map[lf]] \cup late[lf] \cup unhooked[lf] BY DEF CIInv, CoherentButForRaces
  <2> QED BY <2>3, <2>4, <2>5, <2>6 DEF Excused
<1> QED BY <1>3, <1>4, <1>5, <1>6 DEF CIInv

\* A new mapping knows the writes that were on their way before it.
LEMMA StartMappingStep ==
    ASSUME CIInv, IInv', NEW t \in Task, NEW p \in Pfid,
           AllocFree(t, p) \/ AllocEvict(t, p), StartMapping(t, p)
    PROVE  CIInv'
<1> DEFINE new == ulf[t]
           h == [fresh EXCEPT ![p] = {}]
<1>0. CTypeOK /\ IInv /\ TypeOK BY DEF CIInv, IInv
<1>1. t \in User /\ upc[t] = "chosen" /\ map[new] = None BY DEF AllocFree, AllocEvict, CanMap, User
<1>2. new \in LF BY <1>0, <1>1 DEF IInv, ChoiceStands, TypeOK
<1>3. /\ FreshAs(h) /\ UNCHANGED <<wr, buf>>
      /\ late' = [lf \in LF |-> IF lf = new THEN UNION {Under(lf, w) : w \in Writer}
                                ELSE IF map'[lf] = None THEN {} ELSE late[lf]]
      /\ unhooked' = [lf \in LF |-> IF lf = new \/ map'[lf] = None THEN {} ELSE unhooked[lf]]
  BY DEF StartMapping
<1>4. /\ MapFrag(t, new, p) /\ valid' \subseteq valid
      /\ map'[new] = p /\ \A lf \in LF : lf # new => map'[lf] = map[lf] \/ map'[lf] = None
  <2>1. CASE AllocFree(t, p) BY <1>0, <1>2, <2>1 DEF AllocFree, TypeOK
  <2>2. CASE AllocEvict(t, p) BY <1>0, <1>2, <2>2 DEF AllocEvict, TypeOK
  <2> QED BY <2>1, <2>2
<1>5. \A q \in Pfid : q # p => bitmap'[q] = bitmap[q] BY <1>0, <1>4 DEF MapFrag, TypeOK
<1>6. /\ \A v \in Task : upc'[v] = "store" => v # t /\ upc[v] = "store" /\ ulf'[v] = ulf[v]
  BY <1>0, <1>1, <1>4 DEF MapFrag, Become, TypeOK, User
<1>7. new \notin valid /\ new \notin valid' BY <1>0, <1>1, <1>4 DEF IInv, Partition
<1>8. ASSUME NEW lf \in LF, lf # new, map'[lf] # None
      PROVE  /\ map'[lf] = map[lf] /\ map'[lf] \in Pfid /\ map'[lf] # p /\ owner'[map'[lf]] = lf
             /\ late'[lf] = late[lf] /\ unhooked'[lf] = unhooked[lf]
             /\ Excused(lf)' = Excused(lf) /\ bitmap'[map'[lf]] = bitmap[map[lf]]
  <2>1. map'[lf] = map[lf] BY <1>4, <1>8
  <2>2. map'[lf] \in Pfid /\ owner'[map'[lf]] = lf BY <1>8 DEF IInv, TypeOK, Partition
  <2>3. owner'[p] = new BY <1>2, <1>4 DEF IInv, Partition
  <2>4. map'[lf] # p BY <1>8, <2>2, <2>3
  <2>5. bitmap'[map'[lf]] = bitmap[map[lf]] BY <1>5, <2>1, <2>2, <2>4
  <2>6. late'[lf] = late[lf] /\ unhooked'[lf] = unhooked[lf] BY <1>3, <1>8
  <2> QED BY <2>1, <2>2, <2>4, <2>5, <2>6 DEF Excused
<1>9. \A lf \in LF, w \in Writer : Under(lf, w)' = Under(lf, w) /\ Under(lf, w) \subseteq Page
  BY <1>3 DEF Under, PagesOf
<1>10. CTypeOK'
  <2>1. late' \in [LF -> SUBSET Page]
    <3>1. ASSUME NEW lf \in LF PROVE late'[lf] \in SUBSET Page
      <4>1. CASE lf = new BY <1>3, <1>9, <4>1
      <4>2. CASE lf # new BY <1>0, <1>3, <4>2 DEF CTypeOK
      <4> QED BY <4>1, <4>2
    <3> QED BY <1>3, <3>1
  <2>2. unhooked' \in [LF -> SUBSET Page] BY <1>0, <1>3 DEF CTypeOK
  <2>3. fresh' \in [Pfid -> SUBSET Page] BY <1>0, <1>3 DEF CTypeOK, FreshAs
  <2>4. TypeOK' BY DEF IInv
  <2> QED BY <1>0, <1>3, <2>1, <2>2, <2>3, <2>4 DEF CTypeOK
<1>11. WritesKnown'
  <2>1. SUFFICES ASSUME NEW lf \in LF, NEW w \in Writer, map'[lf] # None
                 PROVE  Under(lf, w)' \subseteq Excused(lf)'
    BY DEF WritesKnown
  <2>2. CASE lf = new
    <3>1. Under(lf, w) \subseteq late'[lf] BY <1>3, <2>2
    <3> QED BY <1>9, <3>1 DEF Excused
  <2>3. CASE lf # new BY <1>8, <1>9, <2>1, <2>3 DEF CIInv, WritesKnown
  <2> QED BY <2>2, <2>3
<1>12. BuffersGood'
  <2>1. SUFFICES ASSUME NEW v \in Task, upc'[v] = "store" PROVE Page \subseteq buf'[v] \cup Excused(ulf[v])'
    BY DEF BuffersGood
  <2>2. v # t /\ upc[v] = "store" /\ ulf'[v] = ulf[v] BY <1>6, <2>1
  <2>3. v \in User /\ upf[v] # None /\ upf'[v] # None BY <1>0, <2>1, <2>2 DEF User, IInv, Shape, Holding
  <2>4. ulf[v] \in LF /\ map[ulf[v]] # None BY <1>0, <2>3, Held
  <2>5. map'[ulf'[v]] # None BY <2>3 DEF IInv, Pinned
  <2>6. Excused(ulf[v])' = Excused(ulf[v])
    <3>1. PICK lf \in LF : lf = ulf[v] BY <2>4
    <3>2. Excused(lf)' = Excused(lf) BY <1>1, <1>8, <2>2, <2>4, <2>5, <3>1
    <3> QED BY <2>2, <3>1, <3>2 DEF Excused
  <2> QED BY <1>3, <2>2, <2>6 DEF CIInv, BuffersGood
<1>13. CoherentButForRaces'
  <2>1. SUFFICES ASSUME NEW lf \in valid'
                 PROVE  Readable(lf)' \subseteq fresh'[map'[lf]] \cup late'[lf] \cup unhooked'[lf]
    BY DEF CoherentButForRaces
  <2>2. lf \in valid /\ lf \in LF /\ lf # new /\ map'[lf] # None
    BY <1>0, <1>4, <1>7, <2>1 DEF TypeOK, IInv, Partition
  <2>3. fresh'[map'[lf]] = fresh[map[lf]]
    <3>1. h[map[lf]] = fresh[map[lf]] BY <1>0, <1>8, <2>2 DEF CTypeOK
    <3> QED BY <1>3, <1>8, <2>2, <3>1, SceAssumption DEF FreshAs
  <2>4. Readable(lf)' = Readable(lf) BY <1>8, <2>2 DEF Readable
  <2> QED BY <1>8, <2>2, <2>3, <2>4 DEF CIInv, CoherentButForRaces
<1> QED BY <1>10, <1>11, <1>12, <1>13 DEF CIInv
-----------------------------------------------------------------------------
(* The invariant. *)

LEMMA InitCIInv == CInit => CIInv
<1> SUFFICES ASSUME CInit PROVE CIInv OBVIOUS
<1>1. IInv /\ TypeOK BY InitIInv DEF CInit, IInv
<1>2. CTypeOK BY <1>1 DEF CInit, CTypeOK
<1>3. WritesKnown BY DEF CInit, Init, WritesKnown
<1>4. BuffersGood BY DEF CInit, Init, BuffersGood, User
<1>5. CoherentButForRaces BY DEF CInit, Init, CoherentButForRaces
<1> QED BY <1>1, <1>2, <1>3, <1>4, <1>5 DEF CIInv

\* Every step is one of the engine, or leaves the engine alone.
LEMMA EngineSteps == CNext => [Next]_vars
BY DEF CNext, Next, Fill, Store, StoreFailed, Land, SubmitHooked, SubmitUnhooked

LEMMA NextCIInv == CIInv /\ [CNext]_cvars => CIInv'
<1> SUFFICES ASSUME CIInv, [CNext]_cvars PROVE CIInv' OBVIOUS
<1>1. CASE CNext
  <2>1. IInv' BY <1>1, EngineSteps, NextIInv DEF CIInv
  <2>2. CASE Plain /\ FreshAs(fresh) /\ History /\ UNCHANGED <<wr, buf>>
    BY <2>1, <2>2, PlainWanes, EngineStep DEF CIInv
  <2>3. ASSUME NEW t \in Task, NEW p \in Pfid, AllocFree(t, p) \/ AllocEvict(t, p), StartMapping(t, p)
        PROVE  CIInv'
    BY <2>1, <2>3, StartMappingStep
  <2>4. ASSUME NEW t \in Task, Fill(t) \/ Store(t) \/ StoreFailed(t) PROVE CIInv'
    BY <2>1, <2>4, FillStep, StoreStep, StoreFailedStep
  <2>5. ASSUME NEW w \in Writer, Land(w) PROVE CIInv' BY <2>1, <2>5, LandStep
  <2>6. ASSUME NEW w \in Writer, NEW l \in Lun, NEW a \in Sctr, NEW b \in Sctr,
               SubmitHooked(w, l, a, b) \/ SubmitUnhooked(w, l, a, b)
        PROVE  CIInv'
    BY <2>1, <2>6, SubmitHookedStep, SubmitUnhookedStep
  <2> QED BY <1>1, <2>2, <2>3, <2>4, <2>5, <2>6 DEF CNext, Plain
<1>2. CASE UNCHANGED cvars
  <2>1. IInv' BY <1>2, NextIInv DEF CIInv, cvars
  <2>2. UNCHANGED <<map, valid, bitmap, upc, ulf, wr, fresh, buf, late, unhooked>>
    BY <1>2 DEF cvars, vars, mapvars, fragvars, uservars
  <2>3. TypeOK' BY <2>1 DEF IInv
  <2>4. CTypeOK' BY <2>2, <2>3 DEF CIInv, CTypeOK
  <2>5. WritesKnown' BY <2>2 DEF CIInv, WritesKnown, Under, Excused
  <2>6. BuffersGood' BY <2>2 DEF CIInv, BuffersGood, Excused
  <2>7. CoherentButForRaces' BY <2>2 DEF CIInv, CoherentButForRaces, Readable
  <2> QED BY <2>1, <2>4, <2>5, <2>6, <2>7 DEF CIInv
<1> QED BY <1>1, <1>2

\* The inductive invariant holds of every behaviour of the engine with writes:
\* what the engine keeps, that writes in flight are known by their sector,
\* and that buffers and readable pages equal the disk but for the two races.
THEOREM CInvariance == CSpec => []CIInv
BY InitCIInv, NextCIInv, PTL DEF CSpec

\* The engine under writes keeps everything shown of it alone.
THEOREM EngineInvariance == CSpec => []IInv
<1>1. CIInv => IInv BY DEF CIInv
<1> QED BY <1>1, CInvariance, PTL

\* The engine with writes in flight implements the engine alone: submitting and
\* landing a write, seen from the engine, is an invalidation or nothing at all.
THEOREM ImplementsEngine == CSpec => Spec
<1>1. CInit => Init BY DEF CInit
<1>2. [CNext]_cvars => [Next]_vars BY EngineSteps DEF cvars
<1> QED BY <1>1, <1>2, PTL DEF CSpec, Spec

\* Nor does a write in flight take a fragment, or its LUN, from a request that
\* stays in flight.
THEOREM CHoldersUndisturbed == CSpec => HeldIsKept
BY ImplementsEngine, HoldersUndisturbed, PTL

\* A page a read can be served from equals the disk, whatever the order of
\* populations, writes, evictions and collections, unless a write to it was
\* on its way when the fragment was mapped or skipped iostash_mkrequest's hook.
THEOREM Coherent == CSpec => []CoherentButForRaces
<1>1. CIInv => CoherentButForRaces BY DEF CIInv
<1> QED BY <1>1, CInvariance, PTL

(***************************************************************************)
(* Part 3.  The engine and the removal of a cache device: module Hotplug.  *)
(***************************************************************************)

\* What the program counter says about a request.
HShape ==
    /\ \A u \in User : upf[u] # None <=> upc[u] \in Holding
    /\ \A u \in User : upc[u] \in Holding \cup {"chosen"} => ulf[u] # None
    /\ \A u \in User : upc[u] = "read" => u \in Reader
    /\ \A u \in User : upc[u] \in {"chosen", "fill", "store"} => u \in Task

\* What can serve reads is mapped, and what is free has no owner.
Linking ==
    /\ \A lf \in valid : map[lf] # None
    /\ \A p \in freelist : owner[p] = None

\* sce->lock keeps populations from choosing during a removal, and the LUNs
\* already visited have nothing left on the device.
Removing ==
    /\ rmdev # None => SceUnlocked /\ draining = None
    /\ \A lf \in LF : map[lf] # None /\ map[lf][1] = rmdev => lf[1] \in rmleft

\* What the free list should not name was put on it during a removal.
Late == \A p \in freelist : p[1] \notin cdev \/ p[1] = rmdev => p \in returned

\* A device whose ssd_info is to be freed is out of the engine, and once its
\* reads were waited for there are none.
Draining ==
    /\ draining # None => draining \notin cdev
    /\ waited => draining # None /\ ReadsOn(draining) = {}

\* What is mapped but cannot serve reads yet is held once, and some task
\* will end that state, be it the one that mapped it or one whose own
\* mapping the removal took away.
Unfinished ==
    \A lf \in LF : map[lf] # None /\ lf \notin valid =>
        svc[map[lf]] = 1 /\ \E t \in Task : upf[t] # None /\ ulf[t] = lf

\* One token for each count of a fragment of l that can serve reads.
Tok(V, M, S, l) == {x \in V \X Nat : x[1][1] = l /\ 1 <= x[2] /\ x[2] <= S[M[x[1]]]}
TasksOf(l) == UsersOf(l) \cap Task

\* The LUN counts its requests; and its tasks plus the counts of its
\* fragments that can serve reads.  After a removal neither need be exact.
Covers(n, users, tasks, tokens) ==
    /\ n >= Cardinality(users)
    /\ n >= Cardinality(tasks) + Cardinality(tokens)
    /\ IsFiniteSet(tokens)
Covered ==
    \A l \in Lun : /\ Covers(lunsvc[l], UsersOf(l), TasksOf(l), Tok(valid, map, svc, l))
                   /\ UsersOf(l) # {} => size[l] > 0

Maps == MapAndOwnersAgree /\ Linking /\ Removing /\ Late
Counts == HShape /\ Unfinished /\ Covered

\* The inductive invariant.
HIInv == HTypeOK /\ Maps /\ Counts /\ Draining /\ gone = {}
-----------------------------------------------------------------------------
(* Unmapping. *)

\* What is unmapped was mapped, and only a LUN without mappings changes size.
Released(freed, valid1) ==
    /\ Unmap(freed, valid1)
    /\ \A p \in freed : p \in Pfid /\ \E lf \in LF : map[lf] = p
    /\ \A lf \in LF : map'[lf] # None => size'[lf[1]] = size[lf[1]]

\* Bookkeeping of the removal during a step of the engine.
Meanwhile ==
    /\ gone' = {u \in gone : upc'[u] = "read"}
    /\ returned' = {p \in freelist' : p \in returned \/ (p \notin freelist /\ p[1] = rmdev)}
    /\ UNCHANGED <<rmdev, rmleft, draining, waited, removals>>

LEMMA Mapped ==
    ASSUME TypeOK, MapAndOwnersAgree, NEW lf \in LF, map[lf] # None
    PROVE  map[lf] \in Pfid /\ map[lf][1] \in cdev /\ owner[map[lf]] = lf /\ HasFrag(lf[1], lf[2])
BY DEF TypeOK, MapAndOwnersAgree

LEMMA NotUnmapped ==
    ASSUME TypeOK, UNCHANGED <<map, valid, owner, freelist>>,
           \A lf \in LF : map[lf] # None => size'[lf[1]] = size[lf[1]]
    PROVE  Released({}, valid)
BY DEF TypeOK, Released, Unmap

LEMMA UnmapTypes ==
    ASSUME TypeOK, NEW freed, NEW valid1 \in SUBSET LF, Released(freed, valid1)
    PROVE  /\ map' \in [LF -> Pfid \cup {None}] /\ valid' \subseteq LF
           /\ owner' \in [Pfid -> LF \cup {None}] /\ freelist' \subseteq Pfid
<1>1. map' \in [LF -> Pfid \cup {None}] BY DEF TypeOK, Released, Unmap
<1>2. owner' \in [Pfid -> LF \cup {None}] BY DEF TypeOK, Released, Unmap
<1>3. valid' \subseteq LF /\ freelist' \subseteq Pfid BY DEF TypeOK, Released, Unmap
<1> QED BY <1>1, <1>2, <1>3

LEMMA UnmapMaps ==
    ASSUME TypeOK, Maps, Meanwhile, NEW freed,
           NEW valid1 \in SUBSET LF, \A lf \in valid1 : map[lf] # None,
           Released(freed, valid1), cdev' = cdev, rmdev # None => SceUnlocked'
    PROVE  Maps'
<1>1. /\ map' = [lf \in LF |-> IF map[lf] \in freed THEN None ELSE map[lf]]
      /\ valid' = {lf \in valid1 : map[lf] \notin freed}
      /\ owner' = [p \in Pfid |-> IF p \in freed THEN None ELSE owner[p]]
      /\ freelist' = freelist \cup freed
  BY DEF Released, Unmap
<1>2. UNCHANGED <<rmdev, rmleft, draining>> BY DEF Meanwhile
<1>3. \A lf \in LF : map'[lf] # None =>
         map'[lf] = map[lf] /\ map[lf] \notin freed /\ size'[lf[1]] = size[lf[1]]
  BY <1>1 DEF Released
<1>4. MapAndOwnersAgree'
  <2>1. ASSUME NEW lf \in LF, map'[lf] # None
        PROVE  map'[lf][1] \in cdev' /\ owner'[map'[lf]] = lf /\ HasFrag(lf[1], lf[2])'
    <3>1. map[lf] \in Pfid /\ map[lf][1] \in cdev /\ owner[map[lf]] = lf /\ HasFrag(lf[1], lf[2])
      BY <1>3, <2>1, Mapped DEF Maps
    <3> QED BY <1>1, <1>3, <2>1, <3>1 DEF HasFrag
  <2>2. ASSUME NEW p \in Pfid, owner'[p] # None, p[1] # rmdev' PROVE map'[owner'[p]] = p
    <3>1. owner'[p] = owner[p] /\ p \notin freed /\ owner[p] \in LF BY <1>1, <2>2 DEF TypeOK
    <3>2. map[owner[p]] = p BY <1>2, <2>2, <3>1 DEF Maps, MapAndOwnersAgree
    <3> QED BY <1>1, <3>1, <3>2
  <2> QED BY <2>1, <2>2 DEF MapAndOwnersAgree
<1>5. Linking'
  <2>1. \A lf \in valid' : map'[lf] # None BY <1>1
  <2>2. \A p \in freelist' : owner'[p] = None BY <1>1 DEF Maps, Linking, Released, TypeOK
  <2> QED BY <2>1, <2>2 DEF Linking
<1>6. Removing' BY <1>2, <1>3 DEF Maps, Removing
<1>7. Late'
  <2>1. SUFFICES ASSUME NEW p \in freelist', p[1] \notin cdev \/ p[1] = rmdev PROVE p \in returned'
    BY <1>2 DEF Late
  <2>2. CASE p \in freelist BY <2>1, <2>2 DEF Maps, Late, Meanwhile
  <2>3. CASE p \notin freelist
    <3>1. p \in freed BY <1>1, <2>1, <2>3
    <3>2. p[1] \in cdev BY <3>1, Mapped, SceAssumption DEF Released, Maps, MapAndOwnersAgree
    <3> QED BY <2>1, <2>3, <3>2 DEF Meanwhile
  <2> QED BY <2>2, <2>3
<1> QED BY <1>4, <1>5, <1>6, <1>7 DEF Maps

\* Purging a LUN none of whose fragments is in service unmaps them all.
LEMMA PurgeReleases ==
    ASSUME TypeOK, MapAndOwnersAgree, NEW l \in Lun,
           NEW valid1 \in SUBSET LF, \A lf \in valid1 : map[lf] # None, Purge(l, valid1),
           \A lf \in LF : lf[1] = l /\ map[lf] # None => svc'[map[lf]] = 0
    PROVE  \E freed : /\ Released(freed, valid1)
                      /\ \A p \in freed : svc'[p] = 0
                      /\ \A lf \in LF : lf[1] = l => map'[lf] = None
<1> DEFINE freed == FragsOf(l)
<1>1. \A p \in freed : p \in Pfid /\ \E lf \in LF : lf[1] = l /\ map[lf] = p
  BY DEF FragsOf, FragOn, LF
<1>2. \A p \in freed : svc'[p] = 0 BY <1>1, SceAssumption
<1>3. freed = {p \in FragsOf(l) : svc'[p] = 0} BY <1>2
<1>4. ASSUME NEW lf \in LF PROVE map[lf] \in freed <=> lf[1] = l /\ map[lf] # None
  <2>1. ASSUME map[lf] \in freed PROVE lf[1] = l /\ map[lf] # None
    <3>1. PICK k \in LF : k[1] = l /\ map[k] = map[lf] BY <1>1, <2>1
    <3>2. map[lf] # None BY <1>1, <2>1, SceAssumption
    <3>3. owner[map[lf]] = lf /\ owner[map[k]] = k BY <3>1, <3>2, Mapped
    <3> QED BY <3>1, <3>2, <3>3
  <2>2. ASSUME lf[1] = l, map[lf] # None PROVE map[lf] \in freed
    <3>1. lf = <<l, lf[2]>> /\ lf[2] \in Frag /\ map[lf] \in Pfid BY <2>2, Mapped DEF LF
    <3> QED BY <3>1 DEF FragsOf, FragOn
  <2> QED BY <2>1, <2>2
<1>5. /\ size' = [size EXCEPT ![l] = 0]
      /\ map' = [lf \in LF |-> IF lf[1] = l THEN None ELSE map[lf]]
      /\ valid' = {lf \in valid1 : lf[1] # l}
      /\ owner' = [p \in Pfid |-> IF p \in freed THEN None ELSE owner[p]]
      /\ freelist' = freelist \cup freed
  BY <1>3 DEF Purge
<1> HIDE DEF freed
<1>6. map' = [lf \in LF |-> IF map[lf] \in freed THEN None ELSE map[lf]] BY <1>4, <1>5
<1>7. valid' = {lf \in valid1 : map[lf] \notin freed} BY <1>4, <1>5
<1>8. Unmap(freed, valid1) BY <1>5, <1>6, <1>7 DEF Unmap
<1>9. \A lf \in LF : map'[lf] # None => size'[lf[1]] = size[lf[1]] BY <1>5 DEF TypeOK, LF
<1>10. \A lf \in LF : lf[1] = l => map'[lf] = None BY <1>5
<1> QED BY <1>1, <1>2, <1>8, <1>9, <1>10 DEF Released

LEMMA CollectReleases ==
    ASSUME TypeOK, MapAndOwnersAgree, NEW lf \in LF, NEW l \in Lun, lf[1] = l, map[lf] # None,
           NEW drop \in SUBSET {map[lf]}, drop # {} => svc'[map[lf]] = 0,
           NEW valid1 \in SUBSET LF, \A k \in valid1 : map[k] # None, Collect(l, drop, valid1),
           lunsvc'[l] = 0 => \A k \in LF : k[1] = l /\ map[k] # None => svc'[map[k]] = 0
    PROVE  \E freed : /\ Released(freed, valid1)
                      /\ \A p \in freed : svc'[p] = 0
                      /\ \A k \in LF : k[1] = l /\ map[k] \in drop => map'[k] = None
<1>1. CASE lunsvc'[l] = 0 /\ Purge(l, valid1)
  <2>1. PICK freed : /\ Released(freed, valid1)
                     /\ \A p \in freed : svc'[p] = 0
                     /\ \A k \in LF : k[1] = l => map'[k] = None
    BY <1>1, PurgeReleases
  <2> QED BY <2>1
<1>2. CASE Unmap(drop, valid1) /\ UNCHANGED <<size, waiting>>
  <2>1. Released(drop, valid1) BY <1>2, Mapped DEF Released
  <2>2. \A k \in LF : map[k] \in drop => map'[k] = None BY <1>2 DEF Unmap
  <2> QED BY <2>1, <2>2
<1> QED BY <1>1, <1>2 DEF Collect
-----------------------------------------------------------------------------
(* Counting. *)

\* Fewer tokens are covered by the same count.
LEMMA CoversLess ==
    ASSUME NEW n \in Int, NEW users, NEW tasks, NEW tokens, Covers(n, users, tasks, tokens),
           tasks \subseteq User, NEW fewer \in SUBSET tokens
    PROVE  Covers(n, users, tasks, fewer)
<1>1. IsFiniteSet(tokens) /\ n >= Cardinality(users) /\ n >= Cardinality(tasks) + Cardinality(tokens)
  BY DEF Covers
<1>2. IsFiniteSet(fewer) /\ Cardinality(fewer) <= Cardinality(tokens) BY <1>1, FS_Subset
<1>3. Cardinality(tasks) \in Nat BY Count
<1>4. Cardinality(fewer) \in Nat /\ Cardinality(tokens) \in Nat BY <1>1, <1>2, FS_CardinalityType
<1>5. n >= Cardinality(tasks) + Cardinality(fewer) BY ONLY <1>1, <1>2, <1>3, <1>4, n \in Int
<1> QED BY <1>1, <1>2, <1>5 DEF Covers

\* One more request on the LUN, a task or a count of a fragment, and one more
\* in its count.
LEMMA CoversMore ==
    ASSUME NEW n \in Int, NEW users \in SUBSET User, NEW tasks \in SUBSET User, NEW tokens,
           Covers(n, users, tasks, tokens), NEW u \in User \ users
    PROVE  /\ u \notin tasks => Covers(n + 1, users \cup {u}, tasks \cup {u}, tokens)
           /\ \A x : Covers(n + 1, users \cup {u}, tasks, tokens \cup {x})
<1>1. IsFiniteSet(tokens) /\ n >= Cardinality(users) /\ n >= Cardinality(tasks) + Cardinality(tokens)
  BY DEF Covers
<1>2. Cardinality(users) \in Nat /\ Cardinality(tasks) \in Nat BY Count
<1>3. Cardinality(users \cup {u}) = Cardinality(users) + 1 BY Count
<1>4. u \notin tasks => Cardinality(tasks \cup {u}) = Cardinality(tasks) + 1 BY Count
<1>5. Cardinality(tokens) \in Nat BY <1>1, FS_CardinalityType
<1>6. ASSUME NEW x PROVE Covers(n + 1, users \cup {u}, tasks, tokens \cup {x})
  <2>1. IsFiniteSet(tokens \cup {x}) BY <1>1, FS_AddElement
  <2>2. Cardinality(tokens \cup {x}) = Cardinality(tokens) \/ Cardinality(tokens \cup {x}) = Cardinality(tokens) + 1
    BY <1>1, FS_AddElement
  <2>3. n + 1 >= Cardinality(users) + 1 BY ONLY <1>1, <1>2, n \in Int
  <2>4. n + 1 >= Cardinality(tasks) + Cardinality(tokens \cup {x})
    BY ONLY <1>1, <1>2, <1>5, <2>2, n \in Int
  <2> QED BY <1>3, <2>1, <2>3, <2>4 DEF Covers
<1>7. ASSUME u \notin tasks PROVE Covers(n + 1, users \cup {u}, tasks \cup {u}, tokens)
  <2>1. n + 1 >= Cardinality(users) + 1 BY ONLY <1>1, <1>2, n \in Int
  <2>2. n + 1 >= (Cardinality(tasks) + 1) + Cardinality(tokens) BY ONLY <1>1, <1>2, <1>5, n \in Int
  <2> QED BY <1>1, <1>3, <1>4, <1>7, <2>1, <2>2 DEF Covers
<1> QED BY <1>6, <1>7

\* One request less and one count less.
LEMMA CoversFewer ==
    ASSUME NEW n \in Int, NEW users \in SUBSET User, NEW tasks \in SUBSET User, NEW tokens,
           Covers(n, users, tasks, tokens), NEW u \in users
    PROVE  /\ n >= 1
           /\ u \in tasks => Covers(n - 1, users \ {u}, tasks \ {u}, tokens)
           /\ \A x \in tokens : Covers(n - 1, users \ {u}, tasks, tokens \ {x})
           /\ u \in tasks \/ tasks \ {u} = tasks
<1>1. IsFiniteSet(tokens) /\ n >= Cardinality(users) /\ n >= Cardinality(tasks) + Cardinality(tokens)
  BY DEF Covers
<1>2. Cardinality(users) \in Nat /\ Cardinality(tasks) \in Nat BY Count
<1>3. Cardinality(users \ {u}) = Cardinality(users) - 1 BY Count
<1>4. Cardinality(users) # 0 BY Count
<1>5. u \in tasks => Cardinality(tasks \ {u}) = Cardinality(tasks) - 1 BY Count
<1>6. Cardinality(tokens) \in Nat BY <1>1, FS_CardinalityType
<1>7. n - 1 >= Cardinality(users) - 1 /\ n >= 1 BY ONLY <1>1, <1>2, <1>4, n \in Int
<1>8. ASSUME u \in tasks PROVE Covers(n - 1, users \ {u}, tasks \ {u}, tokens)
  <2>1. n - 1 >= (Cardinality(tasks) - 1) + Cardinality(tokens) BY ONLY <1>1, <1>2, <1>6, n \in Int
  <2> QED BY <1>1, <1>3, <1>5, <1>7, <1>8, <2>1 DEF Covers
<1>9. ASSUME NEW x \in tokens PROVE Covers(n - 1, users \ {u}, tasks, tokens \ {x})
  <2>1. IsFiniteSet(tokens \ {x}) /\ Cardinality(tokens \ {x}) = Cardinality(tokens) - 1
    BY <1>1, FS_RemoveElement
  <2>2. n - 1 >= Cardinality(tasks) + (Cardinality(tokens) - 1) BY ONLY <1>1, <1>2, <1>6, n \in Int
  <2> QED BY <1>3, <1>7, <2>1, <2>2 DEF Covers
<1> QED BY <1>7, <1>8, <1>9

\* A request leaves without being counted down.
LEMMA CoversLeft ==
    ASSUME NEW n \in Int, NEW users \in SUBSET User, NEW tasks \in SUBSET User, NEW tokens,
           Covers(n, users, tasks, tokens), NEW u \in User
    PROVE  Covers(n, users \ {u}, tasks \ {u}, tokens)
<1>1. IsFiniteSet(tokens) /\ n >= Cardinality(users) /\ n >= Cardinality(tasks) + Cardinality(tokens)
  BY DEF Covers
<1>2. Cardinality(users) \in Nat /\ Cardinality(tasks) \in Nat BY Count
<1>3. Cardinality(users \ {u}) \in {Cardinality(users), Cardinality(users) - 1}
  <2>1. CASE u \in users BY <2>1, Count
  <2>2. CASE u \notin users
    <3>1. users \ {u} = users BY <2>2
    <3> QED BY <3>1
  <2> QED BY <2>1, <2>2
<1>4. Cardinality(tasks \ {u}) \in {Cardinality(tasks), Cardinality(tasks) - 1}
  <2>1. CASE u \in tasks BY <2>1, Count
  <2>2. CASE u \notin tasks
    <3>1. tasks \ {u} = tasks BY <2>2
    <3> QED BY <3>1
  <2> QED BY <2>1, <2>2
<1>5. Cardinality(tokens) \in Nat BY <1>1, FS_CardinalityType
<1>6. n >= Cardinality(users \ {u}) BY ONLY <1>1, <1>2, <1>3, n \in Int
<1>7. n >= Cardinality(tasks \ {u}) + Cardinality(tokens) BY ONLY <1>1, <1>2, <1>4, <1>5, n \in Int
<1> QED BY <1>1, <1>6, <1>7 DEF Covers

\* A LUN that counts nobody has no task and no fragment in service.
LEMMA CoversNone ==
    ASSUME NEW users \in SUBSET User, NEW tasks \in SUBSET User, NEW tokens, Covers(0, users, tasks, tokens)
    PROVE  users = {} /\ tasks = {} /\ tokens = {}
<1>1. IsFiniteSet(tokens) /\ 0 >= Cardinality(users) /\ 0 >= Cardinality(tasks) + Cardinality(tokens)
  BY DEF Covers
<1>2. Cardinality(users) \in Nat /\ Cardinality(tasks) \in Nat BY Count
<1>3. Cardinality(tokens) \in Nat BY <1>1, FS_CardinalityType
<1>4. Cardinality(users) = 0 /\ Cardinality(tasks) = 0 /\ Cardinality(tokens) = 0
  BY ONLY <1>1, <1>2, <1>3
<1>5. users = {} /\ tasks = {} BY <1>4, Count
<1>6. tokens = {} BY <1>1, <1>4, FS_EmptySet
<1> QED BY <1>5, <1>6

\* What a step has to show of the counts, before it unmaps what is out of service.
LEMMA Settle ==
    ASSUME TypeOK, NEW freed, NEW valid1 \in SUBSET LF, Released(freed, valid1),
           lunsvc' \in [Lun -> Int],
           \A l \in Lun : Covers(lunsvc'[l], UsersOf(l)', TasksOf(l)', Tok(valid1, map, svc', l)),
           \A l \in Lun : UsersOf(l)' # {} => size'[l] > 0,
           \A lf \in LF : map'[lf] # None /\ lf \notin valid1 =>
               svc'[map[lf]] = 1 /\ \E t \in Task : upf'[t] # None /\ ulf'[t] = lf
    PROVE  Unfinished' /\ Covered'
<1>1. /\ \A lf \in LF : map'[lf] = IF map[lf] \in freed THEN None ELSE map[lf]
      /\ valid' = {lf \in valid1 : map[lf] \notin freed}
  BY DEF Released, Unmap
<1>2. Unfinished'
  <2>1. SUFFICES ASSUME NEW lf \in LF, map'[lf] # None, lf \notin valid'
                 PROVE  svc'[map'[lf]] = 1 /\ \E t \in Task : upf'[t] # None /\ ulf'[t] = lf
    BY DEF Unfinished
  <2>2. map'[lf] = map[lf] /\ lf \notin valid1 BY <1>1, <2>1
  <2> QED BY <2>1, <2>2
<1>3. ASSUME NEW l \in Lun
      PROVE  Covers(lunsvc'[l], UsersOf(l)', TasksOf(l)', Tok(valid', map', svc', l))
  <2>1. Tok(valid', map', svc', l) \subseteq Tok(valid1, map, svc', l) BY <1>1 DEF Tok
  <2>2. TasksOf(l)' \subseteq User /\ lunsvc'[l] \in Int BY DEF TasksOf, UsersOf
  <2> QED BY <2>1, <2>2, CoversLess
<1> QED BY <1>2, <1>3 DEF Covered
-----------------------------------------------------------------------------
(* Requests and tasks that leave. *)

\* A request that leaves, whether its counts go down or not.
LEMMA Leaves ==
    ASSUME TypeOK, HShape, NEW u \in User, Finish(u)
    PROVE  /\ upc' \in [User -> {"idle", "read", "chosen", "fill", "store", "leaked"}]
           /\ ulf' \in [User -> LF \cup {None}] /\ upf' \in [User -> Pfid \cup {None}]
           /\ \A v \in User : v # u => upc'[v] = upc[v] /\ ulf'[v] = ulf[v] /\ upf'[v] = upf[v]
           /\ upc'[u] = "idle" /\ ulf'[u] = None /\ upf'[u] = None
           /\ HShape' /\ (SceUnlocked => SceUnlocked')
<1>1. /\ upc' = [upc EXCEPT ![u] = "idle"]
      /\ ulf' = [ulf EXCEPT ![u] = None]
      /\ upf' = [upf EXCEPT ![u] = None]
  BY DEF Finish, Become
<1>2. /\ upc' \in [User -> {"idle", "read", "chosen", "fill", "store", "leaked"}]
      /\ ulf' \in [User -> LF \cup {None}] /\ upf' \in [User -> Pfid \cup {None}]
  BY <1>1 DEF TypeOK
<1>3. /\ \A v \in User : v # u => upc'[v] = upc[v] /\ ulf'[v] = ulf[v] /\ upf'[v] = upf[v]
      /\ upc'[u] = "idle" /\ ulf'[u] = None /\ upf'[u] = None
  BY <1>1 DEF TypeOK
<1>4. HShape' BY <1>3 DEF HShape, Holding
<1>5. SceUnlocked => SceUnlocked' BY <1>3 DEF SceUnlocked, User
<1> QED BY <1>2, <1>3, <1>4, <1>5

\* The one lemma behind put4read, complete_population and cancel_population,
\* now that the fragment need not be the one the request was given.
LEMMA ReleaseStep ==
    ASSUME TypeOK, Maps, Counts, Meanwhile, NEW u \in User, upf[u] # None, Finish(u),
           NEW lf, lf = ulf[u], NEW l, l = lf[1], NEW p, p = map[lf], p # None,
           lunsvc' = [lunsvc EXCEPT ![l] = @ - 1],
           svc' \in [Pfid -> Nat], \A q \in Pfid : q # p => svc'[q] = svc[q],
           NEW valid1, NEW drop \in SUBSET {p},
           \/ u \in Reader /\ lf \in valid /\ valid1 = valid /\ svc[p] > 0 /\ svc'[p] = svc[p] - 1
           \/ u \in Task /\ lf \in valid /\ valid1 = valid /\ svc'[p] = svc[p]
           \/ u \in Task /\ lf \notin valid /\ valid1 = valid \cup {lf} /\ svc'[p] = 0
           \/ u \in Task /\ lf \notin valid /\ valid1 = valid /\ svc'[p] = 0 /\ drop = {p},
           drop # {} => svc'[p] = 0,
           \/ Collect(l, drop, valid1)
           \/ valid1 = valid /\ drop = {} /\ UNCHANGED <<size, waiting, map, valid, owner, freelist>>,
           UNCHANGED <<cdev, bitmap>>
    PROVE  TypeOK' /\ Maps' /\ Counts'
<1>1. HShape /\ Unfinished /\ Covered /\ MapAndOwnersAgree BY DEF Counts, Maps
<1>2. lf \in LF /\ l \in Lun /\ lf # None
  <2>1. lf # None BY <1>1 DEF HShape
  <2>2. lf \in LF BY <2>1 DEF TypeOK
  <2> QED BY <2>1, <2>2 DEF LF
<1>3. p \in Pfid /\ owner[p] = lf BY <1>1, <1>2, Mapped
<1>4. /\ \A v \in User : v # u => upc'[v] = upc[v] /\ ulf'[v] = ulf[v] /\ upf'[v] = upf[v]
      /\ HShape' /\ (SceUnlocked => SceUnlocked')
  BY <1>1, Leaves
<1>5. /\ \A k \in Lun : UsersOf(k)' = IF k = l THEN UsersOf(k) \ {u} ELSE UsersOf(k)
      /\ u \in UsersOf(l)
  BY <1>2, Lose
<1>6. \A k \in Lun : TasksOf(k)' = IF k = l THEN TasksOf(k) \ {u} ELSE TasksOf(k)
  BY <1>5 DEF TasksOf
<1>7. /\ valid1 \in SUBSET LF /\ valid \subseteq valid1 /\ valid1 \subseteq valid \cup {lf}
      /\ \A k \in valid1 : map[k] # None
  <2>1. valid \subseteq LF /\ \A k \in valid : map[k] # None BY DEF TypeOK, Maps, Linking
  <2>2. valid1 = valid \/ valid1 = valid \cup {lf} OBVIOUS
  <2> QED BY <1>2, <2>1, <2>2
<1>8. \A k \in LF : map[k] = p => k = lf
  <2> TAKE k \in LF
  <2> HAVE map[k] = p
  <2> QED BY <1>1, <1>3, Mapped
<1>9. /\ UsersOf(l) \in SUBSET User /\ TasksOf(l) \in SUBSET User
      /\ UsersOf(l)' \in SUBSET User /\ TasksOf(l)' \in SUBSET User
      /\ u \in TasksOf(l) <=> u \in Task
  BY <1>5 DEF TasksOf, UsersOf
<1>10. lunsvc[l] \in Int /\ Covers(lunsvc[l], UsersOf(l), TasksOf(l), Tok(valid, map, svc, l))
  BY <1>1, <1>2 DEF TypeOK, Covered
<1>11. lunsvc[l] >= 1 BY <1>5, <1>9, <1>10, CoversFewer
<1>12. lunsvc' \in [Lun -> Nat] /\ lunsvc'[l] = lunsvc[l] - 1
       /\ \A k \in Lun : k # l => lunsvc'[k] = lunsvc[k]
  BY <1>2, <1>11 DEF TypeOK
<1>13. Covers(lunsvc'[l], UsersOf(l)', TasksOf(l)', Tok(valid1, map, svc', l))
  <2>1. UsersOf(l)' = UsersOf(l) \ {u} /\ TasksOf(l)' = TasksOf(l) \ {u} BY <1>2, <1>5, <1>6
  <2>2. lunsvc[l] - 1 \in Int BY <1>10
  <2>3. CASE u \in Reader /\ lf \in valid /\ valid1 = valid /\ svc[p] > 0 /\ svc'[p] = svc[p] - 1
    <3>1. u \notin TasksOf(l) BY <1>9, <2>3, SceAssumption
    <3>2. TasksOf(l) \ {u} = TasksOf(l) BY <3>1
    <3>3. PICK x : x = <<lf, svc[p]>> OBVIOUS
    <3>4. svc[p] \in Nat BY <1>3 DEF TypeOK
    <3>5. x \in Tok(valid, map, svc, l) BY <2>3, <3>3, <3>4 DEF Tok
    <3>6. Covers(lunsvc[l] - 1, UsersOf(l) \ {u}, TasksOf(l), Tok(valid, map, svc, l) \ {x})
      BY <1>5, <1>9, <1>10, <3>5, CoversFewer
    <3>7. Tok(valid, map, svc', l) \subseteq Tok(valid, map, svc, l) \ {x}
      <4> SUFFICES ASSUME NEW y \in Tok(valid, map, svc', l) PROVE y \in Tok(valid, map, svc, l) \ {x}
        OBVIOUS
      <4>1. y \in valid \X Nat /\ y[1][1] = l /\ 1 <= y[2] /\ y[2] <= svc'[map[y[1]]] BY DEF Tok
      <4>2. y[1] \in LF /\ map[y[1]] \in Pfid BY <1>1, <1>7, <4>1, Mapped
      <4>3. CASE y[1] = lf BY <2>3, <3>3, <3>4, <4>1, <4>3 DEF Tok
      <4>4. CASE y[1] # lf
        <5>1. svc'[map[y[1]]] = svc[map[y[1]]] BY <1>8, <4>2, <4>4
        <5> QED BY <3>3, <4>1, <4>4, <5>1 DEF Tok
      <4> QED BY <4>3, <4>4
    <3> QED BY <1>12, <1>9, <2>1, <2>2, <2>3, <3>2, <3>6, <3>7, CoversLess
  <2>4. CASE u \in Task /\ ~(lf \in valid1 /\ svc'[p] # 0 /\ (svc'[p] # svc[p] \/ lf \notin valid))
    <3>1. Covers(lunsvc[l] - 1, UsersOf(l) \ {u}, TasksOf(l) \ {u}, Tok(valid, map, svc, l))
      BY <1>5, <1>9, <1>10, <2>4, CoversFewer
    <3>2. Tok(valid1, map, svc', l) \subseteq Tok(valid, map, svc, l)
      <4> SUFFICES ASSUME NEW y \in Tok(valid1, map, svc', l) PROVE y \in Tok(valid, map, svc, l)
        OBVIOUS
      <4>1. y \in valid1 \X Nat /\ y[1][1] = l /\ 1 <= y[2] /\ y[2] <= svc'[map[y[1]]] BY DEF Tok
      <4>2. y[1] \in LF /\ map[y[1]] \in Pfid BY <1>1, <1>7, <4>1, Mapped
      <4>3. CASE y[1] = lf BY <2>4, <4>1, <4>3 DEF Tok
      <4>4. CASE y[1] # lf
        <5>1. svc'[map[y[1]]] = svc[map[y[1]]] BY <1>8, <4>2, <4>4
        <5> QED BY <1>7, <4>1, <4>4, <5>1 DEF Tok
      <4> QED BY <4>3, <4>4
    <3> QED BY <1>12, <1>9, <2>1, <2>2, <3>1, <3>2, CoversLess
  <2> QED BY <2>3, <2>4
<1>14. ASSUME NEW k \in Lun
       PROVE  Covers(lunsvc'[k], UsersOf(k)', TasksOf(k)', Tok(valid1, map, svc', k))
  <2>1. CASE k = l BY <1>13, <2>1
  <2>2. CASE k # l
    <3>1. Tok(valid1, map, svc', k) \subseteq Tok(valid, map, svc, k)
      <4> SUFFICES ASSUME NEW y \in Tok(valid1, map, svc', k) PROVE y \in Tok(valid, map, svc, k)
        OBVIOUS
      <4>1. y \in valid1 \X Nat /\ y[1][1] = k /\ 1 <= y[2] /\ y[2] <= svc'[map[y[1]]] BY DEF Tok
      <4>2. y[1] \in LF /\ map[y[1]] \in Pfid /\ y[1] # lf BY <1>1, <1>7, <2>2, <4>1, Mapped
      <4>3. svc'[map[y[1]]] = svc[map[y[1]]] BY <1>8, <4>2
      <4> QED BY <1>7, <4>1, <4>2, <4>3 DEF Tok
    <3>2. lunsvc[k] \in Int /\ Covers(lunsvc[k], UsersOf(k), TasksOf(k), Tok(valid, map, svc, k))
      BY <1>1 DEF TypeOK, Covered
    <3>3. TasksOf(k) \subseteq User BY DEF TasksOf, UsersOf
    <3> QED BY <1>5, <1>6, <1>12, <2>2, <3>1, <3>2, <3>3, CoversLess
  <2> QED BY <2>1, <2>2
<1>15. ASSUME NEW k \in LF, k # lf, map[k] # None, k \notin valid
       PROVE  /\ svc'[map[k]] = 1
              /\ \E t \in Task : upf'[t] # None /\ ulf'[t] = k
  <2>1. PICK t \in Task : upf[t] # None /\ ulf[t] = k BY <1>1, <1>15 DEF Unfinished
  <2>2. t # u /\ t \in User BY <1>15, <2>1 DEF User
  <2>3. map[k] \in Pfid /\ map[k] # p BY <1>1, <1>8, <1>15, Mapped
  <2>4. svc[map[k]] = 1 BY <1>1, <1>15 DEF Unfinished
  <2> QED BY <1>4, <2>1, <2>2, <2>3, <2>4
<1>16. ASSUME lunsvc'[l] = 0
       PROVE  /\ \A k \in LF : k[1] = l /\ map[k] # None => svc'[map[k]] = 0
              /\ UsersOf(l)' = {}
  <2>1. UsersOf(l)' = {} /\ Tok(valid1, map, svc', l) = {} BY <1>9, <1>13, <1>16, CoversNone
  <2>2. ASSUME NEW k \in LF, k[1] = l, map[k] # None PROVE svc'[map[k]] = 0
    <3>1. svc'[map[k]] \in Nat BY <1>1, <2>2, Mapped
    <3>2. CASE k \in valid1
      <4>1. svc'[map[k]] # 0 => <<k, 1>> \in Tok(valid1, map, svc', l) BY <2>2, <3>1, <3>2 DEF Tok
      <4> QED BY <2>1, <4>1
    <3>3. CASE k \notin valid1 /\ k = lf BY <3>3
    <3>4. CASE k \notin valid1 /\ k # lf
      <4>1. PICK t \in Task : upf'[t] # None /\ ulf'[t] = k BY <1>7, <1>15, <2>2, <3>4
      <4>2. t \in UsersOf(l)' BY <2>2, <4>1 DEF UsersOf, User
      <4> QED BY <2>1, <4>2
    <3> QED BY <3>2, <3>3, <3>4
  <2> QED BY <2>1, <2>2
<1>17. PICK freed : /\ Released(freed, valid1)
                    /\ \A k \in LF : k[1] = l /\ map[k] \in drop => map'[k] = None
  <2>1. CASE Collect(l, drop, valid1)
    <3>1. lunsvc'[l] = 0 => \A k \in LF : k[1] = l /\ map[k] # None => svc'[map[k]] = 0 BY <1>16
    <3>2. \E freed : /\ Released(freed, valid1)
                     /\ \A q \in freed : svc'[q] = 0
                     /\ \A k \in LF : k[1] = l /\ map[k] \in drop => map'[k] = None
      <4>1. drop \in SUBSET {map[lf]} OBVIOUS
      <4>2. drop # {} => svc'[map[lf]] = 0 OBVIOUS
      <4>3. lf \in LF /\ l \in Lun /\ lf[1] = l /\ map[lf] # None BY <1>2
      <4>4. valid1 \in SUBSET LF BY <1>7
      <4>5. \A k \in valid1 : map[k] # None BY <1>7
      <4>6. TypeOK /\ MapAndOwnersAgree BY <1>1
      <4> QED BY ONLY <2>1, <3>1, <4>1, <4>2, <4>3, <4>4, <4>5, <4>6, CollectReleases
    <3> QED BY <3>2
  <2>2. CASE valid1 = valid /\ drop = {} /\ UNCHANGED <<size, waiting, map, valid, owner, freelist>>
    <3>1. Released({}, valid) BY <2>2, NotUnmapped
    <3> QED BY <2>2, <3>1
  <2> QED BY <2>1, <2>2
<1>18. size' \in [Lun -> LunSize \cup {0}] /\ waiting' \in [Lun -> BOOLEAN]
       /\ \A k \in Lun : size'[k] = size[k] \/ (k = l /\ lunsvc'[l] = 0)
  <2>1. CASE Collect(l, drop, valid1) /\ ~UNCHANGED <<size, waiting>>
    <3>1. /\ lunsvc'[l] = 0 /\ size' = [size EXCEPT ![l] = 0]
          /\ waiting' = [waiting EXCEPT ![l] = FALSE]
      BY <2>1 DEF Collect, Purge
    <3>2. size' \in [Lun -> LunSize \cup {0}] BY <3>1 DEF TypeOK
    <3>3. waiting' \in [Lun -> BOOLEAN] BY <3>1 DEF TypeOK
    <3>4. \A k \in Lun : size'[k] = size[k] \/ k = l BY <3>1 DEF TypeOK
    <3> QED BY <3>1, <3>2, <3>3, <3>4
  <2>2. CASE UNCHANGED <<size, waiting>> BY <2>2 DEF TypeOK
  <2> QED BY <2>1, <2>2
<1>19. ASSUME NEW k \in Lun, UsersOf(k)' # {} PROVE size'[k] > 0
  <2>1. UsersOf(k) # {} BY <1>5, <1>19
  <2>2. size[k] > 0 BY <1>1, <2>1 DEF Covered
  <2> QED BY <1>16, <1>18, <1>19, <2>2
<1>20. ASSUME NEW k \in LF, map'[k] # None, k \notin valid1
       PROVE  svc'[map[k]] = 1 /\ \E t \in Task : upf'[t] # None /\ ulf'[t] = k
  <2>1. map[k] # None BY <1>17, <1>20 DEF Released, Unmap
  <2>2. k # lf BY <1>2, <1>17, <1>20
  <2> QED BY <1>7, <1>15, <1>20, <2>1, <2>2
<1>21. Unfinished' /\ Covered'
  <2>1. lunsvc' \in [Lun -> Int] BY <1>12
  <2> QED BY <1>7, <1>14, <1>17, <1>19, <1>20, <2>1, Settle
<1>22. Maps' BY <1>4, <1>7, <1>17, UnmapMaps DEF Maps, Removing
<1>23. TypeOK'
  <2>1. /\ map' \in [LF -> Pfid \cup {None}] /\ valid' \subseteq LF
        /\ owner' \in [Pfid -> LF \cup {None}] /\ freelist' \subseteq Pfid
    BY <1>7, <1>17, UnmapTypes
  <2>2. /\ upc' \in [User -> {"idle", "read", "chosen", "fill", "store", "leaked"}]
        /\ ulf' \in [User -> LF \cup {None}] /\ upf' \in [User -> Pfid \cup {None}]
    BY <1>1, Leaves
  <2>3. cdev' \subseteq Cdev /\ bitmap' \in [Pfid -> SUBSET Page] BY DEF TypeOK
  <2> QED BY <1>12, <1>18, <2>1, <2>2, <2>3 DEF TypeOK
<1> QED BY <1>4, <1>21, <1>22, <1>23 DEF Counts

\* What a step of the engine keeps; reads start only on devices that are there.
NewReads ==
    \A r \in Reader : upc'[r] = "read" =>
        (upc[r] = "read" /\ upf'[r] = upf[r]) \/ upf'[r][1] \in cdev
Good == TypeOK /\ Maps /\ Counts
Keeps == Good' /\ NewReads

\* A step that changes no mapping and no count, and lets at most one request go.
LEMMA AsideStep ==
    ASSUME Good, Meanwhile,
           UNCHANGED <<size, waiting, lunsvc, map, valid, cdev, owner, bitmap, svc, freelist>>,
           upc' \in [User -> {"idle", "read", "chosen", "fill", "store", "leaked"}],
           ulf' \in [User -> LF \cup {None}], upf' \in [User -> Pfid \cup {None}],
           HShape', rmdev # None => SceUnlocked',
           NEW u \in User, \A v \in User : v # u => ulf'[v] = ulf[v] /\ upf'[v] = upf[v],
           upf'[u] = None \/ (upf'[u] = upf[u] /\ ulf'[u] = ulf[u]),
           u \in Task /\ upf[u] # None /\ upf'[u] = None => map[ulf[u]] = None \/ ulf[u] \in valid
    PROVE  Good'
<1>1. TypeOK /\ Maps /\ HShape /\ Unfinished /\ Covered BY DEF Good, Counts
<1>2. TypeOK' BY <1>1 DEF TypeOK
<1>3. valid \in SUBSET LF /\ \A lf \in valid : map[lf] # None BY <1>1 DEF TypeOK, Maps, Linking
<1>4. Released({}, valid) BY <1>1, NotUnmapped
<1>5. Maps' BY <1>1, <1>3, <1>4, UnmapMaps
<1>6. ASSUME NEW l \in Lun
      PROVE  /\ UsersOf(l)' = UsersOf(l) \/ UsersOf(l)' = UsersOf(l) \ {u}
             /\ TasksOf(l)' = UsersOf(l)' \cap Task
  BY DEF UsersOf, TasksOf
<1>7. ASSUME NEW l \in Lun
      PROVE  Covers(lunsvc'[l], UsersOf(l)', TasksOf(l)', Tok(valid, map, svc', l))
  <2>1. Covers(lunsvc[l], UsersOf(l), TasksOf(l), Tok(valid, map, svc, l)) BY <1>1 DEF Covered
  <2>2. UsersOf(l) \in SUBSET User /\ TasksOf(l) \in SUBSET User /\ lunsvc[l] \in Int
    BY <1>1 DEF UsersOf, TasksOf, TypeOK
  <2>3. CASE UsersOf(l)' = UsersOf(l)
    <3>1. TasksOf(l)' = TasksOf(l) BY <2>3 DEF TasksOf
    <3> QED BY <2>1, <2>3, <3>1
  <2>4. CASE UsersOf(l)' = UsersOf(l) \ {u}
    <3>1. TasksOf(l)' = TasksOf(l) \ {u} BY <2>4 DEF TasksOf
    <3>2. Covers(lunsvc[l], UsersOf(l) \ {u}, TasksOf(l) \ {u}, Tok(valid, map, svc, l))
      BY <2>1, <2>2, CoversLeft
    <3> QED BY <2>4, <3>1, <3>2
  <2> QED BY <1>6, <2>3, <2>4
<1>8. ASSUME NEW l \in Lun, UsersOf(l)' # {} PROVE size'[l] > 0
  <2>1. UsersOf(l) # {} BY <1>6, <1>8
  <2> QED BY <1>1, <2>1 DEF Covered
<1>9. ASSUME NEW lf \in LF, map'[lf] # None, lf \notin valid
      PROVE  svc'[map[lf]] = 1 /\ \E t \in Task : upf'[t] # None /\ ulf'[t] = lf
  <2>1. PICK t \in Task : upf[t] # None /\ ulf[t] = lf BY <1>1, <1>9 DEF Unfinished
  <2>2. svc[map[lf]] = 1 BY <1>1, <1>9 DEF Unfinished
  <2>3. upf'[t] # None /\ ulf'[t] = lf
    <3>1. CASE t = u BY <1>9, <2>1, <3>1
    <3>2. CASE t # u BY <2>1, <3>2 DEF User
    <3> QED BY <3>1, <3>2
  <2> QED BY <2>2, <2>3
<1>10. lunsvc' \in [Lun -> Int] BY <1>1 DEF TypeOK
<1>11. Unfinished' /\ Covered' BY <1>1, <1>3, <1>4, <1>7, <1>8, <1>9, <1>10, Settle
<1> QED BY <1>2, <1>5, <1>11 DEF Good, Counts

\* A request leaves and its counts stay.
LEMMA LeftStep ==
    ASSUME Good, Meanwhile, NEW u \in User, Finish(u),
           UNCHANGED <<size, waiting, lunsvc, map, valid, cdev, owner, bitmap, svc, freelist>>,
           u \in Task /\ upf[u] # None => map[ulf[u]] = None \/ ulf[u] \in valid
    PROVE  Keeps
<1>1. TypeOK /\ HShape BY DEF Good, Counts
<1>2. /\ upc' \in [User -> {"idle", "read", "chosen", "fill", "store", "leaked"}]
      /\ ulf' \in [User -> LF \cup {None}] /\ upf' \in [User -> Pfid \cup {None}]
      /\ \A v \in User : v # u => upc'[v] = upc[v] /\ ulf'[v] = ulf[v] /\ upf'[v] = upf[v]
      /\ upc'[u] = "idle" /\ ulf'[u] = None /\ upf'[u] = None
      /\ HShape' /\ (SceUnlocked => SceUnlocked')
  BY <1>1, Leaves
<1>3. rmdev # None => SceUnlocked' BY <1>2 DEF Good, Maps, Removing
<1>4. Good' BY <1>2, <1>3, AsideStep
<1>5. NewReads BY <1>2 DEF NewReads, User
<1> QED BY <1>4, <1>5 DEF Keeps

\* A request in flight moves on or gets stuck.
LEMMA MovesStep ==
    ASSUME Good, Meanwhile, NEW u \in User, NEW pc \in {"store", "leaked"},
           upc[u] \in Holding, pc = "store" => u \in Task,
           upc' = [upc EXCEPT ![u] = pc],
           UNCHANGED <<size, waiting, lunsvc, map, valid, cdev, owner, bitmap, svc, freelist, ulf, upf>>
    PROVE  Keeps
<1>1. TypeOK /\ HShape BY DEF Good, Counts
<1>2. upc' \in [User -> {"idle", "read", "chosen", "fill", "store", "leaked"}] BY <1>1 DEF TypeOK
<1>3. (\A v \in User : v # u => upc'[v] = upc[v]) /\ upc'[u] = pc BY <1>1 DEF TypeOK
<1>4. HShape' BY <1>1, <1>3 DEF HShape, Holding
<1>5. SceUnlocked => SceUnlocked' BY <1>3 DEF SceUnlocked, User
<1>6. rmdev # None => SceUnlocked' BY <1>5 DEF Good, Maps, Removing
<1>7. ulf' \in [User -> LF \cup {None}] /\ upf' \in [User -> Pfid \cup {None}] BY <1>1 DEF TypeOK
<1>8. Good' BY <1>2, <1>4, <1>6, <1>7, AsideStep
<1>9. NewReads BY <1>3 DEF NewReads, User
<1> QED BY <1>8, <1>9 DEF Keeps

LEMMA HChooseStep ==
    ASSUME Good, Meanwhile, NEW t \in Task, NEW lf \in LF, Choose(t, lf), rmdev = None
    PROVE  Keeps
<1>1. TypeOK /\ HShape /\ t \in User BY DEF Good, Counts, User
<1>2. /\ upc' = [upc EXCEPT ![t] = "chosen"]
      /\ ulf' = [ulf EXCEPT ![t] = lf]
      /\ upf' = [upf EXCEPT ![t] = None]
      /\ upc[t] = "idle"
      /\ UNCHANGED <<size, waiting, lunsvc, map, valid, cdev, owner, bitmap, svc, freelist>>
  BY DEF Choose, Become, lunvars, mapvars, fragvars
<1>3. /\ upc' \in [User -> {"idle", "read", "chosen", "fill", "store", "leaked"}]
      /\ ulf' \in [User -> LF \cup {None}] /\ upf' \in [User -> Pfid \cup {None}]
  BY <1>1, <1>2 DEF TypeOK
<1>4. /\ \A v \in User : v # t => upc'[v] = upc[v] /\ ulf'[v] = ulf[v] /\ upf'[v] = upf[v]
      /\ upc'[t] = "chosen" /\ ulf'[t] = lf /\ upf'[t] = None
  BY <1>1, <1>2 DEF TypeOK
<1>5. upf[t] = None BY <1>1, <1>2 DEF HShape, Holding
<1>6. lf # None BY SceAssumption
<1>7. HShape' BY <1>1, <1>4, <1>6 DEF HShape, Holding
<1>8. Good' BY <1>1, <1>2, <1>3, <1>4, <1>5, <1>7, AsideStep
<1>9. NewReads BY <1>4 DEF NewReads, User
<1> QED BY <1>8, <1>9 DEF Keeps

\* The three ways to be counted down, and the ways not to be.
LEMMA HPutReadStep == ASSUME Good, Meanwhile, NEW r \in Reader, PutRead(r) PROVE Keeps
<1>1. TypeOK /\ Maps /\ Counts /\ HShape /\ r \in User BY DEF Good, Counts, User
<1>2. upc[r] = "read" /\ Finish(r) /\ UNCHANGED <<cdev, bitmap>> BY DEF PutRead
<1>3. upf[r] # None BY <1>1, <1>2 DEF HShape, Holding
<1>4. PICK lf : lf = ulf[r] OBVIOUS
<1>5. PICK l : l = lf[1] OBVIOUS
<1>6. PICK p : p = map[lf] OBVIOUS
<1>7. CASE CanPutRead(lf) /\ PutReadOk(r, lf, p)
  <2>1. p # None /\ lf \in valid /\ svc[p] > 0 BY <1>6, <1>7 DEF CanPutRead
  <2>2. p \in Pfid BY <1>1, <1>6, <2>1 DEF TypeOK
  <2>3. svc' = [svc EXCEPT ![p] = @ - 1] /\ lunsvc' = [lunsvc EXCEPT ![l] = @ - 1]
    BY <1>5, <1>7 DEF PutReadOk
  <2>4. svc' \in [Pfid -> Nat] /\ svc'[p] = svc[p] - 1 /\ \A q \in Pfid : q # p => svc'[q] = svc[q]
    BY <1>1, <2>1, <2>2, <2>3 DEF TypeOK
  <2>5. PICK drop \in SUBSET {p} :
            /\ drop # {} => svc'[p] = 0
            /\ \/ Collect(l, drop, valid)
               \/ drop = {} /\ UNCHANGED <<size, waiting, map, valid, owner, freelist>>
    <3>1. CASE svc'[p] = 0 /\ Collect(l, {q \in {p} : Dead(q)}, valid)
      <4>1. {q \in {p} : Dead(q)} \in SUBSET {p} OBVIOUS
      <4> QED BY <3>1, <4>1
    <3>2. CASE UNCHANGED <<size, waiting, map, valid, owner, freelist>>
      <4>1. {} \in SUBSET {p} OBVIOUS
      <4> QED BY <3>2, <4>1
    <3> QED BY <1>5, <1>7, <3>1, <3>2 DEF PutReadOk, mapvars
  <2>6. Good'
    <3>1. PICK valid1 : valid1 = valid OBVIOUS
    <3> QED BY <1>1, <1>2, <1>3, <1>4, <1>5, <1>6, <2>1, <2>3, <2>4, <2>5, <3>1, ReleaseStep DEF Good
  <2>7. NewReads BY <1>1, <1>2, Leaves DEF NewReads, User
  <2> QED BY <2>6, <2>7 DEF Keeps
<1>8. CASE UNCHANGED <<lunvars, mapvars, owner, svc, freelist>>
  <2>1. UNCHANGED <<size, waiting, lunsvc, map, valid, owner, svc, freelist>>
    BY <1>8 DEF lunvars, mapvars
  <2> QED BY <1>1, <1>2, <2>1, LeftStep, SceAssumption
<1> QED BY <1>4, <1>6, <1>7, <1>8 DEF PutRead

LEMMA HPutPopOkStep == ASSUME Good, Meanwhile, NEW t \in Task, PutPopOk(t) PROVE Keeps
<1>1. TypeOK /\ Maps /\ Counts /\ HShape /\ Unfinished /\ t \in User BY DEF Good, Counts, User
<1>2. upc[t] = "store" /\ Finish(t) /\ UNCHANGED <<cdev, bitmap>> BY DEF PutPopOk
<1>3. upf[t] # None /\ ulf[t] # None BY <1>1, <1>2 DEF HShape, Holding
<1>4. PICK lf \in LF : lf = ulf[t] BY <1>1, <1>3 DEF TypeOK
<1>5. PICK l : l = lf[1] OBVIOUS
<1>6. PICK p : p = map[lf] OBVIOUS
<1>7. CASE CanComplete(lf) /\ Completed(lf, p)
  <2>1. p # None BY <1>6, <1>7 DEF CanComplete
  <2>2. p \in Pfid BY <1>1, <1>6, <2>1 DEF TypeOK
  <2>3. svc' = (IF lf \in valid THEN svc ELSE [svc EXCEPT ![p] = 0])
        /\ lunsvc' = [lunsvc EXCEPT ![l] = @ - 1]
    BY <1>5, <1>7 DEF Completed
  <2>4. /\ svc' \in [Pfid -> Nat] /\ \A q \in Pfid : q # p => svc'[q] = svc[q]
        /\ svc'[p] = IF lf \in valid THEN svc[p] ELSE 0
    BY <1>1, <2>2, <2>3 DEF TypeOK
  <2>5. PICK valid1 : valid1 = valid \cup {lf} OBVIOUS
  <2>6. lf \in valid => valid1 = valid BY <2>5
  <2>7. PICK drop \in SUBSET {p} : (drop # {} => svc'[p] = 0) /\ Collect(l, drop, valid1)
    <3>1. PICK drop : drop = {q \in {p} : Dead(q)} OBVIOUS
    <3>2. drop \in SUBSET {p} /\ (drop # {} => svc'[p] = 0) BY <3>1 DEF Dead
    <3>3. Collect(l, drop, valid1) BY <1>5, <1>7, <2>5, <3>1 DEF Completed
    <3> QED BY <3>2, <3>3
  <2>8. Good'
    BY <1>1, <1>2, <1>3, <1>4, <1>5, <1>6, <2>1, <2>3, <2>4, <2>5, <2>6, <2>7, ReleaseStep DEF Good
  <2>9. NewReads BY <1>1, <1>2, Leaves DEF NewReads, User
  <2> QED BY <2>8, <2>9 DEF Keeps
<1>8. CASE ~CanComplete(lf) /\ UNCHANGED <<lunvars, mapvars, owner, svc, freelist>>
  <2>1. UNCHANGED <<size, waiting, lunsvc, map, valid, owner, svc, freelist>>
    BY <1>8 DEF lunvars, mapvars
  <2>2. map[lf] = None \/ lf \in valid BY <1>1, <1>8 DEF CanComplete, Unfinished
  <2> QED BY <1>1, <1>2, <1>4, <2>1, <2>2, LeftStep
<1> QED BY <1>4, <1>6, <1>7, <1>8 DEF PutPopOk

LEMMA HPutPopFailedStep == ASSUME Good, Meanwhile, NEW t \in Task, PutPopFailed(t) PROVE Keeps
<1>1. TypeOK /\ Maps /\ Counts /\ HShape /\ Unfinished /\ t \in User BY DEF Good, Counts, User
<1>2. upc[t] = "store" /\ Finish(t) /\ UNCHANGED <<cdev, bitmap>> BY DEF PutPopFailed
<1>3. upf[t] # None /\ ulf[t] # None BY <1>1, <1>2 DEF HShape, Holding
<1>4. PICK lf \in LF : lf = ulf[t] BY <1>1, <1>3 DEF TypeOK
<1>5. PICK l : l = lf[1] OBVIOUS
<1>6. PICK p : p = map[lf] OBVIOUS
<1>7. CASE CanCancel(lf) /\ Cancelled(lf, p)
  <2>1. p # None /\ lf \notin valid BY <1>6, <1>7 DEF CanCancel
  <2>2. p \in Pfid BY <1>1, <1>6, <2>1 DEF TypeOK
  <2>3. svc' = [svc EXCEPT ![p] = 0] /\ lunsvc' = [lunsvc EXCEPT ![l] = @ - 1]
    BY <1>5, <1>7 DEF Cancelled
  <2>4. /\ svc' \in [Pfid -> Nat] /\ \A q \in Pfid : q # p => svc'[q] = svc[q]
        /\ svc'[p] = 0
    BY <1>1, <2>2, <2>3 DEF TypeOK
  <2>5. PICK valid1 : valid1 = valid OBVIOUS
  <2>6. PICK drop \in SUBSET {p} : drop = {p} OBVIOUS
  <2>7. Collect(l, drop, valid1) BY <1>5, <1>7, <2>5, <2>6 DEF Cancelled
  <2>8. Good'
    BY <1>1, <1>2, <1>3, <1>4, <1>5, <1>6, <2>1, <2>3, <2>4, <2>5, <2>6, <2>7, ReleaseStep DEF Good
  <2>9. NewReads BY <1>1, <1>2, Leaves DEF NewReads, User
  <2> QED BY <2>8, <2>9 DEF Keeps
<1>8. CASE ~CanCancel(lf) /\ UNCHANGED <<lunvars, mapvars, owner, svc, freelist>>
  <2>1. UNCHANGED <<size, waiting, lunsvc, map, valid, owner, svc, freelist>>
    BY <1>8 DEF lunvars, mapvars
  <2>2. map[lf] = None \/ lf \in valid BY <1>1, <1>8 DEF CanCancel, Unfinished
  <2> QED BY <1>1, <1>2, <1>4, <2>1, <2>2, LeftStep
<1> QED BY <1>4, <1>6, <1>7, <1>8 DEF PutPopFailed
-----------------------------------------------------------------------------
(* Requests and tasks that take a fragment. *)

LEMMA HGetReadStep ==
    ASSUME Good, Meanwhile, NEW r \in Reader, NEW l \in Lun, NEW f \in Frag, NEW a, NEW b,
           GetRead(r, l, f, a, b)
    PROVE  Keeps
<1>1. TypeOK /\ Maps /\ HShape /\ Unfinished /\ Covered /\ MapAndOwnersAgree /\ r \in User
  BY DEF Good, Counts, Maps, User
<1>2. PICK lf \in LF : lf = <<l, f>> BY DEF LF
<1>3. lf[1] = l BY <1>2
<1>4. PICK p : p = map[lf] OBVIOUS
<1>5. /\ upc[r] = "idle" /\ size[l] > 0 /\ p # None /\ lf \in valid
      /\ svc' = [svc EXCEPT ![p] = @ + 1]
      /\ lunsvc' = [lunsvc EXCEPT ![l] = @ + 1]
      /\ Become(r, "read", lf, p)
      /\ UNCHANGED <<size, waiting, map, valid, cdev, owner, bitmap, freelist>>
  BY <1>2, <1>4 DEF GetRead, Serviceable, mapvars
<1>6. p \in Pfid /\ p[1] \in cdev /\ owner[p] = lf BY <1>1, <1>4, <1>5, Mapped
<1>7. upf[r] = None BY <1>1, <1>5 DEF HShape, Holding
<1>8. /\ upc' = [upc EXCEPT ![r] = "read"]
      /\ ulf' = [ulf EXCEPT ![r] = lf]
      /\ upf' = [upf EXCEPT ![r] = p]
  BY <1>5 DEF Become
<1>9. /\ \A v \in User : v # r => upc'[v] = upc[v] /\ ulf'[v] = ulf[v] /\ upf'[v] = upf[v]
      /\ upc'[r] = "read" /\ ulf'[r] = lf /\ upf'[r] = p
  BY <1>1, <1>8 DEF TypeOK
<1>10. lf # None /\ p # None BY <1>6, SceAssumption
<1>11. HShape' BY <1>1, <1>9, <1>10 DEF HShape, Holding
<1>12. SceUnlocked => SceUnlocked' BY <1>9 DEF SceUnlocked, User
<1>13. /\ \A k \in Lun : UsersOf(k)' = IF k = l THEN UsersOf(k) \cup {r} ELSE UsersOf(k)
       /\ r \notin UsersOf(l)
  BY <1>1, <1>3, <1>5, <1>6, <1>7, Gain
<1>14. r \notin Task BY SceAssumption
<1>15. \A k \in Lun : TasksOf(k)' = TasksOf(k) BY <1>13, <1>14 DEF TasksOf
<1>16. svc[p] \in Nat /\ lunsvc[l] \in Nat BY <1>1, <1>6 DEF TypeOK
<1>17. /\ svc' \in [Pfid -> Nat] /\ svc'[p] = svc[p] + 1 /\ \A q \in Pfid : q # p => svc'[q] = svc[q]
       /\ lunsvc' \in [Lun -> Nat] /\ lunsvc'[l] = lunsvc[l] + 1
       /\ \A k \in Lun : k # l => lunsvc'[k] = lunsvc[k]
  BY <1>1, <1>5, <1>6, <1>16 DEF TypeOK
<1>18. valid \in SUBSET LF /\ \A k \in valid : map[k] # None BY <1>1 DEF TypeOK, Maps, Linking
<1>19. \A k \in LF : map[k] = p => k = lf
  <2> TAKE k \in LF
  <2> HAVE map[k] = p
  <2> QED BY <1>1, <1>6, <1>10, Mapped
<1>20. PICK x : x = <<lf, svc[p] + 1>> OBVIOUS
<1>21. ASSUME NEW k \in Lun
       PROVE  /\ k # l => Tok(valid, map, svc', k) \subseteq Tok(valid, map, svc, k)
              /\ Tok(valid, map, svc', l) \subseteq Tok(valid, map, svc, l) \cup {x}
  <2>1. ASSUME NEW m \in Lun, NEW y \in Tok(valid, map, svc', m)
        PROVE  y \in Tok(valid, map, svc, m) \/ (y = x /\ m = l)
    <3>1. y \in valid \X Nat /\ y[1][1] = m /\ 1 <= y[2] /\ y[2] <= svc'[map[y[1]]] BY <2>1 DEF Tok
    <3>2. y[1] \in LF /\ map[y[1]] \in Pfid BY <1>1, <1>18, <3>1, Mapped
    <3>3. CASE y[1] = lf
      <4>1. y = <<lf, y[2]>> /\ m = l BY <1>3, <3>1, <3>3
      <4>2. y[2] <= svc[p] \/ y[2] = svc[p] + 1 BY <1>4, <1>16, <1>17, <3>1, <3>3
      <4> QED BY <1>4, <1>20, <3>1, <3>3, <4>1, <4>2 DEF Tok
    <3>4. CASE y[1] # lf
      <4>1. svc'[map[y[1]]] = svc[map[y[1]]] BY <1>17, <1>19, <3>2, <3>4
      <4> QED BY <3>1, <4>1 DEF Tok
    <3> QED BY <3>3, <3>4
  <2> QED BY <2>1
<1>22. ASSUME NEW k \in Lun
       PROVE  Covers(lunsvc'[k], UsersOf(k)', TasksOf(k)', Tok(valid, map, svc', k))
  <2>1. Covers(lunsvc[k], UsersOf(k), TasksOf(k), Tok(valid, map, svc, k)) BY <1>1 DEF Covered
  <2>2. UsersOf(k) \in SUBSET User /\ TasksOf(k) \in SUBSET User /\ lunsvc[k] \in Int
    BY <1>1 DEF UsersOf, TasksOf, TypeOK
  <2>3. CASE k = l
    <3>1. Covers(lunsvc[k] + 1, UsersOf(k) \cup {r}, TasksOf(k), Tok(valid, map, svc, k) \cup {x})
      BY <1>1, <1>13, <2>1, <2>2, <2>3, CoversMore
    <3>2. lunsvc[k] + 1 \in Int BY <2>2
    <3>3. Covers(lunsvc[k] + 1, UsersOf(k) \cup {r}, TasksOf(k), Tok(valid, map, svc', k))
      BY <1>21, <2>2, <2>3, <3>1, <3>2, CoversLess
    <3> QED BY <1>13, <1>15, <1>17, <2>3, <3>3
  <2>4. CASE k # l BY <1>13, <1>15, <1>17, <1>21, <2>1, <2>2, <2>4, CoversLess
  <2> QED BY <2>3, <2>4
<1>23. ASSUME NEW k \in Lun, UsersOf(k)' # {} PROVE size'[k] > 0
  BY <1>1, <1>5, <1>13, <1>23 DEF Covered
<1>24. ASSUME NEW k \in LF, map'[k] # None, k \notin valid
       PROVE  svc'[map[k]] = 1 /\ \E t \in Task : upf'[t] # None /\ ulf'[t] = k
  <2>1. PICK t \in Task : upf[t] # None /\ ulf[t] = k BY <1>1, <1>5, <1>24 DEF Unfinished
  <2>2. svc[map[k]] = 1 BY <1>1, <1>5, <1>24 DEF Unfinished
  <2>3. map[k] \in Pfid /\ map[k] # p BY <1>1, <1>5, <1>19, <1>24, Mapped
  <2>4. upf'[t] # None /\ ulf'[t] = k BY <1>9, <1>14, <2>1 DEF User
  <2> QED BY <1>17, <2>2, <2>3, <2>4
<1>25. Released({}, valid) BY <1>1, <1>5, NotUnmapped
<1>26. lunsvc' \in [Lun -> Int] BY <1>17
<1>27. Unfinished' /\ Covered' BY <1>1, <1>18, <1>22, <1>23, <1>24, <1>25, <1>26, Settle
<1>28. rmdev # None => SceUnlocked' BY <1>1, <1>12 DEF Maps, Removing
<1>29. Maps' BY <1>1, <1>5, <1>18, <1>25, <1>28, UnmapMaps
<1>30. TypeOK'
  <2>1. /\ upc' \in [User -> {"idle", "read", "chosen", "fill", "store", "leaked"}]
        /\ ulf' \in [User -> LF \cup {None}] /\ upf' \in [User -> Pfid \cup {None}]
    BY <1>1, <1>6, <1>8 DEF TypeOK
  <2>2. UNCHANGED <<size, waiting, map, valid, cdev, owner, bitmap, freelist>> BY <1>5
  <2> QED BY <1>1, <1>17, <2>1, <2>2 DEF TypeOK
<1>31. NewReads BY <1>6, <1>9 DEF NewReads, User
<1> QED BY <1>11, <1>27, <1>29, <1>30, <1>31 DEF Keeps, Good, Counts

\* Only a LUN with a fragmap has fragments.
LEMMA HasFragSize ==
    ASSUME TypeOK, NEW lf \in LF, HasFrag(lf[1], lf[2])
    PROVE  size[lf[1]] > 0
<1>1. lf[1] \in Lun /\ lf[2] \in Nat /\ SctrPerFrag \in Nat BY SceAssumption DEF LF, Frag, SctrPerFrag
<1>2. lf[2] * SctrPerFrag \in Nat /\ MaxFrag * SctrPerFrag \in Nat BY <1>1, SceAssumption
<1>3. lf[2] * SctrPerFrag < size[lf[1]] BY DEF HasFrag
<1>4. size[lf[1]] \in Nat
  <2>1. LunSize \subseteq Nat BY <1>2, SceAssumption
  <2>2. size[lf[1]] \in LunSize \cup {0} BY <1>1 DEF TypeOK
  <2>3. 0 \in Nat OBVIOUS
  <2> QED BY <2>1, <2>2, <2>3, Zenon
<1> QED BY <1>2, <1>3, <1>4

\* A task maps its fragment onto p, be it free or taken from another.
LEMMA AllocStep ==
    ASSUME Good, Meanwhile, rmdev = None, NEW t \in Task, upc[t] = "chosen",
           NEW lf, lf = ulf[t], CanMap(lf), NEW p \in Pfid, p[1] \in cdev, MapFrag(t, lf, p),
           map' \in [LF -> Pfid \cup {None}], map'[lf] = p,
           \A k \in LF : k # lf => map'[k] = IF map[k] = p THEN None ELSE map[k],
           valid' = {k \in valid : map[k] # p}, freelist' = freelist \ {p},
           UNCHANGED <<size, waiting, cdev>>
    PROVE  Keeps
<1>1. TypeOK /\ Maps /\ HShape /\ Unfinished /\ Covered /\ MapAndOwnersAgree /\ t \in User
  BY DEF Good, Counts, Maps, User
<1>2. lf \in LF /\ lf[1] \in Lun /\ lf # None
  <2>1. lf # None BY <1>1 DEF HShape
  <2>2. lf \in LF BY <1>1, <2>1 DEF TypeOK
  <2> QED BY <2>1, <2>2 DEF LF
<1>3. PICK l \in Lun : l = lf[1] BY <1>2
<1>4. /\ bitmap' = [bitmap EXCEPT ![p] = Padding(lf[1], lf[2])]
      /\ owner' = [owner EXCEPT ![p] = lf]
      /\ svc' = [svc EXCEPT ![p] = 1]
      /\ lunsvc' = [lunsvc EXCEPT ![l] = @ + 1]
      /\ Become(t, "fill", lf, p)
  BY <1>3 DEF MapFrag
<1>5. p # None /\ map[lf] = None /\ HasFrag(lf[1], lf[2]) BY SceAssumption DEF CanMap
<1>6. upf[t] = None BY <1>1 DEF HShape, Holding
<1>7. /\ upc' = [upc EXCEPT ![t] = "fill"]
      /\ ulf' = [ulf EXCEPT ![t] = lf]
      /\ upf' = [upf EXCEPT ![t] = p]
  BY <1>4 DEF Become
<1>8. /\ \A v \in User : v # t => upc'[v] = upc[v] /\ ulf'[v] = ulf[v] /\ upf'[v] = upf[v]
      /\ upc'[t] = "fill" /\ ulf'[t] = lf /\ upf'[t] = p
  BY <1>1, <1>7 DEF TypeOK
<1>9. HShape' BY <1>1, <1>2, <1>5, <1>8 DEF HShape, Holding
<1>10. /\ \A k \in Lun : UsersOf(k)' = IF k = l THEN UsersOf(k) \cup {t} ELSE UsersOf(k)
       /\ t \notin UsersOf(l)
  <2>1. /\ \A k \in Lun : UsersOf(k)' = IF k = lf[1] THEN UsersOf(k) \cup {t} ELSE UsersOf(k)
        /\ t \notin UsersOf(lf[1])
    BY ONLY <1>1, <1>2, <1>4, <1>6, p \in Pfid, Gain
  <2> QED BY <1>3, <2>1
<1>11. \A k \in Lun : TasksOf(k)' = IF k = l THEN TasksOf(k) \cup {t} ELSE TasksOf(k)
  BY <1>10 DEF TasksOf
<1>12. lunsvc[l] \in Nat BY <1>1 DEF TypeOK
<1>13. /\ svc' \in [Pfid -> Nat] /\ svc'[p] = 1 /\ \A q \in Pfid : q # p => svc'[q] = svc[q]
       /\ lunsvc' \in [Lun -> Nat] /\ lunsvc'[l] = lunsvc[l] + 1
       /\ \A k \in Lun : k # l => lunsvc'[k] = lunsvc[k]
  BY <1>1, <1>4, <1>12 DEF TypeOK
<1>14. /\ owner' \in [Pfid -> LF \cup {None}] /\ owner'[p] = lf
       /\ \A q \in Pfid : q # p => owner'[q] = owner[q]
  BY <1>1, <1>2, <1>4 DEF TypeOK
<1>15. valid \in SUBSET LF /\ \A k \in valid : map[k] # None BY <1>1 DEF TypeOK, Maps, Linking
<1>16. \A k \in valid' : k \in valid /\ k # lf /\ map'[k] = map[k] /\ map[k] # p /\ map[k] \in Pfid
  <2> SUFFICES ASSUME NEW k \in valid'
               PROVE  k \in valid /\ k # lf /\ map'[k] = map[k] /\ map[k] # p /\ map[k] \in Pfid
    OBVIOUS
  <2>1. k \in valid /\ k \in LF /\ map[k] # p /\ map[k] # None /\ k # lf BY <1>5, <1>15
  <2> QED BY <1>1, <2>1, Mapped
<1>17. ASSUME NEW k \in Lun PROVE Tok(valid', map', svc', k) \subseteq Tok(valid, map, svc, k)
  <2> SUFFICES ASSUME NEW y \in Tok(valid', map', svc', k) PROVE y \in Tok(valid, map, svc, k)
    OBVIOUS
  <2>1. y \in valid' \X Nat /\ y[1][1] = k /\ 1 <= y[2] /\ y[2] <= svc'[map'[y[1]]] BY DEF Tok
  <2>2. y[1] \in valid /\ svc'[map'[y[1]]] = svc[map[y[1]]] BY <1>13, <1>16, <2>1
  <2> QED BY <2>1, <2>2 DEF Tok
<1>18. ASSUME NEW k \in Lun
       PROVE  Covers(lunsvc'[k], UsersOf(k)', TasksOf(k)', Tok(valid', map', svc', k))
  <2>1. Covers(lunsvc[k], UsersOf(k), TasksOf(k), Tok(valid, map, svc, k)) BY <1>1 DEF Covered
  <2>2. UsersOf(k) \in SUBSET User /\ TasksOf(k) \in SUBSET User /\ lunsvc[k] \in Int
    BY <1>1 DEF UsersOf, TasksOf, TypeOK
  <2>3. Covers(lunsvc'[k], UsersOf(k)', TasksOf(k)', Tok(valid, map, svc, k))
    <3>1. CASE k = l
      <4>1. t \notin TasksOf(k) /\ t \in User \ UsersOf(k) BY <1>1, <1>10, <3>1 DEF TasksOf
      <4>2. Covers(lunsvc[k] + 1, UsersOf(k) \cup {t}, TasksOf(k) \cup {t}, Tok(valid, map, svc, k))
        BY <2>1, <2>2, <4>1, CoversMore
      <4> QED BY <1>10, <1>11, <1>13, <3>1, <4>2
    <3>2. CASE k # l BY <1>10, <1>11, <1>13, <2>1, <3>2
    <3> QED BY <3>1, <3>2
  <2>4. lunsvc'[k] \in Int /\ TasksOf(k)' \subseteq User BY <1>13 DEF TasksOf, UsersOf
  <2> QED BY <1>17, <2>3, <2>4, CoversLess
<1>19. size[l] > 0 BY <1>1, <1>2, <1>3, <1>5, HasFragSize
<1>20. Covered'
  <2>1. ASSUME NEW k \in Lun, UsersOf(k)' # {} PROVE size'[k] > 0
    BY <1>1, <1>10, <1>19, <2>1 DEF Covered
  <2> QED BY <1>18, <2>1 DEF Covered
<1>21. Unfinished'
  <2>1. SUFFICES ASSUME NEW k \in LF, map'[k] # None, k \notin valid'
                 PROVE  svc'[map'[k]] = 1 /\ \E v \in Task : upf'[v] # None /\ ulf'[v] = k
    BY DEF Unfinished
  <2>2. CASE k = lf BY <1>5, <1>8, <1>13, <2>2
  <2>3. CASE k # lf
    <3>1. map'[k] = map[k] /\ map[k] # p /\ map[k] # None /\ k \notin valid BY <2>1, <2>3
    <3>2. map[k] \in Pfid BY <1>1, <3>1, Mapped
    <3>3. PICK v \in Task : upf[v] # None /\ ulf[v] = k BY <1>1, <3>1 DEF Unfinished
    <3>4. svc[map[k]] = 1 BY <1>1, <3>1 DEF Unfinished
    <3>5. v # t /\ v \in User BY <1>6, <3>3 DEF User
    <3>6. upf'[v] # None /\ ulf'[v] = k BY <1>8, <3>3, <3>5
    <3> QED BY <1>13, <3>1, <3>2, <3>4, <3>6
  <2> QED BY <2>2, <2>3
<1>22. MapAndOwnersAgree'
  <2>1. ASSUME NEW k \in LF, map'[k] # None
        PROVE  map'[k][1] \in cdev' /\ owner'[map'[k]] = k /\ HasFrag(k[1], k[2])'
    <3>1. CASE k = lf BY <1>5, <1>14, <3>1 DEF HasFrag
    <3>2. CASE k # lf
      <4>1. map'[k] = map[k] /\ map[k] # p /\ map[k] # None BY <2>1, <3>2
      <4>2. map[k] \in Pfid /\ map[k][1] \in cdev /\ owner[map[k]] = k /\ HasFrag(k[1], k[2])
        BY <1>1, <4>1, Mapped
      <4> QED BY <1>14, <4>1, <4>2 DEF HasFrag
    <3> QED BY <3>1, <3>2
  <2>2. ASSUME NEW q \in Pfid, owner'[q] # None, q[1] # rmdev' PROVE map'[owner'[q]] = q
    <3>1. CASE q = p BY <1>14, <3>1
    <3>2. CASE q # p
      <4>1. owner'[q] = owner[q] /\ owner[q] \in LF BY <1>1, <1>14, <2>2, <3>2 DEF TypeOK
      <4>2. q # None /\ map[owner[q]] = q
        BY <1>1, <2>2, <4>1, SceAssumption DEF MapAndOwnersAgree, Meanwhile
      <4>3. owner[q] # lf BY <1>5, <4>2
      <4> QED BY <3>2, <4>1, <4>2, <4>3
    <3> QED BY <3>1, <3>2
  <2> QED BY <2>1, <2>2 DEF MapAndOwnersAgree
<1>23. Linking'
  <2>1. \A k \in valid' : map'[k] # None BY <1>15, <1>16
  <2>2. \A q \in freelist' : owner'[q] = None
    BY <1>1, <1>14 DEF Maps, Linking, TypeOK
  <2> QED BY <2>1, <2>2 DEF Linking
<1>24. Removing'
  <2>1. \A k \in LF : map'[k] # None => map'[k] \in Pfid BY Zenon
  <2>2. \A k \in LF : map'[k] # None => map'[k][1] # None
    BY <2>1, HotplugAssumption DEF Pfid
  <2> QED BY <2>2 DEF Removing, Meanwhile
<1>25. Late' BY <1>1 DEF Maps, Late, Meanwhile
<1>26. TypeOK'
  <2>1. /\ upc' \in [User -> {"idle", "read", "chosen", "fill", "store", "leaked"}]
        /\ ulf' \in [User -> LF \cup {None}] /\ upf' \in [User -> Pfid \cup {None}]
    BY <1>1, <1>2, <1>7 DEF TypeOK
  <2>2. bitmap' \in [Pfid -> SUBSET Page]
    <3>1. Padding(lf[1], lf[2]) \in SUBSET Page BY DEF Padding
    <3> QED BY <1>1, <1>4, <3>1 DEF TypeOK
  <2>3. valid' \subseteq LF /\ freelist' \subseteq Pfid BY <1>1, <1>15 DEF TypeOK
  <2> QED BY <1>1, <1>13, <1>14, <2>1, <2>2, <2>3 DEF TypeOK
<1>27. NewReads BY <1>8, SceAssumption DEF NewReads, User
<1> QED BY <1>9, <1>20, <1>21, <1>22, <1>23, <1>24, <1>25, <1>26, <1>27
        DEF Keeps, Good, Counts, Maps

\* No population is past its choice while a device is being removed.
LEMMA ChosenNoRemoval ==
    ASSUME Good, NEW t \in Task, upc[t] = "chosen"
    PROVE  rmdev = None /\ ulf[t] \in LF /\ None \notin Pfid
<1>1. rmdev = None BY DEF Good, Maps, Removing, SceUnlocked
<1>2. ulf[t] \in LF BY DEF Good, Counts, HShape, TypeOK, User
<1> QED BY <1>1, <1>2, SceAssumption

LEMMA HAllocFreeStep ==
    ASSUME Good, Meanwhile, NEW t \in Task, NEW p \in Pfid, AllocFree(t, p),
           freelist \subseteq cdev \X Off
    PROVE  Keeps
<1>1. PICK lf : lf = ulf[t] OBVIOUS
<1>2. /\ upc[t] = "chosen" /\ CanMap(lf) /\ p \in freelist
      /\ map' = [map EXCEPT ![lf] = p] /\ freelist' = freelist \ {p}
      /\ MapFrag(t, lf, p) /\ UNCHANGED <<size, waiting, valid, cdev>>
  BY <1>1 DEF AllocFree
<1>3. rmdev = None /\ lf \in LF /\ None \notin Pfid BY <1>1, <1>2, ChosenNoRemoval
<1>4. TypeOK /\ MapAndOwnersAgree /\ Linking BY DEF Good, Maps
<1>5. \A k \in LF : map[k] # p
  <2> SUFFICES ASSUME NEW k \in LF, map[k] = p PROVE FALSE OBVIOUS
  <2>1. owner[p] = k BY <1>3, <1>4, Mapped
  <2> QED BY <1>2, <1>4, <2>1, SceAssumption DEF Linking
<1>6. p[1] \in cdev BY <1>2
<1>7. /\ map' \in [LF -> Pfid \cup {None}] /\ map'[lf] = p
      /\ \A k \in LF : k # lf => map'[k] = IF map[k] = p THEN None ELSE map[k]
  BY <1>2, <1>3, <1>4, <1>5 DEF TypeOK
<1>8. valid' = {k \in valid : map[k] # p} BY <1>2, <1>4, <1>5 DEF TypeOK
<1> QED BY <1>1, <1>2, <1>3, <1>6, <1>7, <1>8, AllocStep

LEMMA HAllocEvictStep ==
    ASSUME Good, Meanwhile, NEW t \in Task, NEW p \in Pfid, AllocEvict(t, p)
    PROVE  Keeps
<1>1. PICK lf : lf = ulf[t] OBVIOUS
<1>2. PICK k0 : k0 = owner[p] OBVIOUS
<1>3. /\ upc[t] = "chosen" /\ CanMap(lf) /\ freelist = {} /\ k0 # None
      /\ map' = [map EXCEPT ![k0] = None, ![lf] = p] /\ valid' = valid \ {k0}
      /\ MapFrag(t, lf, p) /\ UNCHANGED <<size, waiting, cdev, freelist>>
  BY <1>1, <1>2 DEF AllocEvict, Evictable
<1>4. rmdev = None /\ lf \in LF /\ None \notin Pfid BY <1>1, <1>3, ChosenNoRemoval
<1>5. TypeOK /\ MapAndOwnersAgree /\ Linking BY DEF Good, Maps
<1>6. k0 \in LF /\ map[k0] = p
  <2>1. p[1] # rmdev BY <1>4, HotplugAssumption DEF Pfid
  <2> QED BY <1>2, <1>3, <1>5, <2>1 DEF TypeOK, MapAndOwnersAgree
<1>7. p[1] \in cdev /\ map[lf] = None /\ k0 # lf BY <1>3, <1>4, <1>5, <1>6, Mapped DEF CanMap
<1>8. \A k \in LF : map[k] = p <=> k = k0
  <2> TAKE k \in LF
  <2> SUFFICES ASSUME map[k] = p PROVE k = k0 BY <1>6
  <2> QED BY <1>2, <1>4, <1>5, Mapped
<1>9. /\ map' \in [LF -> Pfid \cup {None}] /\ map'[lf] = p
      /\ \A k \in LF : k # lf => map'[k] = IF map[k] = p THEN None ELSE map[k]
  BY <1>3, <1>4, <1>5, <1>6, <1>7, <1>8 DEF TypeOK
<1>10. valid' = {k \in valid : map[k] # p} BY <1>3, <1>5, <1>8 DEF TypeOK
<1>11. freelist' = freelist \ {p} BY <1>3
<1> QED BY <1>1, <1>3, <1>4, <1>7, <1>9, <1>10, <1>11, AllocStep
-----------------------------------------------------------------------------
(* Writes and configuration. *)

\* A step that leaves the requests alone and unmaps only what it may.
LEMMA UnmapStep ==
    ASSUME Good, Meanwhile, NEW freed, Released(freed, valid),
           UNCHANGED <<lunsvc, cdev, svc, upc, ulf, upf>>,
           size' \in [Lun -> LunSize \cup {0}], waiting' \in [Lun -> BOOLEAN],
           bitmap' \in [Pfid -> SUBSET Page],
           \A l \in Lun : UsersOf(l) # {} => size'[l] > 0
    PROVE  Keeps
<1>1. TypeOK /\ Maps /\ HShape /\ Unfinished /\ Covered /\ MapAndOwnersAgree
  BY DEF Good, Counts, Maps
<1>2. valid \in SUBSET LF /\ \A lf \in valid : map[lf] # None BY <1>1 DEF TypeOK, Maps, Linking
<1>3. rmdev # None => SceUnlocked' BY <1>1 DEF Maps, Removing, SceUnlocked
<1>4. Maps' BY <1>1, <1>2, <1>3, UnmapMaps
<1>5. TypeOK'
  <2>1. /\ map' \in [LF -> Pfid \cup {None}] /\ valid' \subseteq LF
        /\ owner' \in [Pfid -> LF \cup {None}] /\ freelist' \subseteq Pfid
    BY <1>1, <1>2, UnmapTypes
  <2> QED BY <1>1, <2>1 DEF TypeOK
<1>6. \A l \in Lun : UsersOf(l)' = UsersOf(l) /\ TasksOf(l)' = TasksOf(l) BY DEF UsersOf, TasksOf
<1>7. \A l \in Lun : Covers(lunsvc'[l], UsersOf(l)', TasksOf(l)', Tok(valid, map, svc', l))
  BY <1>1, <1>6 DEF Covered
<1>8. \A l \in Lun : UsersOf(l)' # {} => size'[l] > 0 BY <1>6
<1>9. ASSUME NEW lf \in LF, map'[lf] # None, lf \notin valid
      PROVE  svc'[map[lf]] = 1 /\ \E t \in Task : upf'[t] # None /\ ulf'[t] = lf
  <2>1. map[lf] # None BY <1>9 DEF Released, Unmap
  <2> QED BY <1>1, <1>9, <2>1 DEF Unfinished
<1>10. lunsvc' \in [Lun -> Int] BY <1>1 DEF TypeOK
<1>11. Unfinished' /\ Covered' BY <1>1, <1>2, <1>7, <1>8, <1>9, <1>10, Settle
<1>12. HShape' BY <1>1 DEF HShape
<1>13. NewReads BY DEF NewReads
<1> QED BY <1>4, <1>5, <1>11, <1>12, <1>13 DEF Keeps, Good, Counts

LEMMA HInvalidateStep ==
    ASSUME Good, Meanwhile, NEW l \in Lun, NEW a, NEW b, Invalidate(l, a, b)
    PROVE  Keeps
<1>1. TypeOK /\ Covered BY DEF Good, Counts
<1>2. PICK freed : freed = {p \in Pfid : /\ Hit(p, l, a, b) # {}
                                         /\ CanServe(p, l)
                                         /\ svc[p] = 0
                                         /\ bitmap'[p] = Page}
  OBVIOUS
<1>3. /\ bitmap' = [p \in Pfid |-> bitmap[p] \cup Hit(p, l, a, b)]
      /\ Unmap(freed, valid)
      /\ UNCHANGED <<size, waiting, lunsvc, cdev, svc, upc, ulf, upf>>
  BY <1>2 DEF Invalidate, lunvars, uservars
<1>4. \A p \in freed : p \in Pfid /\ \E lf \in LF : map[lf] = p
  BY <1>2 DEF CanServe, FragOn, LF
<1>5. Released(freed, valid) BY <1>3, <1>4 DEF Released
<1>6. bitmap' \in [Pfid -> SUBSET Page]
  <2>1. \A p \in Pfid : Hit(p, l, a, b) \subseteq Page BY DEF Hit, PagesOf
  <2>2. \A p \in Pfid : bitmap[p] \cup Hit(p, l, a, b) \in SUBSET Page BY <1>1, <2>1 DEF TypeOK
  <2> QED BY <1>3, <2>2
<1>7. size' \in [Lun -> LunSize \cup {0}] /\ waiting' \in [Lun -> BOOLEAN] BY <1>1, <1>3 DEF TypeOK
<1>8. \A k \in Lun : UsersOf(k) # {} => size'[k] > 0 BY <1>1, <1>3 DEF Covered
<1> QED BY <1>3, <1>5, <1>6, <1>7, <1>8, UnmapStep

LEMMA HRmLunStep == ASSUME Good, Meanwhile, NEW l \in Lun, RmLun(l) PROVE Keeps
<1>1. TypeOK /\ Unfinished /\ Covered /\ MapAndOwnersAgree /\ Linking BY DEF Good, Counts, Maps
<1>2. valid \in SUBSET LF /\ \A lf \in valid : map[lf] # None BY <1>1 DEF TypeOK, Linking
<1>3. UNCHANGED <<lunsvc, cdev, bitmap, upc, ulf, upf, svc>> BY DEF RmLun, uservars
<1>4. bitmap' \in [Pfid -> SUBSET Page] BY <1>1, <1>3 DEF TypeOK
<1>5. CASE waiting' = [waiting EXCEPT ![l] = TRUE] /\ UNCHANGED <<size, map, valid, owner, freelist>>
  <2>1. Released({}, valid) BY <1>1, <1>5, NotUnmapped
  <2>2. size' \in [Lun -> LunSize \cup {0}] BY <1>1, <1>5 DEF TypeOK
  <2>3. waiting' \in [Lun -> BOOLEAN] BY <1>1, <1>5 DEF TypeOK
  <2>4. \A k \in Lun : UsersOf(k) # {} => size'[k] > 0 BY <1>1, <1>5 DEF Covered
  <2> QED BY <1>3, <1>4, <2>1, <2>2, <2>3, <2>4, UnmapStep
<1>6. CASE lunsvc[l] = 0 /\ Purge(l, valid)
  <2>1. UsersOf(l) = {} /\ Tok(valid, map, svc, l) = {}
    <3>1. Covers(lunsvc[l], UsersOf(l), TasksOf(l), Tok(valid, map, svc, l)) BY <1>1 DEF Covered
    <3>2. UsersOf(l) \in SUBSET User /\ TasksOf(l) \in SUBSET User BY DEF UsersOf, TasksOf
    <3> QED BY <1>6, <3>1, <3>2, CoversNone
  <2>2. ASSUME NEW lf \in LF, lf[1] = l, map[lf] # None PROVE svc'[map[lf]] = 0
    <3>1. svc[map[lf]] \in Nat BY <1>1, <2>2 DEF TypeOK
    <3>2. CASE lf \in valid
      <4>1. svc[map[lf]] # 0 => <<lf, 1>> \in Tok(valid, map, svc, l) BY <2>2, <3>1, <3>2 DEF Tok
      <4> QED BY <1>3, <2>1, <4>1
    <3>3. CASE lf \notin valid
      <4>1. PICK t \in Task : upf[t] # None /\ ulf[t] = lf BY <1>1, <2>2, <3>3 DEF Unfinished
      <4>2. t \in UsersOf(l) BY <2>2, <4>1 DEF UsersOf, User
      <4> QED BY <2>1, <4>2
    <3> QED BY <3>2, <3>3
  <2>3. \E freed : Released(freed, valid)
    <3>1. \A lf \in LF : lf[1] = l /\ map[lf] # None => svc'[map[lf]] = 0 BY <2>2
    <3>2. Purge(l, valid) BY <1>6
    <3>3. \E freed : /\ Released(freed, valid)
                     /\ \A p \in freed : svc'[p] = 0
                     /\ \A lf \in LF : lf[1] = l => map'[lf] = None
      BY ONLY <1>1, <1>2, <3>1, <3>2, l \in Lun, PurgeReleases
    <3> QED BY <3>3
  <2>4. PICK freed : Released(freed, valid) BY <2>3
  <2>5. size' = [size EXCEPT ![l] = 0] /\ waiting' = [waiting EXCEPT ![l] = FALSE]
    BY <1>6 DEF Purge
  <2>6. size' \in [Lun -> LunSize \cup {0}] BY <1>1, <2>5 DEF TypeOK
  <2>7. waiting' \in [Lun -> BOOLEAN] BY <1>1, <2>5 DEF TypeOK
  <2>8. \A k \in Lun : UsersOf(k) # {} => size'[k] > 0 BY <1>1, <2>1, <2>5 DEF Covered, TypeOK
  <2> QED BY <1>3, <1>4, <2>4, <2>6, <2>7, <2>8, UnmapStep
<1> QED BY <1>5, <1>6 DEF RmLun, mapvars

LEMMA HAddLunStep ==
    ASSUME Good, Meanwhile, NEW l \in Lun, NEW n \in LunSize, AddLun(l, n)
    PROVE  Keeps
<1>1. TypeOK /\ Covered /\ MapAndOwnersAgree BY DEF Good, Counts, Maps
<1>2. /\ size[l] = 0 /\ size' = [size EXCEPT ![l] = n]
      /\ UNCHANGED <<waiting, lunsvc, map, valid, cdev, owner, bitmap, svc, freelist, upc, ulf, upf>>
  BY DEF AddLun, mapvars, fragvars, uservars
<1>3. ASSUME NEW lf \in LF, map[lf] # None PROVE size'[lf[1]] = size[lf[1]]
  <2>1. size[lf[1]] > 0 BY <1>1, <1>3, Mapped, HasFragSize
  <2>2. lf[1] # l BY <1>2, <2>1
  <2>3. lf[1] \in Lun BY DEF LF
  <2> QED BY <1>1, <1>2, <2>2, <2>3 DEF TypeOK
<1>4. Released({}, valid) BY <1>1, <1>2, <1>3, NotUnmapped
<1>5. size' \in [Lun -> LunSize \cup {0}] BY <1>1, <1>2 DEF TypeOK
<1>6. waiting' \in [Lun -> BOOLEAN] /\ bitmap' \in [Pfid -> SUBSET Page] BY <1>1, <1>2 DEF TypeOK
<1>7. ASSUME NEW k \in Lun, UsersOf(k) # {} PROVE size'[k] > 0
  <2>1. size[k] > 0 BY <1>1, <1>7 DEF Covered
  <2>2. k # l BY <1>2, <2>1
  <2> QED BY <1>1, <1>2, <2>1, <2>2 DEF TypeOK
<1> QED BY <1>2, <1>4, <1>5, <1>6, <1>7, UnmapStep

\* A device joins a slot of which the free list names nothing.
LEMMA HAddCdevStep ==
    ASSUME Good, Meanwhile, NEW c \in Cdev, AddCdev(c), rmdev = None
    PROVE  Keeps
<1>1. TypeOK /\ Maps /\ HShape /\ Unfinished /\ Covered /\ MapAndOwnersAgree /\ Linking /\ Late
  BY DEF Good, Counts, Maps
<1>2. /\ c \notin cdev /\ cdev' = cdev \cup {c}
      /\ freelist' = freelist \cup ({c} \X Off)
      /\ owner' = [p \in Pfid |-> IF p[1] = c THEN None ELSE owner[p]]
      /\ UNCHANGED <<size, waiting, lunsvc, map, valid, bitmap, svc, upc, ulf, upf>>
  BY DEF AddCdev, lunvars, mapvars, uservars
<1>3. TypeOK'
  <2>1. owner' \in [Pfid -> LF \cup {None}] BY <1>1, <1>2 DEF TypeOK
  <2>2. cdev' \subseteq Cdev /\ freelist' \subseteq Pfid BY <1>1, <1>2 DEF TypeOK, Pfid
  <2> QED BY <1>1, <1>2, <2>1, <2>2 DEF TypeOK
<1>4. MapAndOwnersAgree'
  <2>1. ASSUME NEW lf \in LF, map'[lf] # None
        PROVE  map'[lf][1] \in cdev' /\ owner'[map'[lf]] = lf /\ HasFrag(lf[1], lf[2])'
    <3>1. map[lf] \in Pfid /\ map[lf][1] \in cdev /\ owner[map[lf]] = lf /\ HasFrag(lf[1], lf[2])
      BY <1>1, <1>2, <2>1, Mapped
    <3> QED BY <1>2, <3>1 DEF HasFrag
  <2>2. ASSUME NEW p \in Pfid, owner'[p] # None, p[1] # rmdev' PROVE map'[owner'[p]] = p
    BY <1>1, <1>2, <2>2 DEF MapAndOwnersAgree, Meanwhile
  <2> QED BY <2>1, <2>2 DEF MapAndOwnersAgree
<1>5. Linking' BY <1>1, <1>2 DEF Linking, TypeOK, Pfid
<1>6. Removing' BY <1>1, <1>2 DEF Maps, Removing, Meanwhile, SceUnlocked
<1>7. Late'
  <2>1. SUFFICES ASSUME NEW p \in freelist', p[1] \notin cdev' \/ p[1] = rmdev' PROVE p \in returned'
    BY DEF Late
  <2>2. p[1] \in Cdev BY <1>1, <1>2 DEF TypeOK, Pfid
  <2>3. p[1] # rmdev' BY <2>2, HotplugAssumption DEF Meanwhile
  <2>4. p \in freelist /\ p[1] \notin cdev BY <1>2, <2>1, <2>3
  <2> QED BY <1>1, <2>4 DEF Late, Meanwhile
<1>8. HShape' /\ Unfinished' BY <1>1, <1>2 DEF HShape, Unfinished
<1>9. Covered' BY <1>1, <1>2 DEF Covered, UsersOf, TasksOf
<1>10. NewReads BY <1>2 DEF NewReads
<1> QED BY <1>3, <1>4, <1>5, <1>6, <1>7, <1>8, <1>9, <1>10 DEF Keeps, Good, Maps, Counts
-----------------------------------------------------------------------------
(* The removal. *)

LEMMA RmCdevStartStep == ASSUME HIInv, NEW c \in Cdev, RmCdevStart(c) PROVE HIInv'
<1>1. TypeOK /\ Maps /\ Counts /\ Draining /\ gone = {} /\ HTypeOK BY DEF HIInv, HTypeOK
<1>2. /\ SceUnlocked /\ rmdev = None /\ draining = None /\ removals < MaxRemovals /\ c \in cdev
      /\ freelist' = freelist \ OnDev(c) /\ rmdev' = c /\ rmleft' = Lun /\ removals' = removals + 1
      /\ UNCHANGED <<size, waiting, lunsvc, map, valid, cdev, owner, bitmap, svc, upc, ulf, upf,
                     draining, waited, online, gone, returned>>
  BY DEF RmCdevStart, CtlFree, lunvars, mapvars, uservars
<1>3. TypeOK' BY <1>1, <1>2 DEF TypeOK
<1>4. HTypeOK'
  <2>1. removals' \in 0 .. MaxRemovals BY <1>1, <1>2, HotplugAssumption DEF HTypeOK
  <2> QED BY <1>1, <1>2, <1>3, <2>1 DEF HTypeOK
<1>5. MapAndOwnersAgree'
  <2>1. \A p \in Pfid : p[1] # rmdev BY <1>2, HotplugAssumption DEF Pfid
  <2> QED BY <1>1, <1>2, <2>1 DEF Maps, MapAndOwnersAgree, HasFrag
<1>6. Linking' BY <1>1, <1>2 DEF Maps, Linking
<1>7. Removing' BY <1>1, <1>2 DEF Removing, SceUnlocked, LF
<1>8. Late'
  <2>1. SUFFICES ASSUME NEW p \in freelist', p[1] \notin cdev \/ p[1] = c PROVE p \in returned
    BY <1>2 DEF Late
  <2>2. p \in freelist /\ p \in Pfid /\ p \notin OnDev(c) BY <1>1, <1>2 DEF TypeOK
  <2>3. p[1] # c BY <2>2 DEF OnDev, Pfid
  <2> QED BY <1>1, <2>1, <2>2, <2>3 DEF Maps, Late
<1>9. Counts'
  <2>1. HShape' /\ Unfinished' BY <1>1, <1>2 DEF Counts, HShape, Unfinished
  <2>2. Covered' BY <1>1, <1>2 DEF Counts, Covered, UsersOf, TasksOf
  <2> QED BY <2>1, <2>2 DEF Counts
<1>10. Draining' BY <1>1, <1>2 DEF Draining
<1> QED BY <1>1, <1>2, <1>4, <1>5, <1>6, <1>7, <1>8, <1>9, <1>10 DEF HIInv, Maps

LEMMA RmCdevLunStep == ASSUME HIInv, NEW l \in Lun, RmCdevLun(l) PROVE HIInv'
<1>1. TypeOK /\ Maps /\ Counts /\ Draining /\ gone = {} /\ HTypeOK /\ MapAndOwnersAgree
  BY DEF HIInv, HTypeOK, Maps
<1>2. /\ rmdev # None /\ l \in rmleft
      /\ map' = [lf \in LF |-> IF lf[1] = l /\ map[lf] \in OnDev(rmdev) THEN None ELSE map[lf]]
      /\ valid' = {lf \in valid : map'[lf] # None}
      /\ rmleft' = rmleft \ {l}
      /\ UNCHANGED <<size, waiting, lunsvc, cdev, owner, bitmap, svc, freelist, upc, ulf, upf,
                     rmdev, draining, waited, online, gone, returned, removals>>
  BY DEF RmCdevLun, lunvars, fragvars, uservars
<1>3. TypeOK'
  <2>1. map' \in [LF -> Pfid \cup {None}] BY <1>1, <1>2 DEF TypeOK
  <2>2. valid' \subseteq LF BY <1>1, <1>2 DEF TypeOK
  <2> QED BY <1>1, <1>2, <2>1, <2>2 DEF TypeOK
<1>4. HTypeOK' BY <1>1, <1>2, <1>3 DEF HTypeOK
<1>5. \A lf \in LF : map'[lf] # None => map'[lf] = map[lf] BY <1>2
<1>6. MapAndOwnersAgree'
  <2>1. ASSUME NEW lf \in LF, map'[lf] # None
        PROVE  map'[lf][1] \in cdev' /\ owner'[map'[lf]] = lf /\ HasFrag(lf[1], lf[2])'
    <3>1. map[lf] \in Pfid /\ map[lf][1] \in cdev /\ owner[map[lf]] = lf /\ HasFrag(lf[1], lf[2])
      BY <1>1, <1>5, <2>1, Mapped
    <3> QED BY <1>2, <1>5, <2>1, <3>1 DEF HasFrag
  <2>2. ASSUME NEW p \in Pfid, owner'[p] # None, p[1] # rmdev' PROVE map'[owner'[p]] = p
    <3>1. owner[p] \in LF /\ map[owner[p]] = p BY <1>1, <1>2, <2>2 DEF MapAndOwnersAgree, TypeOK
    <3>2. p \notin OnDev(rmdev) BY <1>2, <2>2 DEF OnDev
    <3> QED BY <1>2, <3>1, <3>2
  <2> QED BY <2>1, <2>2 DEF MapAndOwnersAgree
<1>7. Linking' BY <1>1, <1>2 DEF Maps, Linking
<1>8. Removing'
  <2>1. SceUnlocked' /\ draining' = None BY <1>1, <1>2 DEF Maps, Removing, SceUnlocked
  <2>2. ASSUME NEW lf \in LF, map'[lf] # None, map'[lf][1] = rmdev PROVE lf[1] \in rmleft'
    <3>1. map[lf] \in Pfid /\ map[lf][1] = rmdev BY <1>1, <1>5, <2>2, Mapped
    <3>2. map[lf] \in OnDev(rmdev) BY <3>1 DEF OnDev, Pfid
    <3>3. lf[1] # l BY <1>2, <2>2, <3>2
    <3>4. lf[1] \in rmleft BY <1>1, <1>5, <2>2, <3>1 DEF Maps, Removing
    <3> QED BY <1>2, <3>3, <3>4
  <2> QED BY <1>2, <2>1, <2>2 DEF Removing
<1>9. Late' BY <1>1, <1>2 DEF Maps, Late
<1>10. HShape' /\ Unfinished'
  <2>1. HShape' BY <1>1, <1>2 DEF Counts, HShape
  <2>2. Unfinished'
    <3>1. \A lf \in LF : map'[lf] # None /\ lf \notin valid' => lf \notin valid BY <1>2
    <3> QED BY <1>1, <1>2, <1>5, <3>1 DEF Counts, Unfinished
  <2> QED BY <2>1, <2>2
<1>11. Covered'
  <2>1. ASSUME NEW k \in Lun
        PROVE  Covers(lunsvc'[k], UsersOf(k)', TasksOf(k)', Tok(valid', map', svc', k))
    <3>1. Covers(lunsvc[k], UsersOf(k), TasksOf(k), Tok(valid, map, svc, k)) /\ lunsvc[k] \in Int
      BY <1>1 DEF Counts, Covered, TypeOK
    <3>2. UsersOf(k)' = UsersOf(k) /\ TasksOf(k)' = TasksOf(k) /\ TasksOf(k) \subseteq User
      BY <1>2 DEF UsersOf, TasksOf
    <3>3. \A lf \in valid' : lf \in valid /\ map'[lf] = map[lf] BY <1>1, <1>2, <1>5 DEF TypeOK
    <3>4. Tok(valid', map', svc', k) \subseteq Tok(valid, map, svc, k) BY <1>2, <3>3 DEF Tok
    <3> QED BY <1>2, <3>1, <3>2, <3>4, CoversLess
  <2>2. \A k \in Lun : UsersOf(k)' # {} => size'[k] > 0
    BY <1>1, <1>2 DEF Counts, Covered, UsersOf
  <2> QED BY <2>1, <2>2 DEF Covered
<1>12. Draining' BY <1>1, <1>2 DEF Draining, ReadsOn
<1> QED BY <1>1, <1>2, <1>4, <1>6, <1>7, <1>8, <1>9, <1>10, <1>11, <1>12 DEF HIInv, Maps, Counts

LEMMA RmCdevEndStep == ASSUME HIInv, RmCdevEnd PROVE HIInv'
<1>1. TypeOK /\ Maps /\ Counts /\ Draining /\ gone = {} /\ HTypeOK /\ MapAndOwnersAgree
  BY DEF HIInv, HTypeOK, Maps
<1>2. /\ rmdev # None /\ rmleft = {}
      /\ cdev' = cdev \ {rmdev}
      /\ owner' = [p \in Pfid |-> IF p \in OnDev(rmdev) THEN None ELSE owner[p]]
      /\ bitmap' = [p \in Pfid |-> IF p \in OnDev(rmdev) THEN {} ELSE bitmap[p]]
      /\ svc' = [p \in Pfid |-> IF p \in OnDev(rmdev) THEN 0 ELSE svc[p]]
      /\ rmdev' = None /\ draining' = rmdev
      /\ UNCHANGED <<size, waiting, lunsvc, map, valid, freelist, upc, ulf, upf,
                     rmleft, waited, online, gone, returned, removals>>
  BY DEF RmCdevEnd, lunvars, mapvars, uservars
<1>3. \A p \in Pfid : p \in OnDev(rmdev) <=> p[1] = rmdev BY DEF OnDev, Pfid
<1>4. \A p \in Pfid : p[1] # rmdev => owner'[p] = owner[p] /\ svc'[p] = svc[p] BY <1>2, <1>3
<1>5. \A lf \in LF : map[lf] # None => map[lf] \in Pfid /\ map[lf][1] # rmdev
  <2> TAKE lf \in LF
  <2> HAVE map[lf] # None
  <2> QED BY <1>1, <1>2, Mapped DEF Maps, Removing
<1>6. TypeOK'
  <2>1. owner' \in [Pfid -> LF \cup {None}] BY <1>1, <1>2 DEF TypeOK
  <2>2. bitmap' \in [Pfid -> SUBSET Page] BY <1>1, <1>2 DEF TypeOK
  <2>3. svc' \in [Pfid -> Nat] BY <1>1, <1>2 DEF TypeOK
  <2>4. cdev' \subseteq Cdev BY <1>1, <1>2 DEF TypeOK
  <2> QED BY <1>1, <1>2, <2>1, <2>2, <2>3, <2>4 DEF TypeOK
<1>7. HTypeOK' BY <1>1, <1>2, <1>6 DEF HTypeOK
<1>8. MapAndOwnersAgree'
  <2>1. ASSUME NEW lf \in LF, map'[lf] # None
        PROVE  map'[lf][1] \in cdev' /\ owner'[map'[lf]] = lf /\ HasFrag(lf[1], lf[2])'
    <3>1. map[lf] \in Pfid /\ map[lf][1] \in cdev /\ owner[map[lf]] = lf /\ HasFrag(lf[1], lf[2])
      BY <1>1, <1>2, <2>1, Mapped
    <3> QED BY <1>2, <1>4, <1>5, <2>1, <3>1 DEF HasFrag
  <2>2. ASSUME NEW p \in Pfid, owner'[p] # None PROVE map'[owner'[p]] = p
    <3>1. p[1] # rmdev BY <1>2, <1>3, <2>2
    <3> QED BY <1>1, <1>2, <1>4, <2>2, <3>1 DEF MapAndOwnersAgree
  <2> QED BY <2>1, <2>2 DEF MapAndOwnersAgree
<1>9. Linking'
  <2>1. \A p \in freelist' : owner'[p] = None BY <1>1, <1>2 DEF Maps, Linking, TypeOK
  <2> QED BY <1>1, <1>2, <2>1 DEF Maps, Linking
<1>10. Removing'
  <2>1. \A lf \in LF : map'[lf] # None => map'[lf][1] # None
    BY <1>2, <1>5, HotplugAssumption DEF Pfid
  <2> QED BY <1>2, <2>1 DEF Removing
<1>11. Late'
  <2>1. SUFFICES ASSUME NEW p \in freelist, p[1] \notin cdev' \/ p[1] = None PROVE p \in returned
    BY <1>2 DEF Late
  <2>2. p[1] # None BY <1>1, HotplugAssumption DEF TypeOK, Pfid
  <2> QED BY <1>1, <1>2, <2>1, <2>2 DEF Maps, Late
<1>12. HShape' /\ Unfinished'
  <2>1. HShape' BY <1>1, <1>2 DEF Counts, HShape
  <2>2. Unfinished' BY <1>1, <1>2, <1>4, <1>5 DEF Counts, Unfinished
  <2> QED BY <2>1, <2>2
<1>13. Covered'
  <2>1. ASSUME NEW k \in Lun
        PROVE  Covers(lunsvc'[k], UsersOf(k)', TasksOf(k)', Tok(valid', map', svc', k))
    <3>1. Covers(lunsvc[k], UsersOf(k), TasksOf(k), Tok(valid, map, svc, k)) /\ lunsvc[k] \in Int
      BY <1>1 DEF Counts, Covered, TypeOK
    <3>2. UsersOf(k)' = UsersOf(k) /\ TasksOf(k)' = TasksOf(k) /\ TasksOf(k) \subseteq User
      BY <1>2 DEF UsersOf, TasksOf
    <3>3. \A lf \in valid : svc'[map[lf]] = svc[map[lf]]
      BY <1>1, <1>4, <1>5 DEF TypeOK, Maps, Linking
    <3>4. Tok(valid', map', svc', k) \subseteq Tok(valid, map, svc, k) BY <1>2, <3>3 DEF Tok
    <3> QED BY <1>2, <3>1, <3>2, <3>4, CoversLess
  <2>2. \A k \in Lun : UsersOf(k)' # {} => size'[k] > 0
    BY <1>1, <1>2 DEF Counts, Covered, UsersOf
  <2> QED BY <2>1, <2>2 DEF Covered
<1>14. Draining' BY <1>1, <1>2 DEF Draining, Maps, Removing
<1> QED BY <1>1, <1>2, <1>7, <1>8, <1>9, <1>10, <1>11, <1>12, <1>13, <1>14 DEF HIInv, Maps, Counts

\* Waiting for nr_ref and freeing ssd_info.
LEMMA UnloadStep ==
    ASSUME HIInv, NEW c \in Cdev, DrainSsd(c) \/ FreeSsd(c)
    PROVE  HIInv'
<1>1. TypeOK /\ Maps /\ Counts /\ Draining /\ gone = {} /\ HTypeOK BY DEF HIInv, HTypeOK
<1>2. /\ UNCHANGED <<size, waiting, lunsvc, map, valid, cdev, owner, bitmap, svc, freelist,
                     upc, ulf, upf, rmdev, rmleft, returned, removals>>
      /\ draining = c /\ draining' \in {draining, None} /\ online' \subseteq online
  BY DEF DrainSsd, FreeSsd, vars, lunvars, mapvars, fragvars, uservars
<1>3. gone' = {}
  <2>1. CASE DrainSsd(c) BY <1>1, <2>1 DEF DrainSsd
  <2>2. CASE FreeSsd(c) BY <1>1, <1>2, <2>2 DEF FreeSsd, Draining
  <2> QED BY <2>1, <2>2
<1>4. waited' \in BOOLEAN
  <2>1. CASE DrainSsd(c) BY <2>1 DEF DrainSsd
  <2>2. CASE FreeSsd(c) BY <2>2 DEF FreeSsd
  <2> QED BY <2>1, <2>2
<1>5. Draining'
  <2>1. c # None BY HotplugAssumption
  <2>2. CASE DrainSsd(c)
    <3>1. waited' = TRUE /\ draining' = c /\ ReadsOn(c) = {} BY <1>2, <2>2 DEF DrainSsd
    <3>2. ReadsOn(c)' = ReadsOn(c) BY <1>2 DEF ReadsOn
    <3> QED BY <1>1, <1>2, <2>1, <3>1, <3>2 DEF Draining, ReadsOn
  <2>3. CASE FreeSsd(c) BY <2>3 DEF FreeSsd, Draining
  <2> QED BY <2>2, <2>3
<1>6. TypeOK' BY <1>1, <1>2 DEF TypeOK
<1>7. HTypeOK' BY <1>1, <1>2, <1>3, <1>4, <1>6 DEF HTypeOK
<1>8. MapAndOwnersAgree' /\ Linking' /\ Late'
  BY <1>1, <1>2 DEF Maps, MapAndOwnersAgree, HasFrag, Linking, Late
<1>9. Removing' BY <1>1, <1>2 DEF Maps, Removing, SceUnlocked
<1>10. HShape' /\ Unfinished' BY <1>1, <1>2 DEF Counts, HShape, Unfinished
<1>11. Covered' BY <1>1, <1>2 DEF Counts, Covered, UsersOf, TasksOf
<1> QED BY <1>3, <1>5, <1>7, <1>8, <1>9, <1>10, <1>11 DEF HIInv, Maps, Counts
-----------------------------------------------------------------------------
(* The invariant. *)

LEMMA InitHIInv == HInit => HIInv
<1> SUFFICES ASSUME HInit PROVE HIInv OBVIOUS
<1>1. Init /\ rmdev = None /\ rmleft = {} /\ draining = None /\ waited = FALSE
      /\ online = {} /\ gone = {} /\ returned = {} /\ removals = 0
  BY DEF HInit
<1>2. TypeOK BY <1>1, InitIInv DEF IInv
<1>3. HTypeOK
  <2>1. 0 \in 0 .. MaxRemovals BY HotplugAssumption
  <2> QED BY <1>1, <1>2, <2>1 DEF HTypeOK
<1>4. (\A lf \in LF : map[lf] = None) /\ (\A p \in Pfid : owner[p] = None)
      /\ valid = {} /\ freelist = {}
      /\ (\A u \in User : upc[u] = "idle" /\ upf[u] = None)
      /\ (\A l \in Lun : lunsvc[l] = 0)
  BY <1>1 DEF Init
<1>5. MapAndOwnersAgree /\ Linking /\ Late BY <1>4 DEF MapAndOwnersAgree, Linking, Late
<1>6. Removing BY <1>1, <1>4 DEF Removing
<1>7. HShape /\ Unfinished BY <1>4 DEF HShape, Unfinished, Holding
<1>8. Covered
  <2> SUFFICES ASSUME NEW l \in Lun
               PROVE  /\ Covers(lunsvc[l], UsersOf(l), TasksOf(l), Tok(valid, map, svc, l))
                      /\ UsersOf(l) # {} => size[l] > 0
    BY DEF Covered
  <2>1. UsersOf(l) = {} /\ TasksOf(l) = {} BY <1>4 DEF UsersOf, TasksOf
  <2>2. Tok(valid, map, svc, l) = {} BY <1>4 DEF Tok
  <2>3. IsFiniteSet({}) /\ Cardinality({}) = 0 BY FS_EmptySet
  <2> QED BY <1>4, <2>1, <2>2, <2>3 DEF Covers
<1>9. Draining BY <1>1 DEF Draining
<1> QED BY <1>1, <1>3, <1>5, <1>6, <1>7, <1>8, <1>9 DEF HIInv, Maps, Counts

\* Every step of the engine keeps what it has to, during a removal or not.
LEMMA HEngineStep ==
    ASSUME Good, Meanwhile, Configure \/ SsdError \/ Serve
    PROVE  Keeps
<1>1. TypeOK /\ HShape BY DEF Good, Counts
<1>2. CASE Configure
  <2>1. ASSUME NEW c \in Cdev, AddCdev(c), CtlFree PROVE Keeps
    BY <2>1, HAddCdevStep DEF CtlFree
  <2>2. ASSUME NEW l \in Lun, RmLun(l) PROVE Keeps BY <2>2, HRmLunStep
  <2>3. ASSUME NEW l \in Lun, NEW n \in LunSize, AddLun(l, n) PROVE Keeps BY <2>3, HAddLunStep
  <2>4. ASSUME NEW t \in Task, NEW lf \in LF, Choose(t, lf), rmdev = None PROVE Keeps
    BY <2>4, HChooseStep
  <2> QED BY <1>2, <2>1, <2>2, <2>3, <2>4 DEF Configure
<1>3. CASE SsdError
  <2>1. PICK r \in Reader : ReadError(r) BY <1>3 DEF SsdError
  <2>2. /\ upc[r] = "read" /\ upc' = [upc EXCEPT ![r] = "leaked"]
        /\ UNCHANGED <<size, waiting, lunsvc, map, valid, cdev, owner, bitmap, svc, freelist, ulf, upf>>
    BY <2>1 DEF ReadError, lunvars, mapvars, fragvars
  <2>3. r \in User /\ upc[r] \in Holding BY <2>2 DEF User, Holding
  <2> QED BY <2>2, <2>3, MovesStep
<1>4. CASE Serve
  <2>1. ASSUME NEW l \in Lun, NEW a \in Sctr, NEW b \in Sctr, Invalidate(l, a, b) PROVE Keeps
    BY <2>1, HInvalidateStep
  <2>2. ASSUME NEW l \in Lun, NEW a \in Sctr, NEW b \in Sctr, NEW r \in Reader, NEW f \in Frag,
               GetRead(r, l, f, a, b)
        PROVE  Keeps
    BY <2>2, HGetReadStep
  <2>3. ASSUME NEW r \in Reader, PutRead(r) PROVE Keeps BY <2>3, HPutReadStep
  <2>4. ASSUME NEW t \in Task, NEW p \in Pfid, freelist \subseteq cdev \X Off, AllocFree(t, p)
        PROVE  Keeps
    BY <2>4, HAllocFreeStep
  <2>5. ASSUME NEW t \in Task, NEW p \in Pfid, AllocEvict(t, p) PROVE Keeps BY <2>5, HAllocEvictStep
  <2>6. ASSUME NEW t \in Task, AllocFail(t) PROVE Keeps
    <3>1. /\ upc[t] = "chosen" /\ Finish(t)
          /\ UNCHANGED <<size, waiting, lunsvc, map, valid, cdev, owner, bitmap, svc, freelist>>
      BY <2>6 DEF AllocFail, lunvars, mapvars, fragvars
    <3>2. t \in User /\ upf[t] = None BY <1>1, <3>1 DEF User, HShape, Holding
    <3> QED BY <3>1, <3>2, LeftStep
  <2>7. ASSUME NEW t \in Task, PopRead(t) PROVE Keeps
    <3>1. /\ upc[t] = "fill" /\ upc' = [upc EXCEPT ![t] = "store"]
          /\ UNCHANGED <<size, waiting, lunsvc, map, valid, cdev, owner, bitmap, svc, freelist, ulf, upf>>
      BY <2>7 DEF PopRead, lunvars, mapvars, fragvars
    <3>2. t \in User /\ upc[t] \in Holding BY <3>1 DEF User, Holding
    <3> QED BY <3>1, <3>2, MovesStep
  <2>8. ASSUME NEW t \in Task, PopReadError(t) PROVE Keeps
    <3>1. /\ upc[t] = "fill" /\ upc' = [upc EXCEPT ![t] = "leaked"]
          /\ UNCHANGED <<size, waiting, lunsvc, map, valid, cdev, owner, bitmap, svc, freelist, ulf, upf>>
      BY <2>8 DEF PopReadError, lunvars, mapvars, fragvars
    <3>2. t \in User /\ upc[t] \in Holding BY <3>1 DEF User, Holding
    <3> QED BY <3>1, <3>2, MovesStep
  <2>9. ASSUME NEW t \in Task, PutPopOk(t) PROVE Keeps BY <2>9, HPutPopOkStep
  <2>10. ASSUME NEW t \in Task, PutPopFailed(t) PROVE Keeps BY <2>10, HPutPopFailedStep
  <2> QED BY <1>4, <2>1, <2>2, <2>3, <2>4, <2>5, <2>6, <2>7, <2>8, <2>9, <2>10 DEF Serve
<1> QED BY <1>2, <1>3, <1>4

\* While a removal goes on no device is added, and no read starts on one that is gone.
LEMMA DrainingKept ==
    ASSUME HTypeOK, Draining, NewReads, UNCHANGED <<draining, waited>>,
           draining # None => cdev' = cdev
    PROVE  Draining'
<1>1. draining # None => draining \notin cdev' BY DEF Draining
<1>2. ASSUME waited PROVE draining # None /\ ReadsOn(draining)' = {}
  <2>1. draining # None /\ ReadsOn(draining) = {} /\ draining \notin cdev BY <1>2 DEF Draining
  <2>2. ASSUME NEW r \in Reader, upc'[r] = "read", upf'[r][1] = draining PROVE FALSE
    <3>1. upc[r] = "read" /\ upf'[r] = upf[r] BY <2>1, <2>2 DEF NewReads
    <3>2. r \in ReadsOn(draining) BY <2>2, <3>1 DEF ReadsOn
    <3> QED BY <2>1, <3>2
  <2> QED BY <2>1, <2>2 DEF ReadsOn
<1> QED BY <1>1, <1>2 DEF Draining, ReadsOn

LEMMA NextHIInv == HIInv /\ [HNext]_hvars => HIInv'
<1> SUFFICES ASSUME HIInv, [HNext]_hvars PROVE HIInv' OBVIOUS
<1>1. HTypeOK /\ TypeOK /\ Maps /\ Counts /\ Good /\ Draining /\ gone = {}
  BY DEF HIInv, HTypeOK, Good
<1>2. ASSUME Configure \/ SsdError \/ Serve, Meanwhile PROVE HIInv'
  <2>1. Good' /\ NewReads BY <1>1, <1>2, HEngineStep DEF Keeps
  <2>2. gone' = {} /\ UNCHANGED <<rmdev, rmleft, draining, waited, removals>>
    BY <1>1, <1>2 DEF Meanwhile
  <2>3. draining # None => cdev' = cdev
    <3>1. CASE Configure
      BY <3>1 DEF Configure, CtlFree, Choose
    <3>2. CASE SsdError BY <3>2 DEF SsdError, ReadError
    <3>3. CASE Serve
      <4>1. \A l, x, y : Invalidate(l, x, y) => cdev' = cdev BY DEF Invalidate
      <4>2. \A r, l, f, x, y : GetRead(r, l, f, x, y) => cdev' = cdev BY DEF GetRead
      <4>3. \A r : PutRead(r) => cdev' = cdev BY DEF PutRead
      <4>4. \A t, p : AllocFree(t, p) \/ AllocEvict(t, p) => cdev' = cdev BY DEF AllocFree, AllocEvict
      <4>5. \A t : AllocFail(t) \/ PopRead(t) \/ PopReadError(t) => cdev' = cdev
        BY DEF AllocFail, PopRead, PopReadError
      <4>6. \A t : PutPopOk(t) \/ PutPopFailed(t) => cdev' = cdev BY DEF PutPopOk, PutPopFailed
      <4> QED BY <3>3, <4>1, <4>2, <4>3, <4>4, <4>5, <4>6 DEF Serve
    <3> QED BY <1>2, <3>1, <3>2, <3>3
  <2>4. Draining' BY <1>1, <2>1, <2>2, <2>3, DrainingKept
  <2>5. online' \subseteq Cdev
    <3>1. CASE Configure BY <1>1, <3>1 DEF Configure, HTypeOK
    <3>2. CASE SsdError BY <1>1, <3>2 DEF SsdError, HTypeOK
    <3>3. CASE Serve BY <1>1, <3>3 DEF Serve, HTypeOK
    <3> QED BY <1>2, <3>1, <3>2, <3>3
  <2>6. returned' \subseteq Pfid
    <3>1. returned' \subseteq freelist' BY <1>2 DEF Meanwhile
    <3>2. freelist' \subseteq Pfid BY <2>1 DEF Good, TypeOK
    <3> QED BY <3>1, <3>2
  <2>7. waited' \in BOOLEAN BY <1>1, <2>2 DEF HTypeOK
  <2>8. HTypeOK' BY <1>1, <2>1, <2>2, <2>5, <2>6, <2>7 DEF HTypeOK, Good
  <2> QED BY <2>1, <2>2, <2>4, <2>8 DEF HIInv, Good
<1>3. ASSUME NEW c \in Cdev, RmCdevStart(c) PROVE HIInv' BY <1>3, RmCdevStartStep
<1>4. ASSUME NEW c \in Cdev, DrainSsd(c) \/ FreeSsd(c) PROVE HIInv' BY <1>4, UnloadStep
<1>5. ASSUME NEW l \in Lun, RmCdevLun(l) PROVE HIInv' BY <1>5, RmCdevLunStep
<1>6. CASE RmCdevEnd BY <1>6, RmCdevEndStep
<1>7. CASE UNCHANGED hvars
  <2>1. UNCHANGED <<size, waiting, lunsvc, map, valid, cdev, owner, bitmap, svc, freelist,
                    upc, ulf, upf, rmdev, rmleft, draining, waited, online, gone, returned, removals>>
    BY <1>7 DEF hvars, hpvars, vars, lunvars, mapvars, fragvars, uservars
  <2>2. TypeOK' BY <1>1, <2>1 DEF TypeOK
  <2>3. HTypeOK' BY <1>1, <2>1, <2>2 DEF HTypeOK
  <2>4. MapAndOwnersAgree' /\ Linking' /\ Late'
    BY <1>1, <2>1 DEF Maps, MapAndOwnersAgree, HasFrag, Linking, Late
  <2>5. Removing' BY <1>1, <2>1 DEF Maps, Removing, SceUnlocked
  <2>6. HShape' /\ Unfinished' BY <1>1, <2>1 DEF Counts, HShape, Unfinished
  <2>7. Covered' BY <1>1, <2>1 DEF Counts, Covered, UsersOf, TasksOf
  <2>8. Draining' /\ gone' = {} BY <1>1, <2>1 DEF Draining, ReadsOn
  <2> QED BY <2>3, <2>4, <2>5, <2>6, <2>7, <2>8 DEF HIInv, Maps, Counts
<1> QED BY <1>2, <1>3, <1>4, <1>5, <1>6, <1>7 DEF HNext, Meanwhile

\* The engine with devices that come and go keeps its inductive invariant.
THEOREM HInvariance == HSpec => []HIInv
BY InitHIInv, NextHIInv, PTL DEF HSpec

\* Type correctness: no service count goes below zero, whatever a removal
\* interleaves with.
THEOREM HTypeCorrect == HSpec => []HTypeOK
<1>1. HIInv => HTypeOK BY DEF HIInv
<1> QED BY <1>1, HInvariance, PTL

\* Mappings lead to devices that are there, and back.
THEOREM MappingsSurvive == HSpec => []MapAndOwnersAgree
<1>1. HIInv => MapAndOwnersAgree BY DEF HIInv, Maps
<1> QED BY <1>1, HInvariance, PTL

\* A LUN with a request in flight counts it and is not purged under it.
THEOREM LunOutlivesUsers == HSpec => []LunCoversUsers
<1>1. HIInv => LunCoversUsers
  BY DEF HIInv, Counts, Covered, Covers, LunCoversUsers
<1> QED BY <1>1, HInvariance, PTL

\* What the free list should not name was put on it during the removal.
THEOREM FreeListExplained == HSpec => []FreeButForReturned
<1>1. HIInv => FreeButForReturned
  <2> SUFFICES ASSUME HIInv, rmdev = None, NEW p \in freelist, p \notin cdev \X Off
               PROVE  p \in returned
    BY DEF FreeButForReturned
  <2>1. p \in Cdev \X Off BY DEF HIInv, HTypeOK, TypeOK, Pfid
  <2>2. p[1] \notin cdev BY <2>1
  <2> QED BY <2>2 DEF HIInv, Maps, Late
<1> QED BY <1>1, HInvariance, PTL

\* After the wait for nr_ref no read is in flight on the SSD that is freed.
THEOREM NoReadOutlivesSsd == HSpec => []ReadsOutliveNoSsd
<1>1. HIInv => ReadsOutliveNoSsd BY DEF HIInv, ReadsOutliveNoSsd
<1> QED BY <1>1, HInvariance, PTL
-----------------------------------------------------------------------------
(* The action property. *)

\* A request that stays in flight stays on its fragment, and its LUN is neither
\* deleted nor given to a target of another size: what is left of HeldIsKept
\* while sce_rmcdev takes fragments from the requests of all LUNs.
LunIsKept ==
    [][\A u \in User : upf[u] # None /\ upf'[u] # None =>
          /\ upf'[u] = upf[u] /\ ulf'[u] = ulf[u]
          /\ size'[ulf[u][1]] = size[ulf[u][1]]]_hvars

\* A step of Hotplug is one of the engine or leaves LUNs and requests alone.
LEMMA HFrame ==
    ASSUME [HNext]_hvars
    PROVE  [Next]_vars \/ UNCHANGED <<lunvars, uservars>>
<1>1. ASSUME Configure \/ SsdError \/ Serve PROVE Next
  <2>1. CASE Configure BY <2>1 DEF Configure, Next
  <2>2. CASE SsdError BY <2>2 DEF SsdError, Next
  <2>3. CASE Serve BY <2>3 DEF Serve, Next
  <2> QED BY <1>1, <2>1, <2>2, <2>3
<1>2. ASSUME NEW c \in Cdev, RmCdevStart(c) \/ DrainSsd(c) \/ FreeSsd(c)
      PROVE  UNCHANGED <<lunvars, uservars>>
  BY <1>2 DEF RmCdevStart, DrainSsd, FreeSsd, vars
<1>3. ASSUME NEW l \in Lun, RmCdevLun(l) PROVE UNCHANGED <<lunvars, uservars>>
  BY <1>3 DEF RmCdevLun
<1>4. CASE RmCdevEnd BY <1>4 DEF RmCdevEnd
<1>5. CASE UNCHANGED hvars BY <1>5 DEF hvars, vars
<1> QED BY <1>1, <1>2, <1>3, <1>4, <1>5 DEF HNext

\* No removal of a device, and nothing that happens during one, takes the LUN
\* from a request that stays in flight.
THEOREM LunUndisturbed == HSpec => LunIsKept
<1>1. HIInv /\ HIInv' /\ [HNext]_hvars =>
        [\A u \in User : upf[u] # None /\ upf'[u] # None =>
          /\ upf'[u] = upf[u] /\ ulf'[u] = ulf[u]
          /\ size'[ulf[u][1]] = size[ulf[u][1]]]_hvars
  <2> SUFFICES ASSUME HIInv, HIInv', [HNext]_hvars, NEW u \in User, upf[u] # None, upf'[u] # None
               PROVE  /\ upf'[u] = upf[u] /\ ulf'[u] = ulf[u]
                      /\ size'[ulf[u][1]] = size[ulf[u][1]]
    OBVIOUS
  <2>1. TypeOK /\ HoldsLun BY DEF HIInv, HTypeOK, Counts, HShape, HoldsLun
  <2>2. CASE UNCHANGED <<lunvars, uservars>> BY <2>2 DEF lunvars, uservars
  <2>3. CASE [Next]_vars
    <3>1. upf'[u] = upf[u] /\ ulf'[u] = ulf[u] BY <2>1, <2>3, StepFrame
    <3>2. ulf[u] \in LF /\ ulf[u][1] \in Lun BY <2>1 DEF HoldsLun, TypeOK, LF
    <3>3. u \in UsersOf(ulf[u][1]) /\ u \in UsersOf(ulf[u][1])'
      BY <3>1 DEF UsersOf
    <3>4. size[ulf[u][1]] > 0 BY <3>2, <3>3 DEF HIInv, Counts, Covered
    <3>5. size'[ulf[u][1]] > 0
      <4>1. \A l \in Lun : UsersOf(l)' # {} => size'[l] > 0 BY DEF HIInv, Counts, Covered
      <4> QED BY <3>1, <3>2, <3>3, <4>1
    <3>6. size'[ulf[u][1]] = size[ulf[u][1]] \/ size'[ulf[u][1]] = 0 \/ size[ulf[u][1]] = 0
      BY <2>1, <2>3, <3>2, StepFrame
    <3> QED BY <3>1, <3>4, <3>5, <3>6
  <2> QED BY <2>2, <2>3, HFrame
<1> QED BY <1>1, HInvariance, PTL DEF HSpec, LunIsKept
=============================================================================
