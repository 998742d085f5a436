--------------------------- MODULE LunLocksProofs ---------------------------
(***************************************************************************)
(* TLAPS proofs about module LunLocks, for any number of LUNs, fragments   *)
(* and entries of the miss log, before and beyond the first race.          *)
(***************************************************************************)
EXTENDS LunLocks, FiniteSetTheorems, TLAPS

\* The thread works on a fragment: moves it to the list, from the list, or
\* has just looked it up.
Putting == {"put", "mark", "link", "head", "inc", "inc_store", "clear", "bug"}
Getting == {"take", "untie", "dec", "dec_store", "map"}
Logging == {"log_inc", "log_store", "log_wrap", "overrun"}

TypeOK ==
    /\ pc \in [Lun -> {"idle", "hit", "unmap", "get", "evict"} \cup Putting \cup Getting \cup Logging]
    /\ pop \subseteq Lun
    /\ arg \in [Lun -> 0 .. NrFrag] /\ vic \in [Lun -> Lun] /\ cnt \in [Lun -> Int]
    /\ map \in [Lun -> SUBSET Frag] /\ mark \in [Frag -> Lun \cup {"list", "free"}]
    /\ svc \in [Frag -> Nat] /\ hold \in [Lun -> 0 .. NrFrag]
    /\ head \in 0 .. NrFrag /\ next \in [Frag -> 0 .. NrFrag] /\ nrFree \in Int
    /\ logHead \in Int
    /\ stolen \subseteq Lun \X Frag /\ raced \in BOOLEAN /\ wrapped \in BOOLEAN
    /\ \A l \in Lun : pc[l] \in {"hit", "unmap"} \cup Putting \cup Getting => arg[l] # 0

-----------------------------------------------------------------------------
(* The head of the miss log. *)

\* Whoever has loaded the head has loaded one within the ring.
Ring ==
    ~wrapped =>
        /\ logHead <= LogSize
        /\ logHead = LogSize => \E l \in Lun : pc[l] = "log_wrap"
        /\ \A l \in Lun : pc[l] = "log_store" => cnt[l] < LogSize

-----------------------------------------------------------------------------
(* Fragments, until two threads move some at once. *)

\* sce->lock and the locks of the LUNs happen to admit one mover.
Alone == \A l, k \in Lun : l # k => ~(OnList(l) /\ OnList(k))

\* The thread of l takes p out of the map.
Unmapping(l, p) == pc[l] \in Putting /\ arg[l] = p

\* A mapped fragment points back at its LUN, or is being unmapped.
Owned ==
    \A k \in Lun : \A p \in map[k] :
        mark[p] = k \/ \E l \in Lun : Unmapping(l, p) /\ vic[l] = k

\* A request or task of k relies on p.
Relies(k, p) == hold[k] = p \/ (pc[k] = "hit" /\ arg[k] = p)

\* Unless it was stolen, a fragment relied on is mapped and not being
\* unmapped, and in service once it has been counted.
Claims ==
    \A k \in Lun, p \in Frag : Relies(k, p) /\ <<k, p>> \notin stolen =>
        /\ p \in map[k] /\ mark[p] = k
        /\ \A l \in Lun : ~Unmapping(l, p)
        /\ hold[k] = p => svc[p] > 0

\* What the mover knows of its fragment.
Moving(l) ==
    /\ pc[l] \in Putting =>
          /\ arg[l] \in map[vic[l]]
          /\ \A k \in Lun : arg[l] \in map[k] => k = vic[l]
          /\ mark[arg[l]] = IF pc[l] \in {"put", "mark"} THEN vic[l] ELSE "list"
          /\ vic[l] # l => <<vic[l], arg[l]>> \in stolen
    /\ pc[l] \in Getting =>
          /\ \A k \in Lun : arg[l] \notin map[k]
          /\ mark[arg[l]] = IF pc[l] \in {"take", "untie"} THEN "list" ELSE "free"
    /\ pc[l] = "head" => next[arg[l]] = head
    /\ pc[l] = "take" => head = arg[l]
    /\ pc[l] \in {"inc_store", "dec_store"} => cnt[l] = nrFree

\* The list as a sequence s of n fragments.
IsChain(n, s) ==
    /\ \A i, j \in 1 .. n : s[i] = s[j] => i = j
    /\ head = IF n = 0 THEN 0 ELSE s[1]
    /\ \A i \in 1 .. n : next[s[i]] = IF i = n THEN 0 ELSE s[i + 1]

\* The fragments that hang on it.
Linked ==
    {p \in Frag : mark[p] = "list" /\ \A l \in Lun : arg[l] = p => pc[l] \notin {"link", "head", "untie"}}

\* What nr_freefrag is ahead of the list.
Ahead ==
    IF \E l \in Lun : pc[l] \in {"inc", "inc_store"} THEN -1
    ELSE IF \E l \in Lun : pc[l] \in {"untie", "dec", "dec_store"} THEN 1 ELSE 0

Chain ==
    \E n \in Nat : \E s \in [1 .. n -> Frag] :
        /\ IsChain(n, s)
        /\ {s[i] : i \in 1 .. n} = Linked
        /\ nrFree = n + Ahead

Fragments ==
    Alone /\ Owned /\ Claims /\ (\A l \in Lun : Moving(l)) /\ Chain

\* The inductive invariant.
IInv == TypeOK /\ Ring /\ (~raced => Fragments)
-----------------------------------------------------------------------------
LEMMA InitIInv == Init => IInv
<1> SUFFICES ASSUME Init PROVE IInv OBVIOUS
<1>0. NrFrag \in Nat \ {0} /\ LogSize \in Nat \ {0} /\ "list" \notin Lun BY LunLocksAssumption
<1>1. TypeOK
  <2>1. raced \in BOOLEAN /\ wrapped \in BOOLEAN BY DEF Init
  <2>2. map \in [Lun -> SUBSET Frag] /\ mark \in [Frag -> Lun \cup {"list", "free"}] BY DEF Init
  <2>3. next \in [Frag -> 0 .. NrFrag] BY <1>0 DEF Init, Frag
  <2>4. pc \in [Lun -> {"idle", "hit", "unmap", "get", "evict"} \cup Putting \cup Getting \cup Logging]
    BY DEF Init
  <2>5. svc \in [Frag -> Nat] /\ hold \in [Lun -> 0 .. NrFrag] BY <1>0 DEF Init
  <2>6. arg \in [Lun -> 0 .. NrFrag] /\ vic \in [Lun -> Lun] /\ cnt \in [Lun -> Int] BY <1>0 DEF Init
  <2>7. \A l \in Lun : pc[l] \notin {"hit", "unmap"} \cup Putting \cup Getting
    BY DEF Init, Putting, Getting
  <2>8. pop \subseteq Lun /\ head \in 0 .. NrFrag /\ nrFree \in Int /\ logHead \in Int
        /\ stolen \subseteq Lun \X Frag
    BY <1>0 DEF Init
  <2> QED BY <2>1, <2>2, <2>3, <2>4, <2>5, <2>6, <2>7, <2>8 DEF TypeOK
<1>2. Ring BY <1>0 DEF Init, Ring
<1>3. Alone /\ Owned /\ Claims
  BY <1>0 DEF Init, Alone, OnList, Owned, Claims, Relies, Frag
<1>4. ASSUME NEW l \in Lun PROVE Moving(l) BY DEF Init, Moving, Putting, Getting
<1>5. Chain
  <2> DEFINE s == [i \in 1 .. NrFrag |-> i]
  <2>1. s \in [1 .. NrFrag -> Frag] BY DEF Frag
  <2>2. IsChain(NrFrag, s) BY <1>0 DEF Init, IsChain, Frag
  <2>3. Linked = Frag BY DEF Init, Linked
  <2>4. {s[i] : i \in 1 .. NrFrag} = Frag BY DEF Frag
  <2>5. Ahead = 0 BY DEF Init, Ahead
  <2>6. nrFree = NrFrag + Ahead BY <1>0, <2>5 DEF Init
  <2> HIDE DEF s
  <2> QED BY <1>0, <2>1, <2>2, <2>3, <2>4, <2>6 DEF Chain
<1> QED BY <1>1, <1>2, <1>3, <1>4, <1>5 DEF IInv, Fragments
-----------------------------------------------------------------------------
(* Types. *)

LEMMA TypeUnlock ==
    ASSUME TypeOK, NEW l \in Lun, Unlock(l)
    PROVE  /\ pc' \in [Lun -> {"idle", "hit", "unmap", "get", "evict"} \cup Putting \cup Getting \cup Logging]
           /\ pop' \subseteq Lun
           /\ arg' \in [Lun -> 0 .. NrFrag] /\ vic' \in [Lun -> Lun] /\ cnt' \in [Lun -> Int]
           /\ \A k \in Lun : pc'[k] \in {"hit", "unmap"} \cup Putting \cup Getting => arg'[k] # 0
BY LunLocksAssumption DEF TypeOK, Unlock, Putting, Getting

LEMMA TypeReturn ==
    ASSUME TypeOK, NEW l \in Lun, Return(l)
    PROVE  /\ pc' \in [Lun -> {"idle", "hit", "unmap", "get", "evict"} \cup Putting \cup Getting \cup Logging]
           /\ pop' \subseteq Lun
           /\ arg' \in [Lun -> 0 .. NrFrag] /\ vic' \in [Lun -> Lun] /\ cnt' \in [Lun -> Int]
           /\ \A k \in Lun : pc'[k] \in {"hit", "unmap"} \cup Putting \cup Getting => arg'[k] # 0
<1>1. CASE l \notin pop BY <1>1, TypeUnlock DEF Return
<1>2. CASE l \in pop BY <1>2 DEF Return, TypeOK, Putting, Getting
<1> QED BY <1>1, <1>2

LEMMA TypeStep ==
    ASSUME TypeOK, NEW l \in Lun, Step(l), raced' \in BOOLEAN PROVE TypeOK'
<1> USE DEF locvars, fragvars, listvars, histvars
<1>0. NrFrag \in Nat /\ Frag = 1 .. NrFrag BY LunLocksAssumption DEF Frag
<1>1. CASE HitCount(l)
  <2>1. arg[l] \in Frag BY <1>0, <1>1 DEF HitCount, TypeOK
  <2>2. svc' \in [Frag -> Nat] BY <1>1, <2>1 DEF HitCount, TypeOK
  <2>3. hold' \in [Lun -> 0 .. NrFrag] BY <1>1 DEF HitCount, TypeOK
  <2>4. Unlock(l) /\ UNCHANGED <<map, mark, listvars, logHead, histvars>> BY <1>1 DEF HitCount
  <2> QED BY <2>2, <2>3, <2>4, TypeUnlock DEF TypeOK
<1>2. CASE Put(l)
  <2>1. hold[l] \in Frag BY <1>0, <1>2 DEF Put, TypeOK
  <2>2. svc' \in [Frag -> Nat] BY <1>2, <2>1 DEF Put, TypeOK
  <2>3. hold' \in [Lun -> 0 .. NrFrag] BY <1>0, <1>2 DEF Put, TypeOK
  <2>4. UNCHANGED <<locvars, map, mark, listvars, logHead, histvars>> BY <1>2 DEF Put
  <2> QED BY <2>2, <2>3, <2>4 DEF TypeOK
<1>3. CASE UnmapCheck(l)
  <2>1. stolen' \subseteq Lun \X Frag BY <1>0, <1>3 DEF UnmapCheck, TypeOK
  <2>2. CASE Return(l) BY <1>3, <2>1, <2>2, TypeReturn DEF UnmapCheck, TypeOK
  <2>3. CASE Go(l, "unmap", "put") /\ UNCHANGED <<pop, arg, vic, cnt>>
    BY <1>3, <2>1, <2>3 DEF UnmapCheck, Go, TypeOK, Putting, Getting
  <2> QED BY <1>3, <2>2, <2>3 DEF UnmapCheck
<1>4. CASE Clear(l) BY <1>4, TypeReturn DEF Clear, TypeOK
<1>5. CASE PutCheck(l)
  <2>1. CASE Return(l) BY <1>5, <2>1, TypeReturn DEF PutCheck, TypeOK
  <2>2. CASE Go(l, "put", "mark") /\ UNCHANGED <<pop, arg, vic, cnt>>
    BY <1>5, <2>2 DEF PutCheck, Go, TypeOK, Putting, Getting
  <2> QED BY <1>5, <2>1, <2>2 DEF PutCheck
<1>6. CASE PutMark(l) BY <1>6 DEF PutMark, Go, TypeOK, Putting, Getting
<1>7. CASE PutLink(l) BY <1>7 DEF PutLink, Go, TypeOK, Putting, Getting
<1>8. CASE PutHead(l) BY <1>8 DEF PutHead, Go, TypeOK, Putting, Getting
<1>9. CASE LoadFree(l) BY <1>9 DEF LoadFree, Go, TypeOK, Putting, Getting
<1>10. CASE StoreFree(l) BY <1>10 DEF StoreFree, Go, TypeOK, Putting, Getting
<1>11. CASE PopStart(l) BY <1>11 DEF PopStart, Go, TypeOK, Putting, Getting
<1>12. CASE GetHead(l) BY <1>12 DEF GetHead, Go, TypeOK, Putting, Getting
<1>13. CASE GetTake(l)
  <2>1. arg[l] \in Frag BY <1>0, <1>13 DEF GetTake, Go, TypeOK, Getting
  <2>2. head' \in 0 .. NrFrag BY <1>13, <2>1 DEF GetTake, TypeOK
  <2> QED BY <1>13, <2>2 DEF GetTake, Go, TypeOK, Putting, Getting
<1>14. CASE GetUntie(l)
  <2>0. mark' \in [Frag -> Lun \cup {"list", "free"}] BY <1>14 DEF GetUntie, TypeOK
  <2>a. 0 \in 0 .. NrFrag BY <1>0
  <2>1. next' \in [Frag -> 0 .. NrFrag] BY <1>14, <2>a DEF GetUntie, TypeOK
  <2>2. \A k \in Lun : pc'[k] \in {"hit", "unmap"} \cup Putting \cup Getting => arg'[k] # 0
    BY <1>14 DEF GetUntie, Go, TypeOK, Putting, Getting
  <2>3. pc' \in [Lun -> {"idle", "hit", "unmap", "get", "evict"} \cup Putting \cup Getting \cup Logging]
    BY <1>14 DEF GetUntie, Go, TypeOK, Getting
  <2>4. UNCHANGED <<pop, arg, vic, cnt, map, svc, hold, head, nrFree, logHead, histvars>>
    BY <1>14 DEF GetUntie
  <2> QED BY <2>0, <2>1, <2>2, <2>3, <2>4 DEF TypeOK
<1>15. CASE EvictFail(l) BY <1>15, TypeUnlock DEF EvictFail, TypeOK
<1>16. CASE MapFrag(l)
  <2>1. arg[l] \in Frag BY <1>0, <1>16 DEF MapFrag, TypeOK, Getting
  <2>2. map' \in [Lun -> SUBSET Frag] BY <1>16, <2>1 DEF MapFrag, TypeOK
  <2>3. mark' \in [Frag -> Lun \cup {"list", "free"}] BY <1>16 DEF MapFrag, TypeOK
  <2>4. svc' \in [Frag -> Nat] /\ hold' \in [Lun -> 0 .. NrFrag] BY <1>16 DEF MapFrag, TypeOK
  <2>5. stolen' \subseteq Lun \X Frag BY <1>16 DEF MapFrag, TypeOK
  <2>6. Unlock(l) /\ UNCHANGED <<listvars, logHead, wrapped>> BY <1>16 DEF MapFrag
  <2> QED BY <2>2, <2>3, <2>4, <2>5, <2>6, TypeUnlock DEF TypeOK
<1>17. CASE MissStore(l)
  <2>1. LogSize \in Nat \ {0} BY LunLocksAssumption
  <2>2. logHead' \in Int BY <1>17, <2>1 DEF MissStore, TypeOK
  <2>3. pc' \in [Lun -> {"idle", "hit", "unmap", "get", "evict"} \cup Putting \cup Getting \cup Logging]
    BY <1>17 DEF MissStore, Go, TypeOK, Logging
  <2>4. \A k \in Lun : pc'[k] \in {"hit", "unmap"} \cup Putting \cup Getting => arg'[k] # 0
    BY <1>17 DEF MissStore, Go, TypeOK, Putting, Getting
  <2>5. UNCHANGED <<pop, arg, vic, cnt, fragvars, listvars, histvars>> BY <1>17 DEF MissStore
  <2> QED BY <2>2, <2>3, <2>4, <2>5 DEF TypeOK
<1>18. CASE MissLoad(l)
  <2>1. wrapped' \in BOOLEAN BY <1>18 DEF MissLoad
  <2> QED BY <1>18, <2>1 DEF MissLoad, Go, TypeOK, Putting, Getting, Logging
<1>19. CASE MissInc(l)
  <2>1. logHead' \in Int BY <1>19 DEF MissInc, TypeOK
  <2>2. CASE Unlock(l) BY <1>19, <2>1, <2>2, TypeUnlock DEF MissInc, TypeOK
  <2>3. CASE Go(l, "log_store", "log_wrap") /\ UNCHANGED <<pop, arg, vic, cnt>>
    BY <1>19, <2>1, <2>3 DEF MissInc, Go, TypeOK, Putting, Getting, Logging
  <2> QED BY <1>19, <2>2, <2>3 DEF MissInc
<1>20. CASE MissWrap(l) BY <1>20, TypeUnlock DEF MissWrap, TypeOK
<1>21. ASSUME NEW p \in Frag, HitLook(l, p) PROVE TypeOK'
  <2>1. arg' \in [Lun -> 0 .. NrFrag] /\ p # 0 BY <1>0, <1>21 DEF HitLook, TypeOK
  <2>2. \A k \in Lun : pc'[k] \in {"hit", "unmap"} \cup Putting \cup Getting => arg'[k] # 0
    BY <1>21, <2>1 DEF HitLook, Go, TypeOK
  <2>3. pc' \in [Lun -> {"idle", "hit", "unmap", "get", "evict"} \cup Putting \cup Getting \cup Logging]
    BY <1>21 DEF HitLook, Go, TypeOK
  <2>4. vic' \in [Lun -> Lun] BY <1>21 DEF HitLook, TypeOK
  <2>5. UNCHANGED <<pop, cnt, fragvars, listvars, logHead, histvars>>
    BY <1>21 DEF HitLook
  <2> QED BY <2>1, <2>2, <2>3, <2>4, <2>5 DEF TypeOK
<1>22. ASSUME NEW p \in Frag, Drop(l, p) PROVE TypeOK'
  <2>1. arg' \in [Lun -> 0 .. NrFrag] /\ p # 0 BY <1>0, <1>22 DEF Drop, TypeOK
  <2>2. \A k \in Lun : pc'[k] \in {"hit", "unmap"} \cup Putting \cup Getting => arg'[k] # 0
    BY <1>22, <2>1 DEF Drop, Go, TypeOK
  <2>3. pc' \in [Lun -> {"idle", "hit", "unmap", "get", "evict"} \cup Putting \cup Getting \cup Logging]
    BY <1>22 DEF Drop, Go, TypeOK
  <2>4. vic' \in [Lun -> Lun] BY <1>22 DEF Drop, TypeOK
  <2>5. UNCHANGED <<pop, cnt, fragvars, listvars, logHead, histvars>>
    BY <1>22 DEF Drop
  <2> QED BY <2>1, <2>2, <2>3, <2>4, <2>5 DEF TypeOK
<1>23. ASSUME NEW p \in Frag, EvictPick(l, p) PROVE TypeOK'
  <2>1. arg' \in [Lun -> 0 .. NrFrag] /\ p # 0 BY <1>0, <1>23 DEF EvictPick, TypeOK
  <2>2. \A k \in Lun : pc'[k] \in {"hit", "unmap"} \cup Putting \cup Getting => arg'[k] # 0
    BY <1>23, <2>1 DEF EvictPick, Go, TypeOK
  <2>3. pc' \in [Lun -> {"idle", "hit", "unmap", "get", "evict"} \cup Putting \cup Getting \cup Logging]
    BY <1>23 DEF EvictPick, Go, TypeOK
  <2>4. vic' \in [Lun -> Lun] BY <1>23 DEF EvictPick, TypeOK
  <2>5. UNCHANGED <<pop, cnt, fragvars, listvars, logHead, histvars>>
    BY <1>23 DEF EvictPick
  <2> QED BY <2>1, <2>2, <2>3, <2>4, <2>5 DEF TypeOK
<1> QED BY <1>1, <1>2, <1>3, <1>4, <1>5, <1>6, <1>7, <1>8, <1>9, <1>10, <1>11, <1>12, <1>13,
           <1>14, <1>15, <1>16, <1>17, <1>18, <1>19, <1>20, <1>21, <1>22, <1>23 DEF Step
-----------------------------------------------------------------------------
(* The head of the miss log. *)

\* Only _misslog_put moves the head, and it leaves the wrap by a reset.
LEMMA RingStep ==
    ASSUME TypeOK, Ring, NEW l \in Lun, Step(l) PROVE Ring'
<1> USE DEF locvars, fragvars, listvars, histvars
<1>0. LogSize \in Nat \ {0} BY LunLocksAssumption
<1>a. SUFFICES ASSUME ~wrapped'
              PROVE  /\ logHead' <= LogSize
                     /\ logHead' = LogSize => \E k \in Lun : pc'[k] = "log_wrap"
                     /\ \A k \in Lun : pc'[k] = "log_store" => cnt'[k] < LogSize
  BY DEF Ring
<1>1. CASE MissLoad(l)
  <2>1. ~wrapped /\ logHead' = logHead /\ \A k \in Lun : pc[k] # "log_wrap" BY <1>1, <1>a DEF MissLoad
  <2>2. logHead \in Int /\ logHead < LogSize BY <1>0, <2>1 DEF Ring, TypeOK
  <2>3. \A k \in Lun : pc'[k] = "log_store" => cnt'[k] = logHead \/ (pc[k] = "log_store" /\ cnt'[k] = cnt[k])
    BY <1>1 DEF MissLoad, Go, TypeOK
  <2> QED BY <1>0, <2>1, <2>2, <2>3 DEF Ring
<1>2. CASE MissInc(l)
  <2>1. ~wrapped /\ cnt[l] \in Int /\ cnt[l] < LogSize BY <1>2, <1>a DEF MissInc, Ring, TypeOK
  <2>2. logHead' = cnt[l] + 1 BY <1>2 DEF MissInc
  <2>3. cnt[l] + 1 = LogSize => pc'[l] = "log_wrap" BY <1>2 DEF MissInc, Go, TypeOK
  <2>4. \A k \in Lun : pc'[k] = "log_store" => pc[k] = "log_store" /\ cnt'[k] = cnt[k]
    BY <1>2 DEF MissInc, Go, Unlock, TypeOK
  <2> QED BY <1>0, <2>1, <2>2, <2>3, <2>4 DEF Ring
<1>3. CASE MissWrap(l)
  <2>1. ~wrapped /\ logHead' = 0 BY <1>3, <1>a DEF MissWrap
  <2>2. \A k \in Lun : pc'[k] = "log_store" => pc[k] = "log_store" /\ cnt'[k] = cnt[k]
    BY <1>3 DEF MissWrap, Unlock, TypeOK
  <2> QED BY <1>0, <2>1, <2>2 DEF Ring
<1>4. CASE MissStore(l)
  <2>1. ~wrapped BY <1>4, <1>a DEF MissStore
  <2>2. pc[l] = "idle" /\ \A k \in Lun : pc[k] = "log_wrap" => pc'[k] = "log_wrap"
    BY <1>4 DEF MissStore, Go, TypeOK
  <2>3. \A k \in Lun : pc'[k] = "log_store" => pc[k] = "log_store" /\ cnt'[k] = cnt[k]
    BY <1>4 DEF MissStore, Go, TypeOK
  <2>4. logHead' = logHead \/ logHead' \in 0 .. LogSize - 1 BY <1>4 DEF MissStore
  <2> QED BY <1>0, <2>1, <2>2, <2>3, <2>4 DEF Ring
<1>5. CASE ~(MissStore(l) \/ MissLoad(l) \/ MissInc(l) \/ MissWrap(l))
  <2>1. logHead' = logHead /\ wrapped' = wrapped
    BY <1>5 DEF Step, HitCount, Put, UnmapCheck, Clear, PutCheck, PutMark, PutLink, PutHead, LoadFree,
       StoreFree, PopStart, GetHead, GetTake, GetUntie, EvictFail, MapFrag, HitLook, Drop, EvictPick
  <2>2. pc[l] # "log_wrap" /\ pc'[l] # "log_store" /\ \A k \in Lun \ {l} : pc'[k] = pc[k] /\ cnt'[k] = cnt[k]
    BY <1>5 DEF Step, HitCount, Put, UnmapCheck, Clear, PutCheck, PutMark, PutLink, PutHead, LoadFree,
       StoreFree, PopStart, GetHead, GetTake, GetUntie, EvictFail, MapFrag, HitLook, Drop, EvictPick,
       Go, Unlock, Return, TypeOK
  <2> QED BY <1>a, <2>1, <2>2 DEF Ring
<1> QED BY <1>1, <1>2, <1>3, <1>4, <1>5
-----------------------------------------------------------------------------
(* Fragments: what all steps have in common. *)

\* A step of one thread is a step of no other one.
Others(l) ==
    \A k \in Lun \ {l} : /\ pc'[k] = pc[k] /\ arg'[k] = arg[k] /\ vic'[k] = vic[k]
                         /\ cnt'[k] = cnt[k] /\ hold'[k] = hold[k]

LEMMA OthersStep ==
    ASSUME TypeOK, NEW l \in Lun, Step(l) PROVE Others(l)
<1> USE DEF locvars, fragvars, listvars, histvars, Others, TypeOK
<1>0. Unlock(l) /\ UNCHANGED hold => Others(l) BY DEF Unlock
<1>1. Return(l) /\ UNCHANGED hold => Others(l) BY <1>0 DEF Return
<1>2. CASE HitCount(l) BY <1>2 DEF HitCount, Unlock
<1>3. CASE Put(l) BY <1>3 DEF Put
<1>4. CASE UnmapCheck(l) BY <1>4, <1>1 DEF UnmapCheck, Go
<1>5. CASE Clear(l) BY <1>5, <1>1 DEF Clear
<1>6. CASE PutCheck(l) BY <1>6, <1>1 DEF PutCheck, Go
<1>7. CASE PutMark(l) \/ PutLink(l) \/ PutHead(l) \/ LoadFree(l) \/ StoreFree(l)
  BY <1>7 DEF PutMark, PutLink, PutHead, LoadFree, StoreFree, Go
<1>8. CASE PopStart(l) \/ GetHead(l) \/ GetTake(l) \/ GetUntie(l)
  BY <1>8 DEF PopStart, GetHead, GetTake, GetUntie, Go
<1>9. CASE EvictFail(l) BY <1>9, <1>0 DEF EvictFail
<1>10. CASE MapFrag(l) BY <1>10 DEF MapFrag, Unlock
<1>11. CASE MissStore(l) \/ MissLoad(l) \/ MissInc(l) \/ MissWrap(l)
  BY <1>11, <1>0 DEF MissStore, MissLoad, MissInc, MissWrap, Go
<1>12. ASSUME NEW p \in Frag, HitLook(l, p) \/ Drop(l, p) \/ EvictPick(l, p) PROVE Others(l)
  BY <1>12 DEF HitLook, Drop, EvictPick, Go
<1> QED BY <1>2, <1>3, <1>4, <1>5, <1>6, <1>7, <1>8, <1>9, <1>10, <1>11, <1>12 DEF Step

\* The list keeps its shape when no fragment on it is written.
LEMMA ChainKept ==
    ASSUME TypeOK, Chain, Linked' = Linked, head' = head,
           \A p \in Linked : next'[p] = next[p],
           NEW d \in {-1, 0, 1}, nrFree' = nrFree + d, Ahead' = Ahead + d
    PROVE  Chain'
<1>0. PICK n \in Nat : \E s \in [1 .. n -> Frag] :
        IsChain(n, s) /\ {s[i] : i \in 1 .. n} = Linked /\ nrFree = n + Ahead
  BY DEF Chain
<1>1. PICK s \in [1 .. n -> Frag] : IsChain(n, s) /\ {s[i] : i \in 1 .. n} = Linked /\ nrFree = n + Ahead
  BY <1>0
<1>2. \A i \in 1 .. n : s[i] \in Linked BY <1>1
<1>3. IsChain(n, s)' BY <1>1, <1>2 DEF IsChain
<1>4. Ahead \in Int BY DEF Ahead
<1>5. nrFree' = n + Ahead' BY ONLY <1>1, <1>4, n \in Nat, d \in {-1, 0, 1}, nrFree' = nrFree + d, Ahead' = Ahead + d
<1>6. {s[i] : i \in 1 .. n} = Linked' BY <1>1
<1> QED BY <1>3, <1>5, <1>6 DEF Chain

\* A step of a thread that moves no fragment, before it or after it.
LEMMA StillStep ==
    ASSUME TypeOK, Fragments, NEW l \in Lun, Others(l), ~OnList(l), ~OnList(l)', Alone',
           UNCHANGED <<map, mark, head, next, nrFree, stolen>>, Claims'
    PROVE  Fragments'
<1>1. \A k \in Lun, p \in Frag : Unmapping(k, p)' <=> Unmapping(k, p)
  BY DEF Others, OnList, Unmapping, Putting
<1>2. Owned'
  <2>1. SUFFICES ASSUME NEW k \in Lun, NEW p \in map[k]
                 PROVE  mark[p] = k \/ \E j \in Lun : Unmapping(j, p)' /\ vic'[j] = k
    BY DEF Owned
  <2>2. p \in Frag BY DEF TypeOK
  <2>3. CASE mark[p] = k BY <2>3
  <2>4. ASSUME NEW j \in Lun, Unmapping(j, p), vic[j] = k PROVE Unmapping(j, p)' /\ vic'[j] = k
    <3>1. j # l BY <2>4 DEF Unmapping, OnList, Putting
    <3> QED BY <1>1, <2>2, <2>4, <3>1 DEF Others
  <2> QED BY <2>3, <2>4 DEF Fragments, Owned
<1>3. ASSUME NEW k \in Lun PROVE Moving(k)'
  <2>1. CASE k = l BY <2>1 DEF Moving, OnList, Putting, Getting
  <2>2. CASE k # l BY <2>2 DEF Fragments, Moving, Others
  <2> QED BY <2>1, <2>2
<1>4. Linked' = Linked
  <2>1. ASSUME NEW p \in Frag
        PROVE  (\A k \in Lun : arg'[k] = p => pc'[k] \notin {"link", "head", "untie"}) <=>
               (\A k \in Lun : arg[k] = p => pc[k] \notin {"link", "head", "untie"})
    BY DEF OnList, Others
  <2> QED BY <2>1 DEF Linked
<1>5. Ahead' = Ahead
  <2>1. (\E k \in Lun : pc'[k] \in {"inc", "inc_store"}) <=> (\E k \in Lun : pc[k] \in {"inc", "inc_store"})
    BY DEF OnList, Others
  <2>2. (\E k \in Lun : pc'[k] \in {"untie", "dec", "dec_store"}) <=>
        (\E k \in Lun : pc[k] \in {"untie", "dec", "dec_store"})
    BY DEF OnList, Others
  <2> QED BY <2>1, <2>2 DEF Ahead
<1>6. Chain'
  <2>1. nrFree' = nrFree + 0 /\ Ahead' = Ahead + 0 BY <1>5 DEF Ahead, TypeOK
  <2> QED BY <1>4, <2>1, ChainKept DEF Fragments
<1> QED BY <1>2, <1>3, <1>6 DEF Fragments

\* When nobody else moves a fragment, the mover is what distinguishes the
\* marked fragments from the linked ones, and the count from their number.
Tied(l) ==
    {p \in Frag : mark[p] = "list" /\ (arg[l] = p => pc[l] \notin {"link", "head", "untie"})}
Debt(l) ==
    IF pc[l] \in {"inc", "inc_store"} THEN -1
    ELSE IF pc[l] \in {"untie", "dec", "dec_store"} THEN 1 ELSE 0

LEMMA Sole ==
    ASSUME Alone, Alone', NEW l \in Lun, Others(l), OnList(l) \/ OnList(l)'
    PROVE  /\ Linked = Tied(l) /\ Linked' = Tied(l)'
           /\ Ahead = Debt(l) /\ Ahead' = Debt(l)'
           /\ \A k \in Lun, p \in Frag : (Unmapping(k, p) \/ Unmapping(k, p)') => k = l
           /\ \A k \in Lun \ {l} : Moving(k)'
<1>1. \A k \in Lun \ {l} : ~OnList(k) /\ ~OnList(k)' BY DEF Alone, Others, OnList
<1>2. Linked = Tied(l) BY <1>1 DEF Linked, Tied, OnList
<1>3. Linked' = Tied(l)' BY <1>1 DEF Linked, Tied, OnList
<1>4. Ahead = Debt(l) BY <1>1 DEF Ahead, Debt, OnList
<1>5. Ahead' = Debt(l)' BY <1>1 DEF Ahead, Debt, OnList
<1>6. \A k \in Lun, p \in Frag : (Unmapping(k, p) \/ Unmapping(k, p)') => k = l
  BY <1>1 DEF Unmapping, OnList, Putting
<1>7. \A k \in Lun \ {l} : Moving(k)' BY <1>1 DEF Moving, OnList, Putting, Getting
<1> QED BY <1>2, <1>3, <1>4, <1>5, <1>6, <1>7
-----------------------------------------------------------------------------
(* Steps of threads that move no fragment. *)

\* A step that lets nobody rely on more than before.
LEMMA ClaimsKept ==
    ASSUME TypeOK, Fragments, NEW l \in Lun, Others(l), ~OnList(l)', pc'[l] # "hit",
           UNCHANGED <<map, mark, svc, hold, stolen>>
    PROVE  Claims'
<1>1. SUFFICES ASSUME NEW k \in Lun, NEW p \in Frag, Relies(k, p)', <<k, p>> \notin stolen
               PROVE  /\ p \in map[k] /\ mark[p] = k
                      /\ \A j \in Lun : ~Unmapping(j, p)'
                      /\ hold[k] = p => svc[p] > 0
  BY DEF Claims
<1>2. Relies(k, p) BY <1>1 DEF Relies, Others
<1>3. \A j \in Lun : Unmapping(j, p)' => Unmapping(j, p) BY DEF Unmapping, Others, OnList, Putting
<1> QED BY <1>1, <1>2, <1>3 DEF Fragments, Claims

LEMMA HitLookStep ==
    ASSUME TypeOK, Fragments, NEW l \in Lun, Others(l), Alone', NEW p \in Frag, HitLook(l, p)
    PROVE  Fragments'
<1> USE DEF fragvars, listvars, histvars
<1>1. pc[l] = "idle" /\ pc'[l] = "hit" /\ arg'[l] = p /\ hold[l] = 0 /\ p \in map[l]
  BY DEF HitLook, Go, TypeOK
<1>2. UNCHANGED <<map, mark, svc, hold, head, next, nrFree, stolen>> BY DEF HitLook
<1>3. ~OnList(l) /\ ~OnList(l)' BY <1>1 DEF OnList
<1>4. \A j \in Lun, q \in Frag : Unmapping(j, q)' => Unmapping(j, q) /\ j # l
  BY <1>1 DEF Unmapping, Others, Putting
<1>5. ASSUME <<l, p>> \notin stolen, NEW j \in Lun, Unmapping(j, p), j # l PROVE FALSE
  <2>1. Moving(j) BY DEF Fragments
  <2>2. vic[j] = l BY <1>1, <1>5, <2>1 DEF Moving, Unmapping
  <2> QED BY <1>5, <2>1, <2>2 DEF Moving, Unmapping
<1>6. <<l, p>> \notin stolen => mark[p] = l /\ \A j \in Lun : ~Unmapping(j, p)'
  <2>1. \A j \in Lun : Unmapping(j, p) => j # l BY <1>1 DEF Unmapping, Putting
  <2> QED BY <1>1, <1>4, <1>5, <2>1 DEF Fragments, Owned
<1>7. Claims'
  <2>1. SUFFICES ASSUME NEW k \in Lun, NEW q \in Frag, Relies(k, q)', <<k, q>> \notin stolen
                 PROVE  /\ q \in map[k] /\ mark[q] = k
                        /\ \A j \in Lun : ~Unmapping(j, q)'
                        /\ hold[k] = q => svc[q] > 0
    BY <1>2 DEF Claims
  <2>2. CASE k = l
    <3>1. hold[l] # q BY <1>1, LunLocksAssumption DEF Frag
    <3>2. q = p BY <1>1, <1>2, <2>1, <2>2, <3>1 DEF Relies
    <3> QED BY <1>1, <1>6, <2>1, <2>2, <3>1, <3>2
  <2>3. CASE k # l
    <3>1. Relies(k, q) BY <2>1, <2>3 DEF Relies, Others
    <3> QED BY <1>4, <2>1, <3>1 DEF Fragments, Claims
  <2> QED BY <2>2, <2>3
<1> QED BY <1>2, <1>3, <1>7, StillStep

LEMMA HitCountStep ==
    ASSUME TypeOK, Fragments, NEW l \in Lun, Others(l), Alone', HitCount(l)
    PROVE  Fragments'
<1> USE DEF fragvars, listvars, histvars
<1>1. pc[l] = "hit" /\ pc'[l] = "idle" /\ hold'[l] = arg[l] BY DEF HitCount, Unlock, TypeOK
<1>2. UNCHANGED <<map, mark, head, next, nrFree, stolen>> BY DEF HitCount
<1>3. ~OnList(l) /\ ~OnList(l)' BY <1>1 DEF OnList
<1>4. \A j \in Lun, q \in Frag : Unmapping(j, q)' => Unmapping(j, q)
  BY <1>1 DEF Unmapping, Others, Putting
<1>5. arg[l] \in Frag BY <1>1, LunLocksAssumption DEF TypeOK, Frag
<1>6. svc'[arg[l]] > 0 /\ \A q \in Frag : svc[q] > 0 => svc'[q] > 0 BY <1>5 DEF HitCount, TypeOK
<1>7. Claims'
  <2>1. SUFFICES ASSUME NEW k \in Lun, NEW q \in Frag, Relies(k, q)', <<k, q>> \notin stolen
                 PROVE  /\ q \in map[k] /\ mark[q] = k
                        /\ \A j \in Lun : ~Unmapping(j, q)'
                        /\ hold'[k] = q => svc'[q] > 0
    BY <1>2 DEF Claims
  <2>2. CASE k = l
    <3>1. q = arg[l] BY <1>1, <2>1, <2>2 DEF Relies
    <3>2. Relies(l, q) BY <1>1, <3>1 DEF Relies
    <3> QED BY <1>4, <1>6, <2>1, <2>2, <3>1, <3>2 DEF Fragments, Claims
  <2>3. CASE k # l
    <3>1. Relies(k, q) BY <2>1, <2>3 DEF Relies, Others
    <3> QED BY <1>4, <1>6, <2>1, <2>3, <3>1 DEF Fragments, Claims, Others
  <2> QED BY <2>2, <2>3
<1> QED BY <1>2, <1>3, <1>7, StillStep

\* A put counts down only a fragment of its own LUN, on which no other one relies.
LEMMA PutStep ==
    ASSUME TypeOK, Fragments, NEW l \in Lun, Others(l), Alone', Put(l)
    PROVE  Fragments'
<1> USE DEF locvars, fragvars, listvars, histvars
<1>1. pc[l] = "idle" /\ pc'[l] = "idle" /\ hold'[l] = 0 BY DEF Put, TypeOK
<1>2. UNCHANGED <<pc, arg, map, mark, head, next, nrFree, stolen>> BY DEF Put
<1>3. ~OnList(l) /\ ~OnList(l)' BY <1>1 DEF OnList
<1>4. \A j \in Lun, q \in Frag : Unmapping(j, q)' => Unmapping(j, q) BY <1>2 DEF Unmapping
<1>5. \A q \in Frag : q \notin map[l] => svc'[q] = svc[q] BY DEF Put, TypeOK
<1>6. Claims'
  <2>1. SUFFICES ASSUME NEW k \in Lun, NEW q \in Frag, Relies(k, q)', <<k, q>> \notin stolen
                 PROVE  /\ q \in map[k] /\ mark[q] = k
                        /\ \A j \in Lun : ~Unmapping(j, q)'
                        /\ hold'[k] = q => svc'[q] > 0
    BY <1>2 DEF Claims
  <2>2. k # l BY <1>1, <2>1, LunLocksAssumption DEF Relies, Frag
  <2>3. Relies(k, q) BY <2>1, <2>2 DEF Relies, Others
  <2>4. q \in map[k] /\ mark[q] = k /\ \A j \in Lun : ~Unmapping(j, q) BY <2>1, <2>3 DEF Fragments, Claims
  <2>5. q \notin map[l] BY <2>2, <2>4 DEF Fragments, Owned
  <2>6. hold[k] = q => svc[q] > 0 BY <2>1, <2>3 DEF Fragments, Claims
  <2> QED BY <1>4, <1>5, <2>2, <2>4, <2>5, <2>6 DEF Others
<1> QED BY <1>2, <1>3, <1>6, StillStep

LEMMA QuietStep ==
    ASSUME TypeOK, Fragments, NEW l \in Lun, Others(l), Alone',
           \/ PopStart(l) \/ EvictFail(l) \/ MissStore(l) \/ MissLoad(l) \/ MissInc(l) \/ MissWrap(l)
           \/ \E p \in Frag : Drop(l, p) \/ EvictPick(l, p)
    PROVE  Fragments'
<1> USE DEF fragvars, listvars, histvars
<1>1. UNCHANGED <<map, mark, svc, hold, head, next, nrFree, stolen>>
  BY DEF PopStart, EvictFail, MissStore, MissLoad, MissInc, MissWrap, Drop, EvictPick
<1>2. pc[l] \in {"idle", "evict", "log_inc", "log_store", "log_wrap"}
  BY DEF PopStart, EvictFail, MissStore, MissLoad, MissInc, MissWrap, Drop, EvictPick, Go
<1>3. pc'[l] \in {"idle", "get", "unmap", "log_inc", "log_store", "log_wrap", "overrun"}
  BY DEF PopStart, EvictFail, MissStore, MissLoad, MissInc, MissWrap, Drop, EvictPick, Go, Unlock, TypeOK
<1>4. ~OnList(l) /\ ~OnList(l)' /\ pc'[l] # "hit" BY <1>2, <1>3 DEF OnList
<1> QED BY <1>1, <1>4, ClaimsKept, StillStep
-----------------------------------------------------------------------------
(* Steps of the thread that moves a fragment. *)

\* _unmap_frag finds the fragment out of service, or returns.
LEMMA UnmapCheckStep ==
    ASSUME TypeOK, Fragments, NEW l \in Lun, Others(l), Alone', UnmapCheck(l)
    PROVE  Fragments'
<1> USE DEF fragvars, listvars, histvars
<1>1. pc[l] = "unmap" /\ ~OnList(l) /\ UNCHANGED <<map, mark, svc, hold, head, next, nrFree>>
  BY DEF UnmapCheck, OnList
<1>2. CASE Return(l) /\ UNCHANGED stolen
  <2>1. pc'[l] \in {"get", "idle"} BY <1>2 DEF Return, Unlock, TypeOK
  <2>2. ~OnList(l)' /\ pc'[l] # "hit" BY <2>1 DEF OnList
  <2> QED BY <1>1, <1>2, <2>2, ClaimsKept, StillStep
<1>3. CASE /\ arg[l] \in map[vic[l]] /\ svc[arg[l]] = 0 /\ Go(l, "unmap", "put")
           /\ stolen' = IF vic[l] = l THEN stolen ELSE stolen \cup {<<vic[l], arg[l]>>}
           /\ UNCHANGED <<pop, arg, vic, cnt>>
  <2>1. pc'[l] = "put" /\ OnList(l)' BY <1>3 DEF Go, OnList, TypeOK
  <2>2. arg[l] \in Frag /\ vic[l] \in Lun BY <1>3 DEF TypeOK
  <2>3. Alone BY DEF Fragments
  <2>4. \A k \in Lun, p \in Frag : ~Unmapping(k, p) BY <1>1, <2>1, <2>3, Sole DEF Unmapping, Putting
  <2>5. \A k \in Lun : \A p \in map[k] : mark[p] = k BY <2>4 DEF Fragments, Owned, TypeOK
  <2>6. Owned' BY <1>1, <2>5 DEF Owned
  <2>7. Moving(l)' BY <1>1, <1>3, <2>1, <2>2, <2>5 DEF Moving, Putting, Getting
  <2>8. \A k \in Lun : Moving(k)' BY <2>1, <2>3, <2>7, Sole
  <2>9. Claims'
    <3>1. SUFFICES ASSUME NEW k \in Lun, NEW q \in Frag, Relies(k, q)', <<k, q>> \notin stolen'
                   PROVE  /\ q \in map[k] /\ mark[q] = k
                          /\ \A j \in Lun : ~Unmapping(j, q)'
                          /\ hold[k] = q => svc[q] > 0
      BY <1>1 DEF Claims
    <3>2. Relies(k, q) BY <1>1, <2>1, <3>1 DEF Relies, Others
    <3>3. <<k, q>> \notin stolen BY <1>3, <3>1
    <3>4. q \in map[k] /\ mark[q] = k /\ (hold[k] = q => svc[q] > 0)
      BY <3>2, <3>3 DEF Fragments, Claims
    <3>5. ASSUME q = arg[l] PROVE FALSE
      <4>1. k = vic[l] BY <1>3, <2>2, <2>5, <3>4, <3>5
      <4>2. k = l BY <1>3, <3>1, <3>5, <4>1
      <4>3. hold[l] = q BY <1>1, <3>2, <4>2 DEF Relies
      <4> QED BY <1>3, <3>4, <3>5, <4>2, <4>3
    <3>6. \A j \in Lun : ~Unmapping(j, q)'
      <4>1. ~Unmapping(l, q)' BY <1>3, <3>5 DEF Unmapping
      <4> QED BY <2>1, <2>3, <4>1, Sole
    <3> QED BY <3>4, <3>6
  <2>10. Linked = Tied(l) /\ Linked' = Tied(l)' /\ Ahead = Debt(l) /\ Ahead' = Debt(l)' BY <2>1, <2>3, Sole
  <2>11. Linked' = Linked BY <1>1, <2>1, <2>10 DEF Tied
  <2>12. Ahead = 0 /\ Ahead' = 0 BY <1>1, <2>1, <2>10 DEF Debt
  <2>13. nrFree' = nrFree + 0 /\ Ahead' = Ahead + 0 BY <1>1, <2>12 DEF TypeOK
  <2>14. Chain' BY <1>1, <2>11, <2>13, ChainKept DEF Fragments
  <2> QED BY <2>6, <2>8, <2>9, <2>14 DEF Fragments
<1> QED BY <1>2, <1>3 DEF UnmapCheck

\* A step of the mover that leaves maps, owners and requests alone.
LEMMA March ==
    ASSUME TypeOK, Fragments, NEW l \in Lun, Others(l), Alone', OnList(l) \/ OnList(l)', pc'[l] # "hit",
           UNCHANGED <<map, mark, svc, hold, stolen>>,
           pc[l] \in Putting <=> pc'[l] \in Putting,
           pc[l] \in Putting => arg'[l] = arg[l] /\ vic'[l] = vic[l],
           Moving(l)', Chain'
    PROVE  Fragments'
<1>0. Alone BY DEF Fragments
<1>1. \A k \in Lun : Moving(k)' BY <1>0, Sole
<1>2. \A k \in Lun, p \in Frag : Unmapping(k, p)' <=> Unmapping(k, p) BY DEF Unmapping, Others
<1>3. \A k \in Lun, p \in Frag : Unmapping(k, p) => vic'[k] = vic[k] BY DEF Unmapping, Others
<1>4. Owned'
  <2>1. SUFFICES ASSUME NEW k \in Lun, NEW p \in map[k]
                 PROVE  mark[p] = k \/ \E j \in Lun : Unmapping(j, p)' /\ vic'[j] = k
    BY DEF Owned
  <2>2. p \in Frag BY DEF TypeOK
  <2> QED BY <1>2, <1>3, <2>2 DEF Fragments, Owned
<1>5. Claims'
  <2>1. SUFFICES ASSUME NEW k \in Lun, NEW p \in Frag, Relies(k, p)', <<k, p>> \notin stolen
                 PROVE  /\ p \in map[k] /\ mark[p] = k
                        /\ \A j \in Lun : ~Unmapping(j, p)'
                        /\ hold[k] = p => svc[p] > 0
    BY DEF Claims
  <2>2. Relies(k, p) BY <2>1 DEF Relies, Others
  <2> QED BY <1>2, <2>1, <2>2 DEF Fragments, Claims
<1> QED BY <1>1, <1>4, <1>5 DEF Fragments

\* What is on the list and in the count when the mover is at work.
LEMMA SoleNow ==
    ASSUME Fragments, Alone', NEW l \in Lun, Others(l), OnList(l) \/ OnList(l)'
    PROVE  /\ Linked = Tied(l) /\ Linked' = Tied(l)'
           /\ Ahead = Debt(l) /\ Ahead' = Debt(l)'
           /\ \A k \in Lun, p \in Frag : (Unmapping(k, p) \/ Unmapping(k, p)') => k = l
           /\ \A k \in Lun \ {l} : Moving(k)'
BY Sole DEF Fragments

\* The fragment points at its LUN: the put goes ahead.
LEMMA PutCheckStep ==
    ASSUME TypeOK, Fragments, NEW l \in Lun, Others(l), Alone', PutCheck(l)
    PROVE  Fragments'
<1> USE DEF fragvars, listvars, histvars
<1>1. pc[l] = "put" /\ OnList(l) /\ Moving(l) BY DEF PutCheck, OnList, Fragments
<1>2. mark[arg[l]] = vic[l] /\ vic[l] \in Lun BY <1>1 DEF Moving, Putting, TypeOK
<1>3. mark[arg[l]] # "list" BY <1>2, LunLocksAssumption
<1>4. pc'[l] = "mark" /\ UNCHANGED <<arg, vic, cnt, map, mark, svc, hold, head, next, nrFree, stolen>>
  BY <1>3 DEF PutCheck, Go, TypeOK
<1>5. Moving(l)' BY <1>1, <1>4 DEF Moving, Putting, Getting
<1>6. Linked' = Linked BY <1>1, <1>4, SoleNow DEF Tied
<1>7. Ahead = 0 /\ Ahead' = 0 BY <1>1, <1>4, SoleNow DEF Debt
<1>8. nrFree' = nrFree + 0 /\ Ahead' = Ahead + 0 BY <1>4, <1>7 DEF TypeOK
<1>9. Chain' BY <1>4, <1>6, <1>8, ChainKept DEF Fragments
<1> QED BY <1>1, <1>4, <1>5, <1>9, March DEF Putting

\* The owner is overwritten while the fragment is still mapped.
LEMMA PutMarkStep ==
    ASSUME TypeOK, Fragments, NEW l \in Lun, Others(l), Alone', PutMark(l)
    PROVE  Fragments'
<1> USE DEF fragvars, listvars, histvars
<1>1. pc[l] = "mark" /\ OnList(l) /\ Moving(l) BY DEF PutMark, Go, OnList, Fragments
<1>2. pc'[l] = "link" /\ UNCHANGED <<arg, vic, cnt, map, svc, hold, head, next, nrFree, stolen>>
  BY DEF PutMark, Go, TypeOK
<1>3. arg[l] \in Frag BY <1>1, LunLocksAssumption DEF TypeOK, Putting, Frag
<1>4. mark'[arg[l]] = "list" /\ \A p \in Frag : p # arg[l] => mark'[p] = mark[p]
  BY <1>3 DEF PutMark, TypeOK
<1>5. Moving(l)' BY <1>1, <1>2, <1>4 DEF Moving, Putting, Getting
<1>6. \A p \in Frag : Unmapping(l, p)' <=> p = arg[l] BY <1>2 DEF Unmapping, Putting
<1>7. \A p \in Frag : Unmapping(l, p) <=> p = arg[l] BY <1>1 DEF Unmapping, Putting
<1>8. Owned'
  <2>1. SUFFICES ASSUME NEW k \in Lun, NEW p \in map[k]
                 PROVE  mark'[p] = k \/ \E j \in Lun : Unmapping(j, p)' /\ vic'[j] = k
    BY <1>2 DEF Owned
  <2>2. p \in Frag BY DEF TypeOK
  <2>3. CASE p = arg[l] BY <1>1, <1>2, <1>6, <2>2, <2>3 DEF Moving, Putting
  <2>4. CASE p # arg[l] BY <1>1, <1>4, <1>7, <2>2, <2>4, SoleNow DEF Fragments, Owned
  <2> QED BY <2>3, <2>4
<1>9. Claims'
  <2>1. SUFFICES ASSUME NEW k \in Lun, NEW p \in Frag, Relies(k, p)', <<k, p>> \notin stolen
                 PROVE  /\ p \in map[k] /\ mark'[p] = k
                        /\ \A j \in Lun : ~Unmapping(j, p)'
                        /\ hold[k] = p => svc[p] > 0
    BY <1>2 DEF Claims
  <2>2. Relies(k, p) BY <1>2, <2>1 DEF Relies, Others
  <2>3. p # arg[l] BY <1>7, <2>1, <2>2 DEF Fragments, Claims
  <2>4. \A j \in Lun : ~Unmapping(j, p)' BY <1>1, <1>6, <2>3, SoleNow
  <2> QED BY <1>4, <2>1, <2>2, <2>3, <2>4 DEF Fragments, Claims
<1>10. Linked' = Linked
  <2>1. mark[arg[l]] \in Lun BY <1>1 DEF Moving, Putting, TypeOK
  <2>2. mark[arg[l]] # "list" BY <2>1, LunLocksAssumption
  <2> QED BY <1>1, <1>2, <1>4, <2>2, SoleNow DEF Tied
<1>11. Ahead = 0 /\ Ahead' = 0 BY <1>1, <1>2, SoleNow DEF Debt
<1>12. nrFree' = nrFree + 0 /\ Ahead' = Ahead + 0 BY <1>2, <1>11 DEF TypeOK
<1>13. Chain' BY <1>2, <1>10, <1>12, ChainKept DEF Fragments
<1>14. \A k \in Lun : Moving(k)' BY <1>1, <1>5, SoleNow
<1> QED BY <1>8, <1>9, <1>13, <1>14 DEF Fragments

LEMMA PutLinkStep ==
    ASSUME TypeOK, Fragments, NEW l \in Lun, Others(l), Alone', PutLink(l)
    PROVE  Fragments'
<1> USE DEF fragvars, listvars, histvars
<1>1. pc[l] = "link" /\ OnList(l) /\ Moving(l) BY DEF PutLink, Go, OnList, Fragments
<1>2. pc'[l] = "head" /\ UNCHANGED <<arg, vic, cnt, map, mark, svc, hold, head, nrFree, stolen>>
  BY DEF PutLink, Go, TypeOK
<1>3. arg[l] \in Frag BY <1>1, LunLocksAssumption DEF TypeOK, Putting, Frag
<1>4. next'[arg[l]] = head /\ \A p \in Frag : p # arg[l] => next'[p] = next[p]
  BY <1>3 DEF PutLink, TypeOK
<1>5. Moving(l)' BY <1>1, <1>2, <1>4 DEF Moving, Putting, Getting
<1>6. Linked' = Linked BY <1>1, <1>2, SoleNow DEF Tied
<1>7. \A p \in Linked : p \in Frag /\ p # arg[l] BY <1>1, SoleNow DEF Tied
<1>8. Ahead = 0 /\ Ahead' = 0 BY <1>1, <1>2, SoleNow DEF Debt
<1>9. nrFree' = nrFree + 0 /\ Ahead' = Ahead + 0 BY <1>2, <1>8 DEF TypeOK
<1>10. Chain' BY <1>2, <1>4, <1>6, <1>7, <1>9, ChainKept DEF Fragments
<1> QED BY <1>1, <1>2, <1>5, <1>10, March DEF Putting

\* The fragment becomes the first one of the list.
LEMMA PutHeadStep ==
    ASSUME TypeOK, Fragments, NEW l \in Lun, Others(l), Alone', PutHead(l)
    PROVE  Fragments'
<1> USE DEF fragvars, listvars, histvars
<1>1. pc[l] = "head" /\ OnList(l) /\ Moving(l) BY DEF PutHead, Go, OnList, Fragments
<1>2. pc'[l] = "inc" /\ UNCHANGED <<arg, vic, cnt, map, mark, svc, hold, next, nrFree, stolen>> /\ head' = arg[l]
  BY DEF PutHead, Go, TypeOK
<1>3. arg[l] \in Frag BY <1>1, LunLocksAssumption DEF TypeOK, Putting, Frag
<1>4. next[arg[l]] = head /\ mark[arg[l]] = "list" BY <1>1 DEF Moving, Putting
<1>5. Moving(l)' BY <1>1, <1>2 DEF Moving, Putting, Getting
<1>6. Linked' = Linked \cup {arg[l]} BY <1>1, <1>2, <1>3, <1>4, SoleNow DEF Tied
<1>7. arg[l] \notin Linked BY <1>1, SoleNow DEF Tied
<1>8. Ahead = 0 /\ Ahead' = -1 BY <1>1, <1>2, SoleNow DEF Debt
<1>9. Chain'
  <2>0. PICK n \in Nat : \E s \in [1 .. n -> Frag] :
          IsChain(n, s) /\ {s[i] : i \in 1 .. n} = Linked /\ nrFree = n + Ahead
    BY DEF Fragments, Chain
  <2>1. PICK s \in [1 .. n -> Frag] : IsChain(n, s) /\ {s[i] : i \in 1 .. n} = Linked /\ nrFree = n + Ahead
    BY <2>0
  <2> DEFINE m == n + 1
  <2>a. [i \in 1 .. m |-> IF i = 1 THEN arg[l] ELSE s[i - 1]] \in [1 .. m -> Frag] BY <1>3
  <2>2. PICK t \in [1 .. m -> Frag] : t = [i \in 1 .. m |-> IF i = 1 THEN arg[l] ELSE s[i - 1]]
    BY <2>a
  <2>3. t[1] = arg[l] /\ \A i \in 2 .. m : t[i] = s[i - 1] /\ i - 1 \in 1 .. n BY <2>2
  <2>4. \A i \in 1 .. n : s[i] \in Linked /\ s[i] # arg[l] /\ s[i] = t[i + 1] BY <1>7, <2>1, <2>2
  <2>5. {t[i] : i \in 1 .. m} = Linked'
    <3>1. ASSUME NEW p \in Linked' PROVE \E i \in 1 .. m : p = t[i]
      <4>1. CASE p = arg[l] BY <2>3, <4>1
      <4>2. CASE p # arg[l]
        <5>1. PICK i \in 1 .. n : p = s[i] BY <1>6, <2>1, <3>1, <4>2
        <5>2. i + 1 \in 1 .. m OBVIOUS
        <5> QED BY <2>4, <5>1, <5>2
      <4> QED BY <4>1, <4>2
    <3>2. ASSUME NEW i \in 1 .. m PROVE t[i] \in Linked'
      <4>1. CASE i = 1 BY <1>6, <2>3, <4>1
      <4>2. CASE i # 1
        <5>1. i \in 2 .. m BY <4>2
        <5> QED BY <1>6, <2>3, <2>4, <5>1
      <4> QED BY <4>1, <4>2
    <3> QED BY <3>1, <3>2
  <2>6. \A i, j \in 1 .. m : t[i] = t[j] => i = j
    <3>1. SUFFICES ASSUME NEW i \in 1 .. m, NEW j \in 1 .. m, t[i] = t[j] PROVE i = j OBVIOUS
    <3>2. CASE i = 1 \/ j = 1
      <4>1. \A x \in 2 .. m : t[x] # t[1] BY <2>3, <2>4
      <4> QED BY <3>1, <3>2, <4>1
    <3>3. CASE i # 1 /\ j # 1
      <4>1. i \in 2 .. m /\ j \in 2 .. m BY <3>3
      <4>2. s[i - 1] = s[j - 1] /\ i - 1 \in 1 .. n /\ j - 1 \in 1 .. n BY <2>3, <3>1, <4>1
      <4>3. i - 1 = j - 1 BY <2>1, <4>2 DEF IsChain
      <4> QED BY <4>3
    <3> QED BY <3>2, <3>3
  <2>7. \A i \in 1 .. m : next'[t[i]] = IF i = m THEN 0 ELSE t[i + 1]
    <3>1. ASSUME NEW i \in 1 .. m PROVE next[t[i]] = IF i = m THEN 0 ELSE t[i + 1]
      <4>1. CASE i = 1
        <5>1. next[t[1]] = IF n = 0 THEN 0 ELSE s[1] BY <1>4, <2>1, <2>3 DEF IsChain
        <5>2. n # 0 => 1 \in 1 .. n /\ s[1] = t[2] BY <2>4
        <5> QED BY <4>1, <5>1, <5>2
      <4>2. CASE i # 1
        <5>1. i \in 2 .. m BY <4>2
        <5>2. t[i] = s[i - 1] /\ i - 1 \in 1 .. n BY <2>3, <5>1
        <5>3. next[t[i]] = IF i - 1 = n THEN 0 ELSE s[(i - 1) + 1] BY <2>1, <5>2 DEF IsChain
        <5>4. i # m => i \in 1 .. n /\ s[i] = t[i + 1] BY <2>4
        <5> QED BY <5>3, <5>4
      <4> QED BY <4>1, <4>2
    <3> QED BY <1>2, <3>1
  <2>8. IsChain(m, t)' BY <1>2, <2>3, <2>6, <2>7 DEF IsChain
  <2>9. nrFree' = m + Ahead' BY <1>2, <1>8, <2>1
  <2>10. m \in Nat OBVIOUS
  <2> HIDE DEF m
  <2> QED BY <2>5, <2>8, <2>9, <2>10 DEF Chain
<1> QED BY <1>1, <1>2, <1>5, <1>9, March DEF Putting

LEMMA LoadFreeStep ==
    ASSUME TypeOK, Fragments, NEW l \in Lun, Others(l), Alone', LoadFree(l)
    PROVE  Fragments'
<1> USE DEF fragvars, listvars, histvars
<1>1. (pc[l] = "inc" /\ pc'[l] = "inc_store") \/ (pc[l] = "dec" /\ pc'[l] = "dec_store")
  BY DEF LoadFree, Go, TypeOK
<1>2. UNCHANGED <<arg, vic, map, mark, svc, hold, head, next, nrFree, stolen>> /\ cnt'[l] = nrFree
  BY DEF LoadFree, TypeOK
<1>3. OnList(l) /\ Moving(l) BY <1>1 DEF OnList, Fragments
<1>4. Moving(l)' BY <1>1, <1>2, <1>3 DEF Moving, Putting, Getting
<1>5. Linked' = Linked BY <1>1, <1>2, <1>3, SoleNow DEF Tied
<1>6. Ahead' = Ahead BY <1>1, <1>3, SoleNow DEF Debt
<1>7. nrFree' = nrFree + 0 /\ Ahead' = Ahead + 0 BY <1>2, <1>6 DEF TypeOK, Ahead
<1>8. Chain' BY <1>2, <1>5, <1>7, ChainKept DEF Fragments
<1>9. pc[l] \in Putting <=> pc'[l] \in Putting BY <1>1 DEF Putting
<1>10. pc'[l] # "hit" BY <1>1
<1> QED BY <1>2, <1>3, <1>4, <1>8, <1>9, <1>10, March

LEMMA StoreFreeStep ==
    ASSUME TypeOK, Fragments, NEW l \in Lun, Others(l), Alone', StoreFree(l)
    PROVE  Fragments'
<1> USE DEF fragvars, listvars, histvars
<1>1. \/ pc[l] = "inc_store" /\ pc'[l] \in {"clear", "bug"} /\ nrFree' = cnt[l] + 1
      \/ pc[l] = "dec_store" /\ pc'[l] = "map" /\ nrFree' = cnt[l] - 1
  BY DEF StoreFree, Go, TypeOK
<1>2. UNCHANGED <<arg, vic, cnt, map, mark, svc, hold, head, next, stolen>> BY DEF StoreFree
<1>3. OnList(l) /\ Moving(l) BY <1>1 DEF OnList, Fragments
<1>4. Moving(l)' BY <1>1, <1>2, <1>3 DEF Moving, Putting, Getting
<1>5. Linked' = Linked BY <1>1, <1>2, <1>3, SoleNow DEF Tied
<1>6. cnt[l] = nrFree /\ nrFree \in Int BY <1>1, <1>3 DEF Moving, TypeOK
<1>7. Chain'
  <2>1. CASE pc[l] = "inc_store"
    <3>1. Ahead = -1 /\ Ahead' = 0 BY <1>1, <1>3, <2>1, SoleNow DEF Debt
    <3>2. nrFree' = nrFree + 1 /\ Ahead' = Ahead + 1 BY <1>1, <1>6, <2>1, <3>1
    <3> QED BY <1>2, <1>5, <3>2, ChainKept DEF Fragments
  <2>2. CASE pc[l] = "dec_store"
    <3>1. Ahead = 1 /\ Ahead' = 0 BY <1>1, <1>3, <2>2, SoleNow DEF Debt
    <3>2. nrFree' = nrFree + (-1) /\ Ahead' = Ahead + (-1) BY <1>1, <1>6, <2>2, <3>1
    <3> QED BY <1>2, <1>5, <3>2, ChainKept DEF Fragments
  <2> QED BY <1>1, <2>1, <2>2
<1>8. pc[l] \in Putting <=> pc'[l] \in Putting BY <1>1 DEF Putting
<1>9. pc'[l] # "hit" BY <1>1
<1> QED BY <1>2, <1>3, <1>4, <1>7, <1>8, <1>9, March

\* The mapping goes last; nobody who is not told so relies on it.
LEMMA ClearStep ==
    ASSUME TypeOK, Fragments, NEW l \in Lun, Others(l), Alone', Clear(l)
    PROVE  Fragments'
<1> USE DEF fragvars, listvars, histvars
<1>1. pc[l] = "clear" /\ OnList(l) /\ Moving(l) BY DEF Clear, OnList, Fragments
<1>2. UNCHANGED <<mark, svc, hold, head, next, nrFree, stolen>> BY DEF Clear
<1>3. pc'[l] \in {"get", "idle"} BY DEF Clear, Return, Unlock, TypeOK
<1>4. \A k \in Lun, p \in Frag : ~Unmapping(k, p)'
  BY <1>1, <1>3, SoleNow DEF Unmapping, Putting
<1>5. \A p \in Frag : Unmapping(l, p) <=> p = arg[l] BY <1>1 DEF Unmapping, Putting
<1>6. \A k \in Lun : map'[k] = IF k = vic[l] THEN map[k] \ {arg[l]} ELSE map[k] BY DEF Clear, TypeOK
<1>7. Owned'
  <2>1. SUFFICES ASSUME NEW k \in Lun, NEW p \in map'[k] PROVE mark[p] = k BY <1>2 DEF Owned
  <2>2. p \in map[k] /\ p \in Frag /\ ~(k = vic[l] /\ p = arg[l]) BY <1>6 DEF TypeOK
  <2> QED BY <1>1, <1>5, <2>2, SoleNow DEF Fragments, Owned
<1>8. Claims'
  <2>1. SUFFICES ASSUME NEW k \in Lun, NEW p \in Frag, Relies(k, p)', <<k, p>> \notin stolen
                 PROVE  p \in map'[k] /\ mark[p] = k /\ (hold[k] = p => svc[p] > 0)
    BY <1>2, <1>4 DEF Claims
  <2>2. Relies(k, p) BY <1>2, <1>3, <2>1 DEF Relies, Others
  <2>3. p # arg[l] BY <1>5, <2>1, <2>2 DEF Fragments, Claims
  <2> QED BY <1>6, <2>1, <2>2, <2>3 DEF Fragments, Claims
<1>9. Moving(l)' BY <1>3 DEF Moving, Putting, Getting
<1>10. \A k \in Lun : Moving(k)' BY <1>1, <1>9, SoleNow
<1>11. Linked' = Linked BY <1>1, <1>2, <1>3, SoleNow DEF Tied
<1>12. Ahead = 0 /\ Ahead' = 0 BY <1>1, <1>3, SoleNow DEF Debt
<1>13. nrFree' = nrFree + 0 /\ Ahead' = Ahead + 0 BY <1>2, <1>12 DEF TypeOK
<1>14. Chain' BY <1>2, <1>11, <1>13, ChainKept DEF Fragments
<1> QED BY <1>7, <1>8, <1>10, <1>14 DEF Fragments

\* The first fragment of the list is in no map.
LEMMA GetHeadStep ==
    ASSUME TypeOK, Fragments, NEW l \in Lun, Others(l), Alone', GetHead(l)
    PROVE  Fragments'
<1> USE DEF fragvars, listvars, histvars
<1>1. pc[l] = "get" /\ ~OnList(l) BY DEF GetHead, Go, OnList
<1>2. UNCHANGED <<map, mark, svc, hold, head, next, nrFree, stolen>> /\ arg'[l] = head BY DEF GetHead, TypeOK
<1>3. pc'[l] = IF head = 0 THEN "evict" ELSE "take" BY DEF GetHead, Go, TypeOK
<1>4. CASE head = 0
  <2>1. ~OnList(l)' /\ pc'[l] # "hit" BY <1>3, <1>4 DEF OnList
  <2> QED BY <1>1, <1>2, <2>1, ClaimsKept, StillStep
<1>5. CASE head # 0
  <2>1. pc'[l] = "take" /\ OnList(l)' BY <1>3, <1>5 DEF OnList
  <2>2. head \in Linked
    <3>0. PICK n \in Nat : \E s \in [1 .. n -> Frag] : IsChain(n, s) /\ {s[i] : i \in 1 .. n} = Linked
      BY DEF Fragments, Chain
    <3>1. PICK s \in [1 .. n -> Frag] : IsChain(n, s) /\ {s[i] : i \in 1 .. n} = Linked BY <3>0
    <3>2. n # 0 /\ head = s[1] BY <1>5, <3>1 DEF IsChain
    <3>3. 1 \in 1 .. n BY <3>2
    <3> QED BY <3>1, <3>2, <3>3
  <2>3. head \in Frag /\ mark[head] = "list" BY <2>2 DEF Linked
  <2>4. \A k \in Lun, p \in Frag : ~Unmapping(k, p) BY <1>1, <2>1, SoleNow DEF Unmapping, Putting
  <2>5. \A k \in Lun : head \notin map[k] BY <2>3, <2>4, LunLocksAssumption DEF Fragments, Owned
  <2>6. Moving(l)' BY <1>2, <2>1, <2>3, <2>5 DEF Moving, Putting, Getting
  <2>7. Linked' = Linked BY <1>1, <1>2, <2>1, SoleNow DEF Tied
  <2>8. Ahead = 0 /\ Ahead' = 0 BY <1>1, <2>1, SoleNow DEF Debt
  <2>9. nrFree' = nrFree + 0 /\ Ahead' = Ahead + 0 BY <1>2, <2>8 DEF TypeOK
  <2>10. Chain' BY <1>2, <2>7, <2>9, ChainKept DEF Fragments
  <2>11. pc[l] \notin Putting /\ pc'[l] \notin Putting /\ pc'[l] # "hit" BY <1>1, <2>1 DEF Putting
  <2> QED BY <1>2, <2>1, <2>6, <2>10, <2>11, March
<1> QED BY <1>4, <1>5

\* The list loses its first fragment.
LEMMA GetTakeStep ==
    ASSUME TypeOK, Fragments, NEW l \in Lun, Others(l), Alone', GetTake(l)
    PROVE  Fragments'
<1> USE DEF fragvars, listvars, histvars
<1>1. pc[l] = "take" /\ OnList(l) /\ Moving(l) BY DEF GetTake, Go, OnList, Fragments
<1>2. pc'[l] = "untie" /\ UNCHANGED <<arg, vic, cnt, map, mark, svc, hold, next, nrFree, stolen>>
      /\ head' = next[arg[l]]
  BY DEF GetTake, Go, TypeOK
<1>3. arg[l] \in Frag BY <1>1, LunLocksAssumption DEF TypeOK, Getting, Frag
<1>4. head = arg[l] BY <1>1 DEF Moving
<1>5. Moving(l)' BY <1>1, <1>2 DEF Moving, Putting, Getting
<1>6. Linked' = Linked \ {arg[l]} BY <1>1, <1>2, <1>3, SoleNow DEF Tied
<1>7. Ahead = 0 /\ Ahead' = 1 BY <1>1, <1>2, SoleNow DEF Debt
<1>8. Chain'
  <2>0. PICK n \in Nat : \E s \in [1 .. n -> Frag] :
          IsChain(n, s) /\ {s[i] : i \in 1 .. n} = Linked /\ nrFree = n + Ahead
    BY DEF Fragments, Chain
  <2>1. PICK s \in [1 .. n -> Frag] : IsChain(n, s) /\ {s[i] : i \in 1 .. n} = Linked /\ nrFree = n + Ahead
    BY <2>0
  <2>2. 0 \notin Frag BY LunLocksAssumption DEF Frag
  <2>3. n # 0 /\ s[1] = arg[l] /\ 1 \in 1 .. n BY <1>3, <1>4, <2>1, <2>2 DEF IsChain
  <2> DEFINE m == n - 1
  <2>a. m \in Nat BY <2>3
  <2>b. [i \in 1 .. m |-> s[i + 1]] \in [1 .. m -> Frag] OBVIOUS
  <2>4. PICK t \in [1 .. m -> Frag] : t = [i \in 1 .. m |-> s[i + 1]] BY <2>b
  <2>5. \A i \in 1 .. m : t[i] = s[i + 1] /\ i + 1 \in 1 .. n /\ t[i] \in Linked /\ t[i] # arg[l]
    <3>1. ASSUME NEW i \in 1 .. m PROVE t[i] = s[i + 1] /\ i + 1 \in 1 .. n /\ i + 1 # 1 BY <2>4
    <3> QED BY <2>1, <2>3, <3>1 DEF IsChain
  <2>6. {t[i] : i \in 1 .. m} = Linked'
    <3>1. ASSUME NEW p \in Linked' PROVE \E i \in 1 .. m : p = t[i]
      <4>1. PICK i \in 1 .. n : p = s[i] BY <1>6, <2>1, <3>1
      <4>2. i # 1 BY <1>6, <2>3, <3>1, <4>1
      <4>3. i - 1 \in 1 .. m /\ t[i - 1] = s[i] BY <2>4, <4>2
      <4> QED BY <4>1, <4>3
    <3>2. ASSUME NEW i \in 1 .. m PROVE t[i] \in Linked' BY <1>6, <2>5
    <3> QED BY <3>1, <3>2
  <2>7. \A i, j \in 1 .. m : t[i] = t[j] => i = j
    <3>1. SUFFICES ASSUME NEW i \in 1 .. m, NEW j \in 1 .. m, t[i] = t[j] PROVE i = j OBVIOUS
    <3>2. i + 1 = j + 1 BY <2>1, <2>5, <3>1 DEF IsChain
    <3> QED BY <3>2
  <2>8. \A i \in 1 .. m : next'[t[i]] = IF i = m THEN 0 ELSE t[i + 1]
    <3>1. ASSUME NEW i \in 1 .. m PROVE next[t[i]] = IF i = m THEN 0 ELSE t[i + 1]
      <4>1. next[t[i]] = IF i + 1 = n THEN 0 ELSE s[(i + 1) + 1] BY <2>1, <2>5 DEF IsChain
      <4>2. i # m => i + 1 \in 1 .. m /\ t[i + 1] = s[(i + 1) + 1] BY <2>5
      <4> QED BY <4>1, <4>2
    <3> QED BY <1>2, <3>1
  <2>9. head' = IF m = 0 THEN 0 ELSE t[1]
    <3>1. head' = IF 1 = n THEN 0 ELSE s[1 + 1] BY <1>2, <2>1, <2>3 DEF IsChain
    <3>2. m # 0 => t[1] = s[1 + 1] BY <2>a, <2>5
    <3> QED BY <3>1, <3>2
  <2>10. IsChain(m, t)' BY <2>7, <2>8, <2>9 DEF IsChain
  <2>11. nrFree' = m + Ahead' BY <1>2, <1>7, <2>1
  <2> HIDE DEF m
  <2> QED BY <2>a, <2>6, <2>10, <2>11 DEF Chain
<1> QED BY <1>1, <1>2, <1>5, <1>8, March DEF Putting

LEMMA GetUntieStep ==
    ASSUME TypeOK, Fragments, NEW l \in Lun, Others(l), Alone', GetUntie(l)
    PROVE  Fragments'
<1> USE DEF fragvars, listvars, histvars
<1>1. pc[l] = "untie" /\ OnList(l) /\ Moving(l) BY DEF GetUntie, Go, OnList, Fragments
<1>2. pc'[l] = "dec" /\ UNCHANGED <<arg, vic, cnt, map, svc, hold, head, nrFree, stolen>>
  BY DEF GetUntie, Go, TypeOK
<1>3. arg[l] \in Frag BY <1>1, LunLocksAssumption DEF TypeOK, Getting, Frag
<1>4. mark'[arg[l]] = "free" /\ \A p \in Frag : p # arg[l] => mark'[p] = mark[p] /\ next'[p] = next[p]
  BY <1>3 DEF GetUntie, TypeOK
<1>5. \A k \in Lun : arg[l] \notin map[k] BY <1>1 DEF Moving, Getting
<1>6. \A k \in Lun, p \in Frag : ~Unmapping(k, p) /\ ~Unmapping(k, p)'
  BY <1>1, <1>2, SoleNow DEF Unmapping, Putting
<1>7. Owned'
  <2>1. SUFFICES ASSUME NEW k \in Lun, NEW p \in map[k] PROVE mark'[p] = k BY <1>2 DEF Owned
  <2>2. p \in Frag BY DEF TypeOK
  <2> QED BY <1>4, <1>5, <1>6, <2>2 DEF Fragments, Owned
<1>8. Claims'
  <2>1. SUFFICES ASSUME NEW k \in Lun, NEW p \in Frag, Relies(k, p)', <<k, p>> \notin stolen
                 PROVE  p \in map[k] /\ mark'[p] = k /\ (hold[k] = p => svc[p] > 0)
    BY <1>2, <1>6 DEF Claims
  <2>2. Relies(k, p) BY <1>2, <2>1 DEF Relies, Others
  <2>3. p \in map[k] /\ mark[p] = k /\ (hold[k] = p => svc[p] > 0) BY <2>1, <2>2 DEF Fragments, Claims
  <2> QED BY <1>4, <1>5, <2>3
<1>9. Moving(l)' BY <1>2, <1>4, <1>5 DEF Moving, Putting, Getting
<1>10. \A k \in Lun : Moving(k)' BY <1>1, <1>9, SoleNow
<1>11. Linked' = Linked BY <1>1, <1>2, <1>4, SoleNow DEF Tied
<1>12. \A p \in Linked : next'[p] = next[p]
  <2>1. \A p \in Linked : p \in Frag /\ p # arg[l] BY <1>1, SoleNow DEF Tied
  <2> QED BY <1>4, <2>1
<1>13. Ahead = 1 /\ Ahead' = 1 BY <1>1, <1>2, SoleNow DEF Debt
<1>14. nrFree' = nrFree + 0 /\ Ahead' = Ahead + 0 BY <1>2, <1>13 DEF TypeOK
<1>15. Chain' BY <1>2, <1>11, <1>12, <1>14, ChainKept DEF Fragments
<1> QED BY <1>7, <1>8, <1>10, <1>15 DEF Fragments

\* The fragment is mapped, marked, in service and held by the task at once.
LEMMA MapFragStep ==
    ASSUME TypeOK, Fragments, NEW l \in Lun, Others(l), Alone', MapFrag(l)
    PROVE  Fragments'
<1> USE DEF fragvars, listvars, histvars
<1>1. pc[l] = "map" /\ OnList(l) /\ Moving(l) BY DEF MapFrag, OnList, Fragments
<1>2. pc'[l] = "idle" /\ UNCHANGED <<head, next, nrFree>> /\ hold'[l] = arg[l]
  BY DEF MapFrag, Unlock, TypeOK
<1>3. arg[l] \in Frag BY <1>1, LunLocksAssumption DEF TypeOK, Getting, Frag
<1>4. /\ mark'[arg[l]] = l /\ svc'[arg[l]] = 1
      /\ \A p \in Frag : p # arg[l] => mark'[p] = mark[p] /\ svc'[p] = svc[p]
  BY <1>3 DEF MapFrag, TypeOK
<1>5. (\A k \in Lun : arg[l] \notin map[k]) /\ mark[arg[l]] = "free" BY <1>1 DEF Moving, Getting
<1>6. \A k \in Lun : map'[k] = IF k = l THEN map[k] \cup {arg[l]} ELSE map[k] BY DEF MapFrag, TypeOK
<1>7. \A k \in Lun, p \in Frag : ~Unmapping(k, p) /\ ~Unmapping(k, p)'
  BY <1>1, <1>2, SoleNow DEF Unmapping, Putting
<1>8. Owned'
  <2>1. SUFFICES ASSUME NEW k \in Lun, NEW p \in map'[k] PROVE mark'[p] = k BY DEF Owned
  <2>2. CASE p = arg[l] BY <1>4, <1>5, <1>6, <2>1, <2>2
  <2>3. CASE p # arg[l]
    <3>1. p \in map[k] /\ p \in Frag BY <1>6, <2>1, <2>3 DEF TypeOK
    <3> QED BY <1>4, <1>7, <2>3, <3>1 DEF Fragments, Owned
  <2> QED BY <2>2, <2>3
<1>9. Claims'
  <2>1. SUFFICES ASSUME NEW k \in Lun, NEW p \in Frag, Relies(k, p)', <<k, p>> \notin stolen'
                 PROVE  p \in map'[k] /\ mark'[p] = k /\ (hold'[k] = p => svc'[p] > 0)
    BY <1>7 DEF Claims
  <2>2. CASE k = l
    <3>1. p = arg[l] BY <1>2, <2>1, <2>2 DEF Relies
    <3>2. p \in map'[k] BY <1>6, <2>2, <3>1
    <3>3. mark'[p] = k /\ svc'[p] > 0 BY <1>4, <2>2, <3>1
    <3> QED BY <3>2, <3>3
  <2>3. CASE k # l
    <3>1. Relies(k, p) /\ hold'[k] = hold[k] BY <2>1, <2>3 DEF Relies, Others
    <3>2. <<k, p>> \notin stolen BY <2>1, <2>3 DEF MapFrag
    <3>3. p \in map[k] /\ mark[p] = k /\ (hold[k] = p => svc[p] > 0) BY <3>1, <3>2 DEF Fragments, Claims
    <3> QED BY <1>4, <1>5, <1>6, <2>3, <3>1, <3>3
  <2> QED BY <2>2, <2>3
<1>10. Moving(l)' BY <1>2 DEF Moving, Putting, Getting
<1>11. \A k \in Lun : Moving(k)' BY <1>1, <1>10, SoleNow
<1>12. Linked' = Linked
  <2>1. mark'[arg[l]] # "list" BY <1>4, LunLocksAssumption
  <2>2. Linked = {p \in Frag : mark[p] = "list"} BY <1>1, SoleNow DEF Tied
  <2>3. Linked' = {p \in Frag : mark'[p] = "list"} BY <1>1, <1>2, SoleNow DEF Tied
  <2>4. \A p \in Frag : mark'[p] = "list" <=> mark[p] = "list" BY <1>4, <1>5, <2>1
  <2> QED BY <2>2, <2>3, <2>4
<1>13. Ahead = 0 /\ Ahead' = 0 BY <1>1, <1>2, SoleNow DEF Debt
<1>14. nrFree' = nrFree + 0 /\ Ahead' = Ahead + 0 BY <1>2, <1>13 DEF TypeOK
<1>15. Chain' BY <1>2, <1>12, <1>14, ChainKept DEF Fragments
<1> QED BY <1>8, <1>9, <1>11, <1>15 DEF Fragments
-----------------------------------------------------------------------------
(* The invariant. *)

LEMMA FragmentsStep ==
    ASSUME TypeOK, Fragments, NEW l \in Lun, Step(l), Alone' PROVE Fragments'
<1>1. Others(l) BY OthersStep
<1> QED BY <1>1, HitLookStep, HitCountStep, PutStep, QuietStep, UnmapCheckStep, PutCheckStep, PutMarkStep,
           PutLinkStep, PutHeadStep, LoadFreeStep, StoreFreeStep, ClearStep, GetHeadStep, GetTakeStep,
           GetUntieStep, MapFragStep DEF Step

LEMMA NextIInv == IInv /\ [Next]_vars => IInv'
<1> SUFFICES ASSUME IInv, [Next]_vars PROVE IInv' OBVIOUS
<1>1. CASE Next
  <2>1. PICK l \in Lun : Step(l) BY <1>1 DEF Next
  <2>2. raced' = (raced \/ \E j, k \in Lun : j # k /\ OnList(j)' /\ OnList(k)') BY <1>1 DEF Next
  <2>3. raced' \in BOOLEAN BY <2>2
  <2>4. TypeOK' BY <2>1, <2>3, TypeStep DEF IInv
  <2>5. Ring' BY <2>1, RingStep DEF IInv
  <2>6. ASSUME ~raced' PROVE Fragments'
    <3>1. ~raced /\ Alone' BY <2>2, <2>6 DEF Alone
    <3> QED BY <2>1, <3>1, FragmentsStep DEF IInv
  <2> QED BY <2>4, <2>5, <2>6 DEF IInv
<1>2. CASE UNCHANGED vars
  <2> USE DEF vars, locvars, fragvars, listvars, histvars
  <2>1. TypeOK' BY <1>2 DEF IInv, TypeOK
  <2>2. Ring' BY <1>2 DEF IInv, Ring
  <2>3. ~raced' => Fragments'
    <3>1. SUFFICES ASSUME Fragments PROVE Fragments' BY <1>2 DEF IInv
    <3>2. Alone' /\ Owned' BY <1>2, <3>1 DEF Fragments, Alone, OnList, Owned, Unmapping
    <3>3. Claims' BY <1>2, <3>1 DEF Fragments, Claims, Relies, Unmapping
    <3>4. \A k \in Lun : Moving(k)' BY <1>2, <3>1 DEF Fragments, Moving
    <3>5. Chain' BY <1>2, <3>1 DEF Fragments, Chain, IsChain, Linked, Ahead
    <3> QED BY <3>2, <3>3, <3>4, <3>5 DEF Fragments
  <2> QED BY <2>1, <2>2, <2>3 DEF IInv
<1> QED BY <1>1, <1>2

\* The inductive invariant holds of every behaviour: the log's head is in the
\* ring, and until two threads move fragments at once each fragment is on the
\* list, mapped, or in the hands of the one thread that moves it.
THEOREM Invariance == Spec => []IInv
BY InitIInv, NextIInv, PTL DEF Spec

\* Overlapping puts into the miss log leave its head in the ring unless one
\* of them loads the head in the middle of another one's wrap (_misslog_put).
THEOREM HeadStays == Spec => []HeadInRing
<1>1. IInv => HeadInRing BY LunLocksAssumption DEF IInv, TypeOK, Ring, HeadInRing
<1> QED BY <1>1, Invariance, PTL

\* Until two threads move fragments at once, a request or task in flight
\* keeps its fragment unless a population of another LUN evicted it.
THEOREM HeldKept == Spec => []HeldUnlessStolen
<1>1. IInv => HeldUnlessStolen
  <2>1. SUFFICES ASSUME IInv, ~raced, NEW l \in Lun, hold[l] # 0, <<l, hold[l]>> \notin stolen
                 PROVE  hold[l] \in map[l] /\ mark[hold[l]] = l /\ svc[hold[l]] > 0
    BY DEF HeldUnlessStolen
  <2>2. hold[l] \in Frag BY <2>1, LunLocksAssumption DEF IInv, TypeOK, Frag
  <2> QED BY <2>1, <2>2 DEF IInv, Fragments, Claims, Relies
<1> QED BY <1>1, Invariance, PTL
-----------------------------------------------------------------------------
(* The list as _freefraglist_get walks it. *)

\* A set of naturals has a least member: how At is followed along the list.
LEMMA Least ==
    ASSUME NEW T, T \subseteq Nat, T # {}
    PROVE  \E x \in T : \A y \in T : x <= y
<1>1. PICK x \in T : \A y \in T : ~(<<y, x>> \in OpToRel(<, Nat))
  BY NatLessThanWellFounded, WFMin
<1>2. \A y \in T : ~(y < x) BY <1>1 DEF OpToRel
<1>3. \A y \in T : y \in Nat /\ x \in Nat OBVIOUS
<1> QED BY <1>2, <1>3

\* The equation of At has a solution whenever the list is a chain.
LEMMA AtFollows ==
    ASSUME TypeOK, NEW n \in Nat, NEW s \in [1 .. n -> Frag], IsChain(n, s)
    PROVE  \A i \in 0 .. NrFrag : At[i] = IF i < n THEN s[i + 1] ELSE 0
<1> DEFINE g == [i \in 0 .. NrFrag |-> IF i < n THEN s[i + 1] ELSE 0]
           Eq(f) == f = [i \in 0 .. NrFrag |->
                            IF i = 0 THEN head ELSE IF f[i - 1] = 0 THEN 0 ELSE next[f[i - 1]]]
<1>0. NrFrag \in Nat /\ 0 \notin Frag BY LunLocksAssumption DEF Frag
<1>1. ASSUME NEW i \in 0 .. NrFrag
      PROVE  g[i] = IF i = 0 THEN head ELSE IF g[i - 1] = 0 THEN 0 ELSE next[g[i - 1]]
  <2>1. CASE i = 0
    <3>1. g[0] = IF 0 < n THEN s[0 + 1] ELSE 0 BY <1>0
    <3>2. g[0] = head BY <3>1 DEF IsChain
    <3> QED BY <2>1, <3>2
  <2>2. CASE i # 0 /\ i - 1 < n
    <3>1. i - 1 \in 0 .. NrFrag /\ i \in 1 .. n BY <1>0, <2>2
    <3>2. g[i - 1] = s[(i - 1) + 1] BY <2>2, <3>1
    <3>3. g[i - 1] = s[i] /\ s[i] \in Frag BY <3>1, <3>2
    <3>4. next[s[i]] = IF i = n THEN 0 ELSE s[i + 1] BY <3>1 DEF IsChain
    <3>5. g[i] = IF i = n THEN 0 ELSE s[i + 1] BY <3>1
    <3> QED BY <1>0, <2>2, <3>3, <3>4, <3>5
  <2>3. CASE i # 0 /\ ~(i - 1 < n)
    <3>1. i - 1 \in 0 .. NrFrag /\ ~(i < n) BY <1>0, <2>3
    <3>2. g[i - 1] = 0 /\ g[i] = 0 BY <2>3, <3>1
    <3> QED BY <2>3, <3>2
  <2> QED BY <2>1, <2>2, <2>3
<1>2. Eq(g) BY <1>1
<1>3. At = CHOOSE f : Eq(f) BY DEF At
<1>4. Eq(At)
  <2> HIDE DEF Eq, g
  <2> QED BY <1>2, <1>3
<1> DEFINE T == {i \in 0 .. NrFrag : At[i] # g[i]}
<1>5. ASSUME T # {} PROVE FALSE
  <2>1. T \subseteq Nat OBVIOUS
  <2>2. PICK i \in T : \A j \in T : i <= j
    <3> HIDE DEF T
    <3> QED BY <1>5, <2>1, Least
  <2>3. i \in 0 .. NrFrag /\ At[i] # g[i] OBVIOUS
  <2>4. At[i] = IF i = 0 THEN head ELSE IF At[i - 1] = 0 THEN 0 ELSE next[At[i - 1]] BY <1>4, <2>3
  <2>5. g[i] = IF i = 0 THEN head ELSE IF g[i - 1] = 0 THEN 0 ELSE next[g[i - 1]] BY <1>1, <2>3
  <2>6. i # 0 BY <2>3, <2>4, <2>5
  <2>7. i - 1 \in 0 .. NrFrag /\ ~(i <= i - 1) BY <1>0, <2>3, <2>6
  <2>8. i - 1 \notin T BY <2>2, <2>7
  <2>9. At[i - 1] = g[i - 1] BY <2>7, <2>8
  <2> QED BY <2>3, <2>4, <2>5, <2>6, <2>9
<1> QED BY <1>5

\* Until two threads move fragments at once, and while none is being moved,
\* the linked free list is the set module Sce takes it for, nr_freefrag is
\* its length, no fragment on it is mapped and no fragment is mapped twice.
THEOREM ListIsExact == Spec => []ListExact
<1>1. IInv => ListExact
  <2>1. SUFFICES ASSUME IInv, ~raced, \A l \in Lun : ~OnList(l)
                 PROVE  LET listed == {At[n] : n \in 0 .. NrFrag} \ {0}
                        IN  /\ At[NrFrag] = 0
                            /\ listed = {p \in Frag : mark[p] = "list"}
                            /\ nrFree = Cardinality(listed)
                            /\ \A l \in Lun : listed \cap map[l] = {}
                            /\ \A l, k \in Lun : l # k => map[l] \cap map[k] = {}
    BY DEF ListExact
  <2> DEFINE listed == {At[i] : i \in 0 .. NrFrag} \ {0}
             marked == {p \in Frag : mark[p] = "list"}
  <2>2. TypeOK /\ Fragments BY <2>1 DEF IInv
  <2>3. Linked = marked BY <2>1 DEF Linked, OnList
  <2>4. Ahead = 0 BY <2>1 DEF Ahead, OnList
  <2>5. \A k \in Lun : \A p \in map[k] : mark[p] = k
    BY <2>1, <2>2 DEF Fragments, Owned, Unmapping, OnList, Putting
  <2>6. PICK n \in Nat : \E s \in [1 .. n -> Frag] : IsChain(n, s) /\ {s[i] : i \in 1 .. n} = Linked
                                                     /\ nrFree = n + Ahead
    BY <2>2 DEF Fragments, Chain
  <2>7. PICK s \in [1 .. n -> Frag] : IsChain(n, s) /\ {s[i] : i \in 1 .. n} = Linked /\ nrFree = n + Ahead
    BY <2>6
  <2>8. nrFree = n /\ {s[i] : i \in 1 .. n} = marked BY <2>3, <2>4, <2>7
  <2>9. NrFrag \in Nat /\ 0 \notin Frag /\ IsFiniteSet(Frag) /\ Cardinality(Frag) = NrFrag
        /\ IsFiniteSet(1 .. n) /\ Cardinality(1 .. n) = n
    BY LunLocksAssumption, FS_Interval DEF Frag
  <2>10. s \in Bijection(1 .. n, marked)
    <3>1. s \in [1 .. n -> marked] BY <2>8
    <3>2. \A i, j \in 1 .. n : s[i] = s[j] => i = j BY <2>7 DEF IsChain
    <3>3. \A p \in marked : \E i \in 1 .. n : s[i] = p BY <2>8
    <3> QED BY <3>1, <3>2, <3>3 DEF Bijection, Injection, IsInjective, Surjection
  <2>11. Cardinality(marked) = n
    <3>1. ExistsBijection(1 .. n, marked) BY <2>10 DEF ExistsBijection
    <3> HIDE DEF marked
    <3> QED BY <2>9, <3>1, FS_Bijection
  <2>12. n <= NrFrag
    <3>1. marked \in SUBSET Frag OBVIOUS
    <3> HIDE DEF marked
    <3> QED BY <2>9, <2>11, <3>1, FS_Subset
  <2>13. \A i \in 0 .. NrFrag : At[i] = IF i < n THEN s[i + 1] ELSE 0 BY <2>2, <2>7, AtFollows
  <2>14. At[NrFrag] = 0 BY <2>9, <2>12, <2>13
  <2>15. listed = marked
    <3>1. ASSUME NEW p \in marked PROVE p \in listed
      <4>1. PICK i \in 1 .. n : p = s[i] BY <2>8
      <4>2. i - 1 \in 0 .. NrFrag /\ i - 1 < n BY <2>9, <2>12
      <4>3. At[i - 1] = s[(i - 1) + 1] BY <2>13, <4>2
      <4>4. At[i - 1] = p /\ p # 0 BY <2>9, <4>1, <4>3
      <4> QED BY <4>2, <4>4
    <3>2. ASSUME NEW p \in listed PROVE p \in marked
      <4>1. PICK i \in 0 .. NrFrag : p = At[i] OBVIOUS
      <4>2. i < n /\ p = s[i + 1] BY <2>13, <3>2, <4>1
      <4>3. i + 1 \in 1 .. n BY <4>2
      <4> QED BY <2>8, <4>2, <4>3
    <3> QED BY <3>1, <3>2
  <2>16. \A l \in Lun : listed \cap map[l] = {} BY <2>5, <2>15, LunLocksAssumption
  <2>17. \A l, k \in Lun : l # k => map[l] \cap map[k] = {} BY <2>5
  <2>18. nrFree = Cardinality(listed) BY <2>8, <2>11, <2>15
  <2> HIDE DEF marked
  <2> QED BY <2>14, <2>15, <2>16, <2>17, <2>18 DEF marked
<1> QED BY <1>1, Invariance, PTL
=============================================================================
