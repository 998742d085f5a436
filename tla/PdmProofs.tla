----------------------------- MODULE PdmProofs -----------------------------
(***************************************************************************)
(* TLAPS proofs about module Pdm, for any number of threads, any targets,  *)
(* any width of the counters and any number of reads.                      *)
(***************************************************************************)
EXTENDS Pdm, FiniteSetTheorems, TLAPS

Doing == {"none", "error", "begin", "top", "get", "read", "write", "sleep", "exited"}

TypeOK ==
    /\ hits \in Nat /\ misses \in Nat /\ nrFree \in Nat /\ idle \in Nat /\ leaked \in Nat
    /\ wanted \in BOOLEAN
    /\ pdm \in {"create", "live", "destroy", "gone", "oops"} /\ ix \in Nat \ {0}
    /\ thr \in [Thread -> Doing]
    /\ cur \in [Thread -> Nat \X Nat]
    /\ stop \subseteq Thread

\* The counters only grow: a sample is never ahead of them.
SamplesBehind == \A t \in Thread : cur[t][1] <= hits /\ cur[t][2] <= misses

\* Threads with a population task at hand.
Populating == {t \in Thread : thr[t] \in {"read", "write"}}

\* Every fragment is free, idle in the cache, with a thread that populates it,
\* or lost to a read that failed (_pdm_thread does not put its task then):
\* nothing else takes fragments out of use.
Conserved == nrFree + idle + leaked + Cardinality(Populating) = NrFrag

\* pdm_create has not come to these threads.
NotYet == pdm = "create" => \A t \in Thread : t >= ix => thr[t] = "none"

\* The inductive invariant.
IInv == TypeOK /\ SamplesBehind /\ Conserved /\ NotYet
-----------------------------------------------------------------------------
(* The arithmetic of _calc_missrate. *)

LEMMA SmallMod ==
    ASSUME NEW w \in Nat \ {0}, NEW a \in Nat, a < w
    PROVE  a % w = a
OBVIOUS

LEMMA DivAntitone ==
    ASSUME NEW a \in Nat, NEW b \in Nat \ {0}, NEW c \in Nat, b <= c
    PROVE  a \div c <= a \div b
OBVIOUS

\* Without a wrap a counter that has moved is counted right.
LEMMA CountedMoved ==
    ASSUME NEW prev \in Nat, NEW now \in Nat, prev < now, now \div Word = prev \div Word
    PROVE  Counted(prev % Word, now % Word) = now - prev
<1>1. Word \in Nat /\ Word > 0 BY PdmAssumption
<1>2. (prev % Word) < (now % Word) BY <1>1
<1>3. (now % Word) - (prev % Word) = now - prev BY <1>1
<1> QED BY ONLY <1>2, <1>3 DEF Counted

\* What a thread computes when its misses have moved and all fits into a word.
LEMMA RateLemma ==
    ASSUME IInv, NEW t \in Thread, InRange(t), DMiss(t) > 0
    PROVE  LET true == (DMiss(t) * Hundred) \div (DHit(t) + DMiss(t))
           IN  IF DHit(t) > 0 \/ hits = 0
               THEN MissRate(cur[t], Now) = true
               ELSE (hits % Word) + DMiss(t) < Word => MissRate(cur[t], Now) <= true
<1>1. Word \in Nat /\ Word > 0 /\ Hundred \in Nat BY PdmAssumption
<1>2. /\ hits \in Nat /\ misses \in Nat
      /\ cur[t][1] \in Nat /\ cur[t][2] \in Nat
      /\ cur[t][1] <= hits /\ cur[t][2] <= misses
  BY DEF IInv, TypeOK, SamplesBehind
<1>3. DHit(t) \in Nat /\ DMiss(t) \in Nat /\ DMiss(t) * Hundred \in Nat
  BY <1>1, <1>2 DEF DHit, DMiss
<1>4. Counted(cur[t][2] % Word, misses % Word) = DMiss(t)
  <2>1. cur[t][2] < misses BY <1>2 DEF DMiss
  <2>2. misses \div Word = cur[t][2] \div Word BY DEF InRange
  <2> QED BY <1>2, <2>1, <2>2, CountedMoved DEF DMiss
<1>5. (DMiss(t) * Hundred) % Word = DMiss(t) * Hundred
  <2>1. DMiss(t) * Hundred < Word BY DEF InRange
  <2> QED BY ONLY <1>1, <1>3, <2>1, SmallMod
<1>6. PICK hc \in Nat : hc = Counted(cur[t][1] % Word, hits % Word)
  BY <1>1, <1>2 DEF Counted
<1>7. MissRate(cur[t], Now) =
        LET total == (hc + DMiss(t)) % Word
        IN  IF total = 0 THEN 0 ELSE (DMiss(t) * Hundred) \div total
  BY <1>4, <1>5, <1>6 DEF MissRate, Now
<1>8. ASSUME hc + DMiss(t) < Word
      PROVE  MissRate(cur[t], Now) = (DMiss(t) * Hundred) \div (hc + DMiss(t))
  <2>1. (hc + DMiss(t)) % Word = hc + DMiss(t) BY ONLY <1>1, <1>3, <1>6, <1>8, SmallMod
  <2>2. hc + DMiss(t) # 0 BY <1>3, <1>6
  <2> QED BY <1>7, <2>1, <2>2
<1>9. CASE DHit(t) > 0 \/ hits = 0
  <2>1. hc = DHit(t)
    <3>1. CASE DHit(t) > 0
      <4>1. cur[t][1] < hits BY <1>2, <3>1 DEF DHit
      <4>2. hits \div Word = cur[t][1] \div Word BY DEF InRange
      <4> QED BY <1>2, <1>6, <4>1, <4>2, CountedMoved DEF DHit
    <3>2. CASE hits = 0
      <4>1. cur[t][1] = 0 /\ hits % Word = 0 BY <1>1, <1>2, <3>2
      <4> QED BY <1>6, <3>2, <4>1 DEF Counted, DHit
    <3> QED BY <1>9, <3>1, <3>2
  <2>2. hc + DMiss(t) < Word BY <2>1 DEF InRange
  <2> QED BY <1>8, <1>9, <2>1, <2>2
<1>10. CASE ~(DHit(t) > 0 \/ hits = 0)
  <2>1. DHit(t) = 0 /\ cur[t][1] = hits BY <1>2, <1>3, <1>10 DEF DHit
  <2>2. hc = hits % Word
    <3>1. hits % Word \in Int BY <1>1, <1>2
    <3>2. ~((hits % Word) > (hits % Word)) BY ONLY <3>1
    <3> QED BY <1>6, <2>1, <3>2 DEF Counted
  <2>3. ASSUME (hits % Word) + DMiss(t) < Word
        PROVE  MissRate(cur[t], Now) <= (DMiss(t) * Hundred) \div (DHit(t) + DMiss(t))
    <3>1. MissRate(cur[t], Now) = (DMiss(t) * Hundred) \div (hc + DMiss(t)) BY <1>8, <2>2, <2>3
    <3>2. DHit(t) + DMiss(t) <= hc + DMiss(t) /\ DHit(t) + DMiss(t) \in Nat \ {0}
      BY <1>3, <1>6, <2>1
    <3>3. hc + DMiss(t) \in Nat BY <1>3, <1>6
    <3>4. (DMiss(t) * Hundred) \div (hc + DMiss(t)) <= (DMiss(t) * Hundred) \div (DHit(t) + DMiss(t))
      BY ONLY <1>3, <3>2, <3>3, DivAntitone
    <3> QED BY <3>1, <3>4
  <2> QED BY <1>10, <2>3
<1> QED BY <1>9, <1>10
-----------------------------------------------------------------------------
(* Counting the threads that populate. *)

LEMMA ThreadCount ==
    /\ IsFiniteSet(Populating) /\ Cardinality(Populating) \in Nat
    /\ \A t \in Thread \ Populating : Cardinality(Populating \cup {t}) = Cardinality(Populating) + 1
    /\ \A t \in Populating : Cardinality(Populating \ {t}) = Cardinality(Populating) - 1
<1>1. IsFiniteSet(Thread) BY PdmAssumption, FS_Interval DEF Thread
<1>2. Populating \subseteq Thread BY DEF Populating
<1>3. IsFiniteSet(Populating) BY <1>1, <1>2, FS_Subset
<1> QED BY <1>3, FS_CardinalityType, FS_AddElement, FS_RemoveElement

\* A thread moves on with its task, without one, to one, from one.
LEMMA Moves ==
    ASSUME TypeOK, NEW t \in Thread, NEW to, thr' = [thr EXCEPT ![t] = to]
    PROVE  Populating' = IF to \in {"read", "write"} THEN Populating \cup {t} ELSE Populating \ {t}
BY DEF TypeOK, Populating

LEMMA SameCount ==
    ASSUME TypeOK, NEW t \in Thread, NEW from, NEW to, At(t, from, to),
           from \in {"read", "write"} <=> to \in {"read", "write"}
    PROVE  Populating' = Populating
BY Moves DEF At, Populating
-----------------------------------------------------------------------------
LEMMA InitIInv == Init => IInv
<1> SUFFICES ASSUME Init PROVE IInv OBVIOUS
<1>1. TypeOK
  <2>1. thr \in [Thread -> Doing] /\ cur \in [Thread -> Nat \X Nat] BY DEF Init, Doing
  <2>2. wanted \in BOOLEAN BY DEF Init
  <2> QED BY <2>1, <2>2, PdmAssumption DEF Init, TypeOK
<1>2. SamplesBehind BY DEF Init, SamplesBehind
<1>3. Conserved
  <2>1. Populating = {} BY DEF Init, Populating
  <2>2. Cardinality(Populating) = 0 BY <2>1, FS_EmptySet
  <2> QED BY <2>2, PdmAssumption DEF Init, Conserved
<1>4. NotYet BY DEF Init, NotYet
<1> QED BY <1>1, <1>2, <1>3, <1>4 DEF IInv

LEMMA ThreadStep ==
    ASSUME IInv, NEW t \in Thread, Step(t) PROVE IInv'
<1> USE DEF scevars
<1>0. TypeOK /\ SamplesBehind /\ Conserved /\ NotYet BY DEF IInv
<1>1. CASE Begin(t) \/ Sleep(t)
  <2>0. NotYet' BY <1>0, <1>1 DEF Begin, Sleep, NotYet, At, TypeOK
  <2>1. TypeOK' /\ SamplesBehind' BY <1>0, <1>1 DEF Begin, Sleep, TypeOK, SamplesBehind, Doing, At
  <2>2. Populating' = Populating BY <1>0, <1>1, SameCount DEF Begin, Sleep
  <2> QED BY <1>0, <1>1, <2>0, <2>1, <2>2 DEF Begin, Sleep, Conserved, IInv
<1>2. CASE Exit(t)
  <2>0. NotYet' BY <1>0, <1>2 DEF Exit, NotYet, At, TypeOK
  <2>1. TypeOK' /\ SamplesBehind' BY <1>0, <1>2 DEF Exit, TypeOK, SamplesBehind, Doing, At
  <2>2. Populating' = Populating BY <1>0, <1>2, SameCount DEF Exit
  <2> QED BY <1>0, <1>2, <2>0, <2>1, <2>2 DEF Exit, Conserved, IInv
<1>3. CASE Sample(t)
  <2>0. NotYet' BY <1>0, <1>3 DEF Sample, NotYet, At, TypeOK
  <2>1. TypeOK' /\ SamplesBehind' BY <1>0, <1>3 DEF Sample, Now, TypeOK, SamplesBehind, Doing, At
  <2>2. Populating' = Populating BY <1>0, <1>3, SameCount DEF Sample
  <2> QED BY <1>0, <1>3, <2>0, <2>1, <2>2 DEF Sample, Conserved, IInv
<1>4. CASE Get(t)
  <2>0. NotYet' BY <1>0, <1>4 DEF Get, NotYet, At, TypeOK
  <2>1. TypeOK' /\ SamplesBehind'
    BY <1>0, <1>4 DEF Get, TypeOK, SamplesBehind, Doing, At
  <2>2. CASE At(t, "get", "sleep") /\ UNCHANGED <<nrFree, idle>>
    <3>1. Populating' = Populating BY <1>0, <2>2, SameCount
    <3> QED BY <1>0, <1>4, <2>0, <2>1, <2>2, <3>1 DEF Get, Conserved, IInv
  <2>3. CASE /\ At(t, "get", "read")
             /\ (nrFree' = nrFree - 1 /\ idle' = idle) \/ (idle' = idle - 1 /\ nrFree' = nrFree)
    <3>1. Populating' = Populating \cup {t} /\ t \notin Populating
      BY <1>0, <2>3, Moves DEF At, Populating
    <3>2. Cardinality(Populating') = Cardinality(Populating) + 1 BY <3>1, ThreadCount
    <3>3. Cardinality(Populating) \in Nat BY ThreadCount
    <3>4. leaked' = leaked BY <1>4 DEF Get
    <3>5. /\ nrFree \in Int /\ idle \in Int /\ leaked \in Int
          /\ nrFree + idle + leaked + Cardinality(Populating) = NrFrag
      BY <1>0 DEF Conserved, TypeOK
    <3>6. nrFree' + idle' + leaked' + Cardinality(Populating') = NrFrag
      <4>1. CASE nrFree' = nrFree - 1 /\ idle' = idle BY ONLY <3>2, <3>3, <3>4, <3>5, <4>1
      <4>2. CASE idle' = idle - 1 /\ nrFree' = nrFree BY ONLY <3>2, <3>3, <3>4, <3>5, <4>2
      <4> QED BY <2>3, <4>1, <4>2
    <3>7. Conserved' BY <3>6 DEF Conserved
    <3> QED BY <2>0, <2>1, <3>7 DEF IInv
  <2> QED BY <1>0, <1>4, <2>2, <2>3 DEF Get, TypeOK
<1>5. CASE Read(t)
  <2>0. NotYet' BY <1>0, <1>5 DEF Read, NotYet, At, TypeOK
  <2>1. TypeOK' /\ SamplesBehind' BY <1>0, <1>5 DEF Read, TypeOK, SamplesBehind, Doing, At
  <2>2. CASE At(t, "read", "write") /\ UNCHANGED leaked
    <3>1. Populating' = Populating BY <1>0, <2>2, SameCount
    <3> QED BY <1>0, <1>5, <2>0, <2>1, <2>2, <3>1 DEF Read, Conserved, IInv
  <2>3. CASE At(t, "read", "sleep") /\ leaked' = leaked + 1
    <3>1. Populating' = Populating \ {t} /\ t \in Populating
      BY <1>0, <2>3, Moves DEF At, Populating
    <3>2. Cardinality(Populating') = Cardinality(Populating) - 1 BY <3>1, ThreadCount
    <3>3. Cardinality(Populating) \in Nat BY ThreadCount
    <3>4. nrFree' = nrFree /\ idle' = idle BY <1>5 DEF Read
    <3>5. Conserved' BY <1>0, <2>3, <3>2, <3>3, <3>4 DEF Conserved, TypeOK
    <3> QED BY <2>0, <2>1, <3>5 DEF IInv
  <2> QED BY <1>5, <2>2, <2>3 DEF Read
<1>6. CASE Write(t)
  <2>0. NotYet' BY <1>0, <1>6 DEF Write, NotYet, At, TypeOK
  <2>1. TypeOK' /\ SamplesBehind' BY <1>0, <1>6 DEF Write, TypeOK, SamplesBehind, Doing, At
  <2>2. Populating' = Populating \ {t} /\ t \in Populating
    BY <1>0, <1>6, Moves DEF Write, At, Populating
  <2>3. Cardinality(Populating') = Cardinality(Populating) - 1 BY <2>2, ThreadCount
  <2>4. Cardinality(Populating) \in Nat BY ThreadCount
  <2>5. /\ leaked' = leaked
        /\ (nrFree' = nrFree + 1 /\ idle' = idle) \/ (idle' = idle + 1 /\ nrFree' = nrFree)
    BY <1>6 DEF Write
  <2>6. /\ nrFree \in Int /\ idle \in Int /\ leaked \in Int
        /\ nrFree + idle + leaked + Cardinality(Populating) = NrFrag
    BY <1>0 DEF Conserved, TypeOK
  <2>7. nrFree' + idle' + leaked' + Cardinality(Populating') = NrFrag
    <3>1. CASE nrFree' = nrFree + 1 /\ idle' = idle BY ONLY <2>3, <2>4, <2>5, <2>6, <3>1
    <3>2. CASE idle' = idle + 1 /\ nrFree' = nrFree BY ONLY <2>3, <2>4, <2>5, <2>6, <3>2
    <3> QED BY <2>5, <3>1, <3>2
  <2>8. Conserved' BY <2>7 DEF Conserved
  <2> QED BY <2>0, <2>1, <2>8 DEF IInv
<1> QED BY <1>1, <1>2, <1>3, <1>4, <1>5, <1>6 DEF Step

\* pdm_create starts threads that populate nothing yet; pdm_destroy moves none.
LEMMA ManagerStep ==
    ASSUME IInv, Run \/ Created \/ Destroy \/ Kill \/ Killed PROVE IInv'
<1> USE DEF scevars
<1>0. TypeOK /\ SamplesBehind /\ Conserved /\ NotYet BY DEF IInv
<1>1. CASE Run
  <2>1. PICK s \in {"begin", "error"} : thr' = [thr EXCEPT ![ix] = s] BY <1>1 DEF Run
  <2>2. ix \in Thread /\ ix' \in Nat \ {0} BY <1>0, <1>1, PdmAssumption DEF Run, TypeOK, Thread
  <2>3. thr' \in [Thread -> Doing] BY <1>0, <2>1 DEF TypeOK, Doing
  <2>4. TypeOK' BY <1>0, <1>1, <2>2, <2>3 DEF Run, TypeOK
  <2>5. SamplesBehind' BY <1>0, <1>1 DEF Run, SamplesBehind
  <2>6. NotYet' BY <1>0, <1>1, <2>1, <2>2 DEF Run, NotYet, TypeOK, Thread
  <2>7. ix \notin Populating BY <1>0, <1>1, <2>2 DEF Run, NotYet, Populating, Thread
  <2>8. Populating' = Populating
    <3>1. s \notin {"read", "write"} BY <2>1
    <3>2. Populating' = Populating \ {ix} BY <1>0, <2>1, <2>2, <3>1, Moves
    <3> QED BY <2>7, <3>2
  <2>9. Conserved' BY <1>0, <1>1, <2>8 DEF Run, Conserved
  <2> QED BY <2>4, <2>5, <2>6, <2>9 DEF IInv
<1>2. CASE Created \/ Destroy
  <2>1. TypeOK' BY <1>0, <1>2 DEF Created, Destroy, TypeOK
  <2>2. SamplesBehind' /\ Conserved' /\ NotYet'
    BY <1>0, <1>2 DEF Created, Destroy, SamplesBehind, Conserved, Populating, NotYet
  <2> QED BY <2>1, <2>2 DEF IInv
<1>3. CASE Kill
  <2>1. ix \in Thread BY <1>0, <1>3, PdmAssumption DEF Kill, TypeOK, Thread
  <2> QED BY <1>0, <1>3, <2>1 DEF Kill, IInv, TypeOK, SamplesBehind, Conserved, Populating, NotYet
<1>4. CASE Killed
  BY <1>0, <1>4 DEF Killed, IInv, TypeOK, SamplesBehind, Conserved, Populating, NotYet
<1> QED BY <1>1, <1>2, <1>3, <1>4

LEMMA EngineStep ==
    ASSUME IInv, Count \/ Collect PROVE IInv'
<1>0. TypeOK /\ SamplesBehind /\ Conserved /\ NotYet BY DEF IInv
<1>1. CASE Count
  <2>1. wanted' \in BOOLEAN BY <1>0, <1>1 DEF Count, TypeOK
  <2>2. hits' \in Nat /\ misses' \in Nat /\ hits <= hits' /\ misses <= misses'
    <3>1. hits \in Nat /\ misses \in Nat BY <1>0 DEF TypeOK
    <3>2. \/ hits' = hits + 1 /\ misses' = misses
          \/ misses' = misses + 1 /\ hits' = hits
      BY <1>1 DEF Count
    <3> QED BY ONLY <3>1, <3>2
  <2>3. TypeOK' BY <1>0, <1>1, <2>1, <2>2 DEF Count, TypeOK
  <2>4. SamplesBehind' BY <1>0, <1>1, <2>2 DEF Count, TypeOK, SamplesBehind
  <2>5. Conserved' BY <1>0, <1>1 DEF Count, Conserved, Populating
  <2>6. NotYet' BY <1>0, <1>1 DEF Count, NotYet
  <2> QED BY <2>3, <2>4, <2>5, <2>6 DEF IInv
<1>2. CASE Collect
  <2>0. NotYet' BY <1>0, <1>2 DEF Collect, NotYet
  <2>1. TypeOK' /\ SamplesBehind' BY <1>0, <1>2 DEF Collect, TypeOK, SamplesBehind
  <2>2. Populating' = Populating BY <1>2 DEF Collect, Populating
  <2>3. Cardinality(Populating) \in Nat BY ThreadCount
  <2>4. Conserved' BY <1>0, <1>2, <2>2, <2>3 DEF Collect, TypeOK, Conserved
  <2> QED BY <2>0, <2>1, <2>4 DEF IInv
<1> QED BY <1>1, <1>2

LEMMA NextIInv == IInv /\ [Next]_vars => IInv'
<1> SUFFICES ASSUME IInv, [Next]_vars PROVE IInv' OBVIOUS
<1>1. CASE UNCHANGED vars BY <1>1 DEF vars, scevars, IInv, TypeOK, SamplesBehind, Conserved, Populating, NotYet
<1>2. CASE Next BY <1>2, ThreadStep, ManagerStep, EngineStep DEF Next
<1> QED BY <1>1, <1>2

\* The counters, the samples and the states of the threads keep their types,
\* and no sample is ahead of the counters.
THEOREM Invariance == Spec => []IInv
<1>1. Init => IInv BY InitIInv
<1>2. IInv /\ [Next]_vars => IInv' BY NextIInv
<1> QED BY <1>1, <1>2, PTL DEF Spec

\* For counters of any width: while no counter has wrapped since a thread's
\* last sample and the computation fits into a word, _calc_missrate computes
\* the miss rate since then if both counters have moved, and no more than it
\* if only the misses have.
THEOREM RateTrue == Spec => []RateIsTrue
<1>1. IInv => RateIsTrue BY RateLemma DEF RateIsTrue
<1> QED BY <1>1, Invariance, PTL

\* The PDM loses no fragment but by a population whose read fails.
THEOREM FragmentsConserved == Spec => []Conserved
<1>1. IInv => Conserved BY DEF IInv
<1> QED BY <1>1, Invariance, PTL
=============================================================================
