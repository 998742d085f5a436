--------------------------- MODULE MissLogProofs ---------------------------
(***************************************************************************)
(* The ring buffer of sce_misslog.c implements the log of recent misses,   *)
(* for every size of the log, every number of LUNs and every LUN size; and *)
(* the search of sce_population.c through it chooses the hottest fragment. *)
(***************************************************************************)
EXTENDS MissLog, Sequences, NaturalsInduction, WellFoundedInduction, TLAPS

\* The inductive invariant: the part of TypeOK about the log.
RingOK ==
    /\ ring \in [Slot -> LF]
    /\ head \in Slot
    /\ size \in 0 .. LogSize

\* _misslog_get computes a slot of the ring for every entry it may return.
LEMMA IndexInRing ==
    ASSUME head \in Slot, size \in 0 .. LogSize, NEW i \in 0 .. size - 1
    PROVE  Index(i) \in Slot
  BY MissLogAssumption DEF Index, Slot

\* After _misslog_put the latest entry is the one just put.
LEMMA LatestIsNew ==
    ASSUME RingOK, NEW e \in LF, Put(e)
    PROVE  Get(0)' = e
  <1>1. Index(0)' = head
    BY MissLogAssumption DEF RingOK, Put, Index, Wrap, Slot
  <1> QED
    BY <1>1 DEF RingOK, Put, Get

\* After _misslog_put every other entry still in the log is one place older.
LEMMA OthersAge ==
    ASSUME RingOK, NEW e \in LF, Put(e),
           NEW i \in Nat, i + 1 < LogSize, i < size
    PROVE  Get(i + 1)' = Get(i)
  <1>1. Index(i + 1)' = Index(i)
    BY MissLogAssumption DEF RingOK, Put, Index, Wrap, Slot
  <1>2. Index(i) # head /\ Index(i) \in Slot
    BY MissLogAssumption DEF RingOK, Index, Slot
  <1> QED
    BY <1>1, <1>2 DEF RingOK, Put, Get

\* Putting a miss into the ring records it in the log of recent misses.
LEMMA PutRecords ==
    ASSUME RingOK, NEW e \in LF, Put(e)
    PROVE  R!Record(e)
  <1> DEFINE n == IF Len(Recent) < LogSize THEN Len(Recent) + 1 ELSE LogSize
  <1>1. Len(Recent) = size /\ size \in Nat /\ LogSize \in Nat
    BY MissLogAssumption DEF RingOK, Recent
  <1>2. size' = n
    BY <1>1, MissLogAssumption DEF RingOK, Put
  <1>3. ASSUME NEW k \in 1 .. size'
        PROVE  Get(k - 1)' = IF k = 1 THEN e ELSE Recent[k - 1]
    <2>1. CASE k = 1
      <3>1. Get(0)' = e
        BY LatestIsNew
      <3> QED
        BY <2>1, <3>1
    <2>2. CASE k # 1
      <3> DEFINE i == k - 2
      <3>1. i \in Nat /\ i + 1 < LogSize /\ i < size /\ k - 1 = i + 1
        BY <1>1, <1>3, <2>2, MissLogAssumption DEF RingOK, Put
      <3>2. Get(i + 1)' = Get(i)
        BY <3>1, OthersAge
      <3>3. Recent[k - 1] = Get(i)
        <4>1. k - 1 \in 1 .. size
          BY <3>1, <1>1
        <4>2. (k - 1) - 1 = i
          BY <1>3, <1>1
        <4> QED
          BY <4>1, <4>2 DEF Recent
      <3> QED
        BY <3>1, <3>2, <3>3, <2>2
    <2> QED
      BY <2>1, <2>2
  <1>4. Recent' = [k \in 1 .. size' |-> Get(k - 1)']
    BY DEF Recent
  <1>5. Recent' = [k \in 1 .. size' |-> IF k = 1 THEN e ELSE Recent[k - 1]]
    BY <1>3, <1>4
  <1> QED
    BY <1>2, <1>5 DEF R!Record

LEMMA RingInit == Init => RingOK
  BY MissLogAssumption DEF Init, RingOK, Slot, LF, Lun, Frag

LEMMA RingStep == RingOK /\ [Next]_vars => RingOK'
  <1> SUFFICES ASSUME RingOK, [Next]_vars PROVE RingOK'
    OBVIOUS
  <1>1. ASSUME NEW lf \in LF, Miss(lf) PROVE RingOK'
    BY <1>1, MissLogAssumption DEF RingOK, Miss, Put, Wrap, Slot
  <1>2. ASSUME UNCHANGED logvars PROVE RingOK'
    BY <1>2 DEF RingOK, logvars
  <1>3. CASE UNCHANGED vars
    BY <1>2, <1>3 DEF vars
  <1>4. CASE Next
    BY <1>1, <1>2, <1>4 DEF Next, Unmap, Populate, RmLun, AddLun
  <1> QED
    BY <1>3, <1>4

\* The log never leaves its arrays: head stays a legal slot and size within
\* SCE_CACHEMISSLOGSIZE, and what is in the ring are fragment names.
THEOREM RingInvariance == Spec => []RingOK
  BY RingInit, RingStep, PTL DEF Spec

LEMMA RecentInit == Init => R!Init
  BY DEF Init, Recent, R!Init

LEMMA RecentStep == RingOK /\ [Next]_vars => [R!Next]_Recent
  <1> SUFFICES ASSUME RingOK, [Next]_vars PROVE [R!Next]_Recent
    OBVIOUS
  <1>1. ASSUME NEW lf \in LF, Miss(lf) PROVE R!Next
    BY <1>1, PutRecords DEF Miss, R!Next
  <1>2. ASSUME UNCHANGED logvars PROVE UNCHANGED Recent
    BY <1>2 DEF logvars, Recent, Get, Index
  <1>3. CASE UNCHANGED vars
    BY <1>2, <1>3 DEF vars
  <1>4. CASE Next
    BY <1>1, <1>2, <1>4 DEF Next, Unmap, Populate, RmLun, AddLun
  <1> QED
    BY <1>3, <1>4

\* _misslog_put and _misslog_get on the ring implement the log of the most
\* recent misses: initial states map to initial states, a miss records its
\* fragment in front, and no other operation of the engine touches the log.
THEOREM RingImplementsLog == Spec => KeepsRecentMisses
  <1>1. RingOK /\ [Next]_vars => [R!Next]_Recent
    BY RecentStep
  <1> QED
    BY <1>1, RecentInit, RingInvariance, PTL DEF Spec, KeepsRecentMisses, R!Spec
-----------------------------------------------------------------------------
(* The loop of _choose4population. *)

\* A set of naturals has a least member: how a loop is followed step by step.
LEMMA Least ==
    ASSUME NEW T, T \subseteq Nat, T # {}
    PROVE  \E x \in T : \A y \in T : x <= y
  <1>1. PICK x \in T : \A y \in T : ~(<<y, x>> \in OpToRel(<, Nat))
    BY NatLessThanWellFounded, WFMin
  <1>2. \A y \in T : ~(y < x)
    BY <1>1 DEF OpToRel
  <1>3. \A y \in T : y \in Nat /\ x \in Nat
    OBVIOUS
  <1> QED
    BY <1>2, <1>3

\* f follows n steps of a loop with body F from s0.
Follows(f, n, s0, F) ==
    \A i \in 0 .. n : f[i] = IF i = 0 THEN s0 ELSE F[<<f[i - 1], i - 1>>]

\* A loop has a result, whatever its body does: its states are a function of
\* the number of steps.
LEMMA LoopRuns ==
    ASSUME NEW St, NEW s0 \in St, NEW F \in [St \X Nat -> St], NEW n \in Nat
    PROVE  \E f \in [0 .. n -> St] : Follows(f, n, s0, F)
  <1> DEFINE Runs(m) == \E f \in [0 .. m -> St] : Follows(f, m, s0, F)
             T == {m \in Nat : ~Runs(m)}
  <1>1. Runs(0)
    <2> DEFINE f == [i \in 0 .. 0 |-> s0]
    <2>1. f \in [0 .. 0 -> St] /\ Follows(f, 0, s0, F)
      BY DEF Follows
    <2> QED
      BY <2>1
  <1>2. ASSUME NEW m \in Nat, Runs(m)
        PROVE  Runs(m + 1)
    <2>1. PICK f \in [0 .. m -> St] : Follows(f, m, s0, F)
      BY <1>2
    <2> DEFINE g == [i \in 0 .. m + 1 |-> IF i = m + 1 THEN F[<<f[m], m>>] ELSE f[i]]
    <2>2. F[<<f[m], m>>] \in St
      BY <2>1
    <2>3. g \in [0 .. m + 1 -> St]
      BY <2>1, <2>2
    <2>4. ASSUME NEW i \in 0 .. m + 1
          PROVE  g[i] = IF i = 0 THEN s0 ELSE F[<<g[i - 1], i - 1>>]
      <3>1. CASE i = 0
        <4>1. 0 \in 0 .. m + 1 /\ 0 # m + 1 /\ 0 \in 0 .. m
          OBVIOUS
        <4>2. g[0] = f[0]
          BY <4>1
        <4> QED
          BY <2>1, <3>1, <4>1, <4>2 DEF Follows
      <3>2. CASE i = m + 1
        <4>1. i # 0 /\ i - 1 = m /\ m \in 0 .. m + 1 /\ m # m + 1
          BY <3>2
        <4>2. g[m] = f[m] /\ g[i] = F[<<f[m], m>>]
          BY <3>2, <4>1
        <4> QED
          BY <4>1, <4>2
      <3>3. CASE i # 0 /\ i # m + 1
        <4>1. i \in 0 .. m /\ i - 1 \in 0 .. m + 1 /\ i - 1 # m + 1
          BY <3>3
        <4>2. g[i] = f[i] /\ g[i - 1] = f[i - 1]
          BY <3>3, <4>1
        <4> QED
          BY <2>1, <3>3, <4>1, <4>2 DEF Follows
      <3> QED
        BY <3>1, <3>2, <3>3
    <2>5. Follows(g, m + 1, s0, F)
      BY <2>4 DEF Follows
    <2> HIDE DEF g
    <2> QED
      BY <2>3, <2>5
  <1>3. ASSUME T # {} PROVE FALSE
    <2>1. T \subseteq Nat
      OBVIOUS
    <2> HIDE DEF T
    <2>2. PICK m \in T : \A k \in T : m <= k
      BY <1>3, <2>1, Least
    <2>3. m \in Nat /\ ~Runs(m) /\ \A k \in Nat : ~Runs(k) => m <= k
      BY <2>2 DEF T
    <2> HIDE DEF Runs
    <2>4. m # 0
      BY <1>1, <2>3
    <2>5. m - 1 \in Nat /\ ~(m <= m - 1) /\ (m - 1) + 1 = m
      BY <2>3, <2>4
    <2>6. Runs(m - 1)
      BY <2>3, <2>5
    <2>7. Runs((m - 1) + 1)
      BY <1>2, <2>5, <2>6
    <2> QED
      BY <2>3, <2>5, <2>7
  <1> QED
    BY <1>3

\* What the loop keeps of the entries it has passed.
Found == [best : LF \cup {None}, maxmiss : Nat, stop : BOOLEAN]
ScanEq(f) == f = [i \in 0 .. Window |-> IF i = 0 THEN Start ELSE Step(f[i - 1], i - 1)]
Scans == CHOOSE f : ScanEq(f)

LEMMA ChosenIsScanned == Chosen = Scans[Window].best
  BY DEF Chosen, Scans, ScanEq

LEMMA GetIsFragment ==
    ASSUME TypeOK, NEW i \in Nat, i < size
    PROVE  Get(i) \in LF
  <1>1. Index(i) \in Slot
    BY IndexInRing DEF TypeOK
  <1> QED
    BY <1>1 DEF TypeOK, Get

LEMMA StepFinds ==
    ASSUME TypeOK, NEW s \in Found, NEW i \in Nat
    PROVE  Step(s, i) \in Found
  <1>1. CASE s.stop \/ ~CanGet(i)
    BY <1>1 DEF Step, Found
  <1>2. CASE ~(s.stop \/ ~CanGet(i))
    <2>1. Get(i) \in LF
      BY <1>2, GetIsFragment DEF CanGet
    <2>2. heat[Get(i)] \in Nat
      BY <2>1 DEF TypeOK
    <2> QED
      BY <1>2, <2>1, <2>2 DEF Step, Visit, Found
  <1> QED
    BY <1>1, <1>2

\* The scan is what the loop computes, step by step.
LEMMA ScansFollow ==
    ASSUME TypeOK
    PROVE  /\ Scans \in [0 .. Window -> Found]
           /\ \A i \in 0 .. Window : Scans[i] = IF i = 0 THEN Start ELSE Step(Scans[i - 1], i - 1)
  <1> DEFINE F == [p \in Found \X Nat |-> Step(p[1], p[2])]
  <1>1. F \in [Found \X Nat -> Found]
    BY StepFinds
  <1>2. Start \in Found
    BY DEF Start, Found
  <1>3. Window \in Nat
    BY MissLogAssumption
  <1>4. PICK f \in [0 .. Window -> Found] : Follows(f, Window, Start, F)
    <2> HIDE DEF F
    <2> QED
      BY <1>1, <1>2, <1>3, LoopRuns
  <1>5. ASSUME NEW i \in 0 .. Window
        PROVE  f[i] = IF i = 0 THEN Start ELSE Step(f[i - 1], i - 1)
    <2>1. CASE i = 0
      BY <1>4, <2>1 DEF Follows
    <2>2. CASE i # 0
      <3>1. i - 1 \in Nat /\ i - 1 \in 0 .. Window
        BY <1>3, <2>2
      <3>2. <<f[i - 1], i - 1>> \in Found \X Nat
        BY <1>4, <3>1
      <3>3. F[<<f[i - 1], i - 1>>] = Step(f[i - 1], i - 1)
        BY <3>2
      <3> QED
        BY <1>4, <2>2, <3>3 DEF Follows
    <2> QED
      BY <2>1, <2>2
  <1>6. ScanEq(f)
    BY <1>4, <1>5 DEF ScanEq
  <1>7. ScanEq(Scans)
    BY <1>6 DEF Scans
  <1> DEFINE T == {i \in 0 .. Window : Scans[i] # f[i]}
  <1>8. ASSUME T # {} PROVE FALSE
    <2>1. T \subseteq Nat
      OBVIOUS
    <2>2. PICK i \in T : \A j \in T : i <= j
      <3> HIDE DEF T
      <3> QED
        BY <1>8, <2>1, Least
    <2>3. i \in 0 .. Window /\ Scans[i] # f[i]
      OBVIOUS
    <2>4. Scans[i] = IF i = 0 THEN Start ELSE Step(Scans[i - 1], i - 1)
      BY <1>7, <2>3 DEF ScanEq
    <2>5. f[i] = IF i = 0 THEN Start ELSE Step(f[i - 1], i - 1)
      BY <1>5, <2>3
    <2>6. i # 0
      BY <2>3, <2>4, <2>5
    <2>7. i - 1 \in 0 .. Window /\ ~(i <= i - 1)
      BY <1>3, <2>3, <2>6
    <2>8. i - 1 \notin T
      BY <2>2, <2>7
    <2>9. Scans[i - 1] = f[i - 1]
      BY <2>7, <2>8
    <2> QED
      BY <2>3, <2>4, <2>5, <2>6, <2>9
  <1>9. Scans = [i \in 0 .. Window |-> Scans[i]]
    BY <1>7 DEF ScanEq
  <1>10. \A i \in 0 .. Window : Scans[i] = f[i]
    BY <1>8
  <1> QED
    BY <1>4, <1>5, <1>9, <1>10

\* Entry k is within the search and could be populated.
Open(k) ==
    /\ \A j \in 0 .. k : CanGet(j)
    /\ HasFrag(Get(k)) /\ Get(k) \notin mapped /\ heat[Get(k)] > 0

\* s is the hottest of the first i entries, the latest miss among equals.
Best(i, s) ==
    /\ s.stop <=> \E j \in 0 .. i - 1 : ~CanGet(j)
    /\ s.best = None => s.maxmiss = 0 /\ \A k \in 0 .. i - 1 : ~Open(k)
    /\ s.best # None =>
          \E k \in 0 .. i - 1 :
             /\ Open(k) /\ s.best = Get(k) /\ s.maxmiss = heat[s.best]
             /\ \A j \in 0 .. i - 1 : Open(j) =>
                   \/ heat[Get(j)] < s.maxmiss
                   \/ (heat[Get(j)] = s.maxmiss /\ k <= j)

\* One more entry.
LEMMA StepKeepsBest ==
    ASSUME TypeOK, NEW i \in Nat, NEW s \in Found, Best(i, s)
    PROVE  Best(i + 1, Step(s, i))
  <1> DEFINE t == Step(s, i)
  <1>1. CASE s.stop
    <2>1. t = s
      BY <1>1 DEF Step, Found
    <2>2. PICK j \in 0 .. i - 1 : ~CanGet(j)
      BY <1>1 DEF Best
    <2>3. j \in 0 .. i
      OBVIOUS
    <2>4. ~Open(i)
      BY <2>2, <2>3 DEF Open
    <2>5. \A k \in 0 .. (i + 1) - 1 : k \in 0 .. i - 1 \/ k = i
      OBVIOUS
    <2>6. \A k \in 0 .. i - 1 : k \in 0 .. (i + 1) - 1
      OBVIOUS
    <2> QED
      BY <1>1, <2>1, <2>2, <2>4, <2>5, <2>6 DEF Best
  <1>2. CASE ~s.stop /\ ~CanGet(i)
    <2>1. t.stop /\ t.best = s.best /\ t.maxmiss = s.maxmiss
      BY <1>2 DEF Step, Found
    <2>2. i \in 0 .. i /\ i \in 0 .. (i + 1) - 1
      OBVIOUS
    <2>3. ~Open(i)
      BY <1>2, <2>2 DEF Open
    <2>4. \A k \in 0 .. (i + 1) - 1 : k \in 0 .. i - 1 \/ k = i
      OBVIOUS
    <2>5. \A k \in 0 .. i - 1 : k \in 0 .. (i + 1) - 1
      OBVIOUS
    <2> QED
      BY <1>2, <2>1, <2>2, <2>3, <2>4, <2>5 DEF Best
  <1>3. CASE ~s.stop /\ CanGet(i)
    <2>1. t = Visit(s, Get(i))
      BY <1>3 DEF Step
    <2>2. Get(i) \in LF /\ heat[Get(i)] \in Nat /\ Get(i) # None
      BY <1>3, GetIsFragment, MissLogAssumption DEF CanGet, TypeOK
    <2>3. \A j \in 0 .. i : CanGet(j)
      <3>1. \A j \in 0 .. i : j \in 0 .. i - 1 \/ j = i
        OBVIOUS
      <3> QED
        BY <1>3, <3>1 DEF Best
    <2>4. \A k \in 0 .. (i + 1) - 1 : k \in 0 .. i - 1 \/ k = i
      OBVIOUS
    <2>5. (\A k \in 0 .. i - 1 : k \in 0 .. (i + 1) - 1) /\ i \in 0 .. (i + 1) - 1 /\ (i + 1) - 1 = i
      OBVIOUS
    <2>6. s.maxmiss \in Nat
      BY DEF Found
    <2>7. CASE HasFrag(Get(i)) /\ Get(i) \notin mapped /\ heat[Get(i)] > s.maxmiss
      <3>1. t.best = Get(i) /\ t.maxmiss = heat[Get(i)] /\ t.stop = s.stop
        BY <2>1, <2>7 DEF Visit, Better, Found
      <3>2. Open(i)
        BY <2>2, <2>3, <2>6, <2>7 DEF Open
      <3>3. ~t.stop /\ \A j \in 0 .. (i + 1) - 1 : CanGet(j)
        BY <1>3, <2>3, <2>5, <3>1
      <3>4. ASSUME NEW j \in 0 .. (i + 1) - 1, Open(j)
            PROVE  heat[Get(j)] < t.maxmiss \/ (heat[Get(j)] = t.maxmiss /\ i <= j)
        <4>1. CASE j = i
          BY <3>1, <4>1
        <4>2. CASE j # i
          <5>1. j \in 0 .. i - 1
            BY <2>4, <4>2
          <5>2. j \in Nat /\ CanGet(j)
            BY <2>3, <5>1
          <5>3. heat[Get(j)] \in Nat
            BY <5>2, GetIsFragment DEF CanGet, TypeOK
          <5>4. s.best # None
            BY <3>4, <5>1 DEF Best
          <5>5. heat[Get(j)] < s.maxmiss \/ heat[Get(j)] = s.maxmiss
            BY <3>4, <5>1, <5>4 DEF Best
          <5> QED
            <6>1. heat[Get(j)] < heat[Get(i)]
              BY ONLY <2>2, <2>6, <2>7, <5>3, <5>5
            <6>2. t.maxmiss = heat[Get(i)]
              BY <3>1
            <6> HIDE DEF t
            <6> QED
              BY <6>1, <6>2
        <4> QED
          BY <4>1, <4>2
      <3> QED
        BY <2>2, <2>5, <3>1, <3>2, <3>3, <3>4 DEF Best
    <2>8. CASE ~(HasFrag(Get(i)) /\ Get(i) \notin mapped /\ heat[Get(i)] > s.maxmiss)
      <3>1. t = s
        BY <2>1, <2>8 DEF Visit, Better
      <3>2. Open(i) => heat[Get(i)] <= s.maxmiss
        BY <2>2, <2>6, <2>8 DEF Open
      <3>3. CASE s.best = None
        <4>1. s.maxmiss = 0 /\ \A k \in 0 .. i - 1 : ~Open(k)
          BY <3>3 DEF Best
        <4>2. ~Open(i)
          BY <2>2, <3>2, <4>1 DEF Open
        <4>3. ~(\E j \in 0 .. (i + 1) - 1 : ~CanGet(j))
          BY <2>3, <2>5
        <4> QED
          BY <1>3, <2>4, <3>1, <3>3, <4>1, <4>2, <4>3 DEF Best
      <3>4. CASE s.best # None
        <4>1. PICK k \in 0 .. i - 1 :
                 /\ Open(k) /\ s.best = Get(k) /\ s.maxmiss = heat[s.best]
                 /\ \A j \in 0 .. i - 1 : Open(j) =>
                       \/ heat[Get(j)] < s.maxmiss
                       \/ (heat[Get(j)] = s.maxmiss /\ k <= j)
          BY <3>4 DEF Best
        <4>2. k <= i
          OBVIOUS
        <4>3. Open(i) => heat[Get(i)] < s.maxmiss \/ (heat[Get(i)] = s.maxmiss /\ k <= i)
          BY <2>2, <2>6, <3>2, <4>2
        <4>4. \A j \in 0 .. (i + 1) - 1 : Open(j) =>
                       \/ heat[Get(j)] < s.maxmiss
                       \/ (heat[Get(j)] = s.maxmiss /\ k <= j)
          BY <2>4, <4>1, <4>3
        <4>5. ~(\E j \in 0 .. (i + 1) - 1 : ~CanGet(j)) /\ k \in 0 .. (i + 1) - 1
          BY <2>3, <2>5
        <4> QED
          BY <1>3, <3>1, <3>4, <4>1, <4>4, <4>5 DEF Best
      <3> QED
        BY <3>3, <3>4
    <2> QED
      BY <2>7, <2>8
  <1> QED
    BY <1>1, <1>2, <1>3

\* All entries of the window.
LEMMA ScanFindsBest ==
    ASSUME TypeOK
    PROVE  Best(Window, Scans[Window])
  <1> DEFINE T == {i \in 0 .. Window : ~Best(i, Scans[i])}
  <1>1. Window \in Nat
    BY MissLogAssumption
  <1>2. ASSUME T # {} PROVE FALSE
    <2>1. T \subseteq Nat
      OBVIOUS
    <2>2. PICK i \in T : \A j \in T : i <= j
      <3> HIDE DEF T
      <3> QED
        BY <1>2, <2>1, Least
    <2>3. i \in 0 .. Window /\ ~Best(i, Scans[i])
      OBVIOUS
    <2>4. i # 0
      <3>1. Scans[0] = Start
        BY <1>1, ScansFollow
      <3>2. 0 .. 0 - 1 = {}
        OBVIOUS
      <3>3. Best(0, Start)
        BY <3>2 DEF Best, Start
      <3> QED
        BY <2>3, <3>1, <3>3
    <2>5. i - 1 \in 0 .. Window /\ ~(i <= i - 1) /\ i - 1 \in Nat /\ (i - 1) + 1 = i
      BY <1>1, <2>3, <2>4
    <2>6. Best(i - 1, Scans[i - 1])
      BY <2>2, <2>5
    <2>7. Scans[i - 1] \in Found /\ Scans[i] = Step(Scans[i - 1], i - 1)
      BY <2>3, <2>4, <2>5, ScansFollow
    <2>8. Best((i - 1) + 1, Step(Scans[i - 1], i - 1))
      <3> HIDE DEF T
      <3> QED
        BY <2>5, <2>6, <2>7, StepKeepsBest
    <2> QED
      BY <2>3, <2>5, <2>7, <2>8
  <1>3. Window \in 0 .. Window
    BY <1>1
  <1> QED
    BY <1>2, <1>3

\* The entries the property looks at are those the loop may take.
LEMMA CandidatesAreOpen ==
    ASSUME TypeOK
    PROVE  /\ \A k \in Candidates : k - 1 \in 0 .. Window - 1 /\ Open(k - 1) /\ Recent[k] = Get(k - 1)
           /\ \A k \in 0 .. Window - 1 : Open(k) => k + 1 \in Candidates /\ Recent[k + 1] = Get(k)
  <1>1. Window \in Nat /\ size \in Nat
    BY MissLogAssumption DEF TypeOK
  <1>2. \A k \in 1 .. size : Recent[k] = Get(k - 1)
    BY DEF Recent
  <1>3. ASSUME NEW k \in Candidates
        PROVE  k - 1 \in 0 .. Window - 1 /\ Open(k - 1) /\ Recent[k] = Get(k - 1)
    <2>1. k \in 1 .. size /\ k <= Window /\ \A j \in 1 .. k : LunIsValid(Recent[j])
      BY DEF Candidates, Seen
    <2>2. Recent[k] = Get(k - 1) /\ k - 1 \in 0 .. Window - 1
      BY <1>1, <1>2, <2>1
    <2>3. ASSUME NEW j \in 0 .. k - 1 PROVE CanGet(j)
      <3>1. j + 1 \in 1 .. k /\ j + 1 \in 1 .. size /\ (j + 1) - 1 = j /\ j < size
        BY <1>1, <2>1
      <3>2. Recent[j + 1] = Get(j)
        BY <1>2, <3>1
      <3> QED
        BY <2>1, <3>1, <3>2 DEF CanGet
    <2> QED
      BY <2>2, <2>3 DEF Open, Candidates
  <1>4. ASSUME NEW k \in 0 .. Window - 1, Open(k)
        PROVE  k + 1 \in Candidates /\ Recent[k + 1] = Get(k)
    <2>1. k < size /\ k \in Nat
      <3>1. k \in 0 .. k
        BY <1>1
      <3> QED
        BY <1>4, <3>1 DEF Open, CanGet
    <2>2. k + 1 \in 1 .. size /\ (k + 1) - 1 = k /\ k + 1 <= Window
      BY <1>1, <2>1
    <2>3. Recent[k + 1] = Get(k)
      BY <1>2, <2>2
    <2>4. ASSUME NEW j \in 1 .. k + 1 PROVE LunIsValid(Recent[j])
      <3>1. j - 1 \in 0 .. k /\ j \in 1 .. size
        BY <1>1, <2>1
      <3>2. Recent[j] = Get(j - 1) /\ CanGet(j - 1)
        BY <1>2, <1>4, <3>1 DEF Open
      <3> QED
        BY <3>2 DEF CanGet
    <2>5. k + 1 \in Seen
      BY <2>2, <2>4 DEF Seen
    <2> QED
      BY <1>4, <2>3, <2>5 DEF Open, Candidates
  <1> QED
    BY <1>3, <1>4

\* What the scan returns is what the policy promises, in every state.
LEMMA ScanIsPolicy == TypeOK => ChoosesHottest
  <1> SUFFICES ASSUME TypeOK PROVE ChoosesHottest
    OBVIOUS
  <1> DEFINE s == Scans[Window]
  <1>1. Best(Window, s)
    BY ScanFindsBest
  <1>2. Chosen = s.best
    BY ChosenIsScanned
  <1>3. CASE s.best = None
    <2>1. \A k \in 0 .. Window - 1 : ~Open(k)
      BY <1>1, <1>3 DEF Best
    <2>2. Candidates = {}
      BY <2>1, CandidatesAreOpen
    <2> QED
      BY <1>2, <1>3, <2>2 DEF ChoosesHottest
  <1>4. CASE s.best # None
    <2>1. PICK k \in 0 .. Window - 1 :
             /\ Open(k) /\ s.best = Get(k) /\ s.maxmiss = heat[s.best]
             /\ \A j \in 0 .. Window - 1 : Open(j) =>
                   \/ heat[Get(j)] < s.maxmiss
                   \/ (heat[Get(j)] = s.maxmiss /\ k <= j)
      BY <1>1, <1>4 DEF Best
    <2>2. k + 1 \in Candidates /\ Recent[k + 1] = s.best
      BY <2>1, CandidatesAreOpen
    <2>3. ASSUME NEW j \in Candidates
          PROVE  \/ heat[Recent[j]] < heat[s.best]
                 \/ heat[Recent[j]] = heat[s.best] /\ (Recent[j] = s.best \/ k + 1 < j)
      <3>1. j - 1 \in 0 .. Window - 1 /\ Open(j - 1) /\ Recent[j] = Get(j - 1) /\ j \in Nat
        <4>1. j \in Nat
          BY DEF Candidates, Seen
        <4> QED
          BY <4>1, CandidatesAreOpen
      <3>2. heat[Recent[j]] < heat[s.best] \/ (heat[Recent[j]] = heat[s.best] /\ k <= j - 1)
        <4> DEFINE i == j - 1
        <4>1. heat[Get(i)] < s.maxmiss \/ (heat[Get(i)] = s.maxmiss /\ k <= i)
          <5> HIDE DEF s, i
          <5>1. i \in 0 .. Window - 1 /\ Open(i)
            BY <3>1 DEF i
          <5> QED
            BY <2>1, <5>1
        <4>2. s.maxmiss = heat[s.best]
          BY <2>1
        <4>3. Recent[j] = Get(i)
          BY <3>1
        <4> HIDE DEF s, i
        <4>4. heat[Recent[j]] < heat[s.best] \/ (heat[Recent[j]] = heat[s.best] /\ k <= i)
          BY <4>1, <4>2, <4>3
        <4> QED
          BY <4>4 DEF i
      <3>3. CASE k = j - 1
        BY <2>1, <3>1, <3>2, <3>3
      <3>4. CASE k # j - 1
        <4>1. k <= j - 1 => k + 1 < j
          BY <3>1, <3>4
        <4> QED
          BY <3>2, <4>1
      <3> QED
        BY <3>3, <3>4
    <2>4. Hottest(s.best)
      BY <2>2, <2>3 DEF Hottest
    <2> QED
      BY <1>2, <1>4, <2>2, <2>4 DEF ChoosesHottest
  <1> QED
    BY <1>3, <1>4

LEMMA TypeInit == Init => TypeOK
  BY MissLogAssumption DEF Init, TypeOK, Slot, LF, Lun, Frag

LEMMA TypeStep == TypeOK /\ [Next]_vars => TypeOK'
  <1> SUFFICES ASSUME TypeOK, [Next]_vars PROVE TypeOK'
    OBVIOUS
  <1>1. RingOK'
    BY RingStep DEF TypeOK, RingOK
  <1> USE DEF TypeOK, RingOK
  <1>2. ASSUME NEW lf \in LF, Miss(lf) PROVE TypeOK'
    BY <1>1, <1>2, MissLogAssumption DEF Miss
  <1>3. ASSUME NEW lf \in LF, Unmap(lf) PROVE TypeOK'
    BY <1>1, <1>3 DEF Unmap
  <1>4. CASE Populate
    <2>1. Scans[Window] \in Found
      BY ScansFollow, MissLogAssumption
    <2>2. Chosen \in LF
      BY <1>4, <2>1, ChosenIsScanned DEF Populate, Found
    <2> QED
      BY <1>1, <1>4, <2>2, MissLogAssumption DEF Populate
  <1>5. ASSUME NEW l \in Lun, RmLun(l) PROVE TypeOK'
    BY <1>1, <1>5 DEF RmLun
  <1>6. ASSUME NEW l \in Lun, NEW n \in LunFrags, AddLun(l, n) PROVE TypeOK'
    BY <1>1, <1>6, MissLogAssumption DEF AddLun
  <1>7. CASE UNCHANGED vars
    BY <1>7 DEF vars, lunvars, logvars
  <1> QED
    BY <1>2, <1>3, <1>4, <1>5, <1>6, <1>7 DEF Next

\* The types of the log, the heat and the tables: populating takes a fragment
\* name from the ring, never the end mark of the search.
THEOREM TypeCorrect == Spec => []TypeOK
  BY TypeInit, TypeStep, PTL DEF Spec

\* _choose4population returns the hottest unmapped fragment among the recent
\* misses down to the first removed LUN, the most recent of equals, or none
\* when there is none: for every size of the log and of the window.
THEOREM PopulatesHottest == Spec => []ChoosesHottest
  BY ScanIsPolicy, TypeCorrect, PTL
=============================================================================
