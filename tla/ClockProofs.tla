----------------------------- MODULE ClockProofs -----------------------------
(***************************************************************************)
(* TLAPS proofs about module Clock, for any number and size of devices and *)
(* any ceiling of the references: the arm visits every fragment once per   *)
(* round, and the sweep finds a victim, the coldest, if there can be one.  *)
(***************************************************************************)
EXTENDS Clock, FiniteSetTheorems, NaturalsInduction, WellFoundedInduction, TLAPS

-----------------------------------------------------------------------------
(* Loops and division. *)

\* A set of naturals has a least member: how a loop is followed step by step.
LEMMA Least ==
    ASSUME NEW T, T \subseteq Nat, T # {}
    PROVE  \E x \in T : \A y \in T : x <= y
  <1>1. PICK x \in T : \A y \in T : ~(<<y, x>> \in OpToRel(<, Nat))
    BY NatLessThanWellFounded, WFMin
  <1>2. \A y \in T : ~(y < x)
    BY <1>1 DEF OpToRel
  <1>3. \A y \in T : y \in Nat /\ x \in Nat
    OBVIOUS
  <1> QED
    BY <1>2, <1>3

\* f follows n steps of a loop with body F from s0.
Follows(f, n, s0, F) == \A i \in 0 .. n : f[i] = IF i = 0 THEN s0 ELSE F[f[i - 1]]

\* A loop has a result, whatever its body does: its states are a function of
\* the number of steps.
LEMMA LoopRuns ==
    ASSUME NEW St, NEW s0 \in St, NEW F \in [St -> St], NEW n \in Nat
    PROVE  \E f \in [0 .. n -> St] : Follows(f, n, s0, F)
  <1> DEFINE Runs(m) == \E f \in [0 .. m -> St] : Follows(f, m, s0, F)
             T == {m \in Nat : ~Runs(m)}
  <1>1. Runs(0)
    <2> DEFINE f == [i \in 0 .. 0 |-> s0]
    <2>1. f \in [0 .. 0 -> St] /\ \A i \in 0 .. 0 : i = 0 /\ f[i] = s0
      OBVIOUS
    <2> QED
      BY <2>1 DEF Follows
  <1>2. ASSUME NEW m \in Nat, Runs(m)
        PROVE  Runs(m + 1)
    <2>1. PICK f \in [0 .. m -> St] : Follows(f, m, s0, F)
      BY <1>2
    <2> DEFINE g == [i \in 0 .. m + 1 |-> IF i = m + 1 THEN F[f[m]] ELSE f[i]]
    <2>2. m \in 0 .. m /\ m + 1 \in 0 .. m + 1
          /\ \A i \in 0 .. m : i \in 0 .. m + 1 /\ i # m + 1 /\ (i # 0 => i - 1 \in 0 .. m)
      OBVIOUS
    <2>3. f[m] \in St /\ F[f[m]] \in St
      BY <2>1, <2>2
    <2>4. g \in [0 .. m + 1 -> St]
      BY <2>1, <2>3
    <2>5. g[m + 1] = F[f[m]] /\ \A i \in 0 .. m : g[i] = f[i]
      BY <2>2
    <2> HIDE DEF g
    <2>6. \A i \in 0 .. m : g[i] = IF i = 0 THEN s0 ELSE F[g[i - 1]]
      BY <2>1, <2>2, <2>5 DEF Follows
    <2>7. g[m + 1] = F[g[(m + 1) - 1]] /\ m + 1 # 0
      BY <2>2, <2>5
    <2>8. \A i \in 0 .. m + 1 : i \in 0 .. m \/ i = m + 1
      OBVIOUS
    <2> QED
      BY <2>4, <2>6, <2>7, <2>8 DEF Follows
  <1>3. ASSUME T # {} PROVE FALSE
    <2>1. T \subseteq Nat
      OBVIOUS
    <2> HIDE DEF T
    <2>2. PICK m \in T : \A k \in T : m <= k
      BY <1>3, <2>1, Least
    <2>3. m \in Nat /\ ~Runs(m) /\ \A k \in Nat : ~Runs(k) => m <= k
      BY <2>2 DEF T
    <2> HIDE DEF Runs
    <2>4. m - 1 \in Nat /\ ~(m <= m - 1) /\ (m - 1) + 1 = m
      BY <1>1, <2>3
    <2>5. Runs(m - 1)
      BY <2>3, <2>4
    <2>6. Runs((m - 1) + 1)
      BY <1>2, <2>4, <2>5
    <2> QED
      BY <2>3, <2>4, <2>6
  <1> QED
    BY <1>3

\* Counting on, a remainder starts anew when it reaches the divisor.
LEMMA DivStep ==
    ASSUME NEW i \in Nat, NEW m \in Nat \ {0}
    PROVE  /\ (i % m) \in 0 .. m - 1 /\ i \div m \in Nat
           /\ ((i + 1) % m) = IF (i % m) + 1 < m THEN (i % m) + 1 ELSE 0
           /\ (i + 1) \div m = IF (i % m) + 1 < m THEN i \div m ELSE (i \div m) + 1
  <1> DEFINE q == i \div m
             r == i % m
  <1>1. i = q * m + r /\ r \in 0 .. m - 1 /\ q \in Nat
    OBVIOUS
  <1> HIDE DEF q, r
  <1>2. CASE r + 1 < m
    <2>1. i + 1 = q * m + (r + 1) /\ r + 1 \in 0 .. m - 1
      <3>1. q * m \in Nat
        BY <1>1
      <3> QED
        BY <1>1, <1>2, <3>1
    <2>2. \A z, s : s \in 0 .. m - 1 /\ z = q * m + s => z \div m = q /\ (z % m) = s
      BY <1>1
    <2>3. (i + 1) \div m = q /\ ((i + 1) % m) = r + 1
      BY <2>1, <2>2
    <2> QED
      BY <1>1, <1>2, <2>3 DEF q, r
  <1>3. CASE ~(r + 1 < m)
    <2>1. i + 1 = (q + 1) * m + 0
      <3>1. q * m \in Nat /\ (q + 1) * m = q * m + m
        BY <1>1
      <3> QED
        BY <1>1, <1>3, <3>1
    <2>2. \A z : z = (q + 1) * m + 0 => z \div m = q + 1 /\ (z % m) = 0
      BY <1>1
    <2>3. (i + 1) \div m = q + 1 /\ ((i + 1) % m) = 0
      BY <2>1, <2>2
    <2> QED
      BY <1>1, <1>3, <2>3 DEF q, r
  <1> QED
    BY <1>2, <1>3

-----------------------------------------------------------------------------
(* The order of the fragments, device by device. *)

NrFrag == Cardinality(Present)

\* The fragments before p, and how many they are.
Before(p) == {q \in Present : q[1] < p[1] \/ (q[1] = p[1] /\ q[2] < p[2])}
Rank(p) == Cardinality(Before(p))

\* The fragment after p, and the first after the last.
After(p) ==
    IF p[2] + 1 < nf[p[1]] THEN <<p[1], p[2] + 1>>
    ELSE IF p[1] + 1 < NrCdev THEN <<p[1] + 1, 0>> ELSE <<0, 0>>

LEMMA PresentFinite ==
    ASSUME NEW S, S \subseteq Present
    PROVE  IsFiniteSet(S) /\ Cardinality(S) \in Nat
  <1>1. IsFiniteSet(Pfid)
    <2>1. IsFiniteSet(Cdev) /\ IsFiniteSet(0 .. MaxOff - 1)
      BY ClockAssumption, FS_Interval DEF Cdev
    <2> QED
      BY <2>1, FS_Product DEF Pfid
  <1>2. S \in SUBSET Pfid
    BY DEF Present
  <1> QED
    BY <1>1, <1>2, FS_Subset, FS_CardinalityType

LEMMA DeviceSizes ==
    ASSUME ClockTypeOK, NEW c \in Cdev
    PROVE  nf[c] \in 0 .. MaxOff /\ nf[c] \in Nat
  <1>1. nf[c] \in DevFrags \cup {0}
    BY DEF ClockTypeOK
  <1>2. MaxOff \in Nat /\ DevFrags \subseteq 1 .. MaxOff
    BY ClockAssumption
  <1>3. CASE nf[c] \in DevFrags
    <2>1. nf[c] \in 1 .. MaxOff
      BY <1>2, <1>3
    <2> QED
      BY <1>2, <2>1
  <1>4. CASE nf[c] = 0
    BY <1>2, <1>4
  <1> QED
    BY <1>1, <1>3, <1>4

\* The devices are those with the lowest numbers.
LEMMA DevsAreFirst ==
    ASSUME ClockTypeOK, Compact
    PROVE  /\ NrCdev \in 0 .. MaxCdev
           /\ \A c \in Cdev : nf[c] > 0 <=> c < NrCdev
  <1> DEFINE Used == {c \in Cdev : nf[c] > 0}
             T == {k \in Nat : k \notin Used}
  <1>1. MaxCdev \in Nat /\ MaxCdev \in T
    BY ClockAssumption DEF Cdev
  <1>2. PICK k \in T : \A j \in T : k <= j
    <2>1. T \subseteq Nat /\ T # {}
      BY <1>1
    <2> HIDE DEF T
    <2> QED
      BY <2>1, Least
  <1>3. k \in Nat /\ k \notin Used /\ k <= MaxCdev
    BY <1>1, <1>2
  <1>4. ASSUME NEW c \in Used
        PROVE  c < k
    <2>1. c \in Cdev /\ c \in Nat /\ nf[c] > 0 /\ c # k
      BY <1>3 DEF Cdev
    <2>2. CASE k < c
      <3>1. k \in Cdev
        BY <1>1, <1>3, <2>1, <2>2 DEF Cdev
      <3>2. nf[k] > 0
        BY <2>1, <2>2, <3>1 DEF Compact
      <3> QED
        BY <1>3, <3>1, <3>2
    <2> QED
      BY <1>3, <2>1, <2>2
  <1>5. ASSUME NEW c \in 0 .. k - 1
        PROVE  c \in Used
    <2>1. c \in Nat /\ ~(k <= c)
      BY <1>3
    <2> QED
      BY <1>2, <2>1
  <1>6. Used = 0 .. k - 1
    <2>1. \A c \in Used : c \in 0 .. k - 1
      BY <1>3, <1>4 DEF Cdev
    <2> QED
      BY <1>5, <2>1
  <1>7. NrCdev = k
    <2>1. NrCdev = Cardinality(0 .. k - 1)
      BY <1>6 DEF NrCdev
    <2> QED
      BY <1>3, <2>1, FS_Interval
  <1>8. \A c \in Cdev : nf[c] > 0 <=> c < k
    <2>1. \A c \in Cdev : nf[c] > 0 <=> c \in 0 .. k - 1
      BY <1>6
    <2> QED
      BY <1>3, <2>1 DEF Cdev
  <1> QED
    BY <1>3, <1>7, <1>8

\* With or without holes the arm stays in the table.
LEMMA ArmInTable ==
    ASSUME ClockTypeOK, NrCdev \in 1 .. MaxCdev, NEW a \in Pfid
    PROVE  /\ Dev(a) \in Cdev /\ Dev(a) < NrCdev
           /\ nf[Dev(a)] = 0 => Under(a) = NoFrag
           /\ nf[Dev(a)] > 0 => /\ Under(a) = <<Dev(a), a[2] % nf[Dev(a)]>>
                                /\ Under(a) \in Present
           /\ Advance(a) \in Pfid
  <1>1. MaxCdev \in Nat \ {0} /\ MaxOff \in Nat \ {0} /\ a[1] \in Nat /\ a[2] \in 0 .. MaxOff - 1
    BY ClockAssumption DEF Pfid, Cdev
  <1>2. Dev(a) \in 0 .. NrCdev - 1 /\ Dev(a) \in Cdev
    BY <1>1 DEF Dev, Cdev
  <1>3. nf[Dev(a)] \in 0 .. MaxOff
    BY <1>2, DeviceSizes
  <1>4. (Dev(a) + 1) % MaxCdev \in Cdev
    BY <1>1, <1>2 DEF Cdev
  <1>5. CASE nf[Dev(a)] = 0
    <2>1. Advance(a) = <<(Dev(a) + 1) % MaxCdev, a[2]>> /\ Under(a) = NoFrag
      BY <1>5 DEF Advance, Under
    <2> QED
      BY <1>1, <1>2, <1>4, <1>5, <2>1 DEF Pfid
  <1>6. CASE nf[Dev(a)] > 0
    <2> DEFINE o == a[2] % nf[Dev(a)]
    <2>1. o \in 0 .. nf[Dev(a)] - 1
      BY <1>1, <1>3, <1>6
    <2>2. Under(a) = <<Dev(a), o>>
      BY <1>3, <1>6 DEF Under
    <2>3. Advance(a) = IF o + 1 >= nf[Dev(a)] THEN <<(Dev(a) + 1) % MaxCdev, 0>> ELSE <<Dev(a), o + 1>>
      BY <1>3, <1>6 DEF Advance
    <2> HIDE DEF o
    <2>4. <<Dev(a), o>> \in Pfid /\ <<Dev(a), 0>> \in Pfid /\ <<(Dev(a) + 1) % MaxCdev, 0>> \in Pfid
      BY <1>1, <1>2, <1>3, <1>4, <2>1 DEF Pfid
    <2>5. o + 1 < nf[Dev(a)] => <<Dev(a), o + 1>> \in Pfid
      BY <1>1, <1>2, <1>3, <2>1 DEF Pfid
    <2>6. <<Dev(a), o>> \in Present
      BY <1>3, <2>1, <2>4 DEF Present
    <2>7. Advance(a) \in Pfid
      BY <1>3, <2>1, <2>3, <2>4, <2>5
    <2> QED
      BY <1>2, <1>6, <2>2, <2>6, <2>7 DEF o
  <1> QED
    BY <1>2, <1>3, <1>5, <1>6

\* Without holes there is always a fragment under the arm, and advancing the
\* arm leads to the one after it.
LEMMA ArmAdvances ==
    ASSUME ClockTypeOK, Compact, NrCdev > 0, NEW a \in Pfid
    PROVE  /\ Under(a) \in Present
           /\ Advance(a) \in Pfid
           /\ Under(Advance(a)) = After(Under(a))
  <1>1. MaxCdev \in Nat \ {0} /\ MaxOff \in Nat \ {0} /\ NrCdev \in 1 .. MaxCdev
    BY ClockAssumption, DevsAreFirst
  <1> DEFINE d == Dev(a)
             o == a[2] % nf[d]
  <1>2. d \in Cdev /\ d \in Nat /\ d < NrCdev
    BY <1>1, ArmInTable DEF Cdev
  <1>3. nf[d] > 0 /\ nf[d] \in Nat
    BY <1>2, DeviceSizes, DevsAreFirst
  <1>4. Under(a) = <<d, o>> /\ Under(a) \in Present /\ Advance(a) \in Pfid
    BY <1>1, <1>3, ArmInTable
  <1>5. o \in 0 .. nf[d] - 1
    <2>1. a[2] \in Nat
      BY DEF Pfid
    <2> QED
      BY <1>3, <2>1
  <1>6. Advance(a) = IF o + 1 >= nf[d] THEN <<(d + 1) % MaxCdev, 0>> ELSE <<d, o + 1>>
    BY <1>3 DEF Advance
  <1> HIDE DEF d, o
  <1>7. CASE o + 1 < nf[d]
    <2>1. Advance(a) = <<d, o + 1>> /\ Dev(<<d, o + 1>>) = d
      BY <1>1, <1>2, <1>3, <1>5, <1>6, <1>7 DEF Dev
    <2>2. (o + 1) % nf[d] = o + 1
      BY <1>3, <1>5, <1>7
    <2>3. Under(<<d, o + 1>>) = <<d, o + 1>>
      BY <1>3, <2>1, <2>2 DEF Under
    <2> QED
      BY <1>4, <1>7, <2>1, <2>3 DEF After
  <1>8. CASE ~(o + 1 < nf[d])
    <2> DEFINE e == IF d + 1 < NrCdev THEN d + 1 ELSE 0
    <2>1. Advance(a) = <<(d + 1) % MaxCdev, 0>>
      BY <1>3, <1>5, <1>6, <1>8
    <2>2. ((d + 1) % MaxCdev) % NrCdev = e
      <3>1. CASE d + 1 < NrCdev
        BY <1>1, <1>2, <3>1
      <3>2. CASE d + 1 = NrCdev
        <4>1. NrCdev < MaxCdev => (NrCdev % MaxCdev) = NrCdev
          BY <1>1
        <4>2. NrCdev = MaxCdev => (NrCdev % MaxCdev) = 0
          BY <1>1
        <4>3. (NrCdev % NrCdev) = 0 /\ (0 % NrCdev) = 0
          BY <1>1
        <4> QED
          BY <1>1, <3>2, <4>1, <4>2, <4>3
      <3> QED
        BY <1>1, <1>2, <3>1, <3>2
    <2>3. Dev(Advance(a)) = e
      BY <2>1, <2>2 DEF Dev
    <2>4. e \in Cdev /\ e < NrCdev
      BY <1>1, <1>2 DEF Cdev
    <2> HIDE DEF e
    <2>5. nf[e] > 0 /\ nf[e] \in Nat
      BY <2>4, DeviceSizes, DevsAreFirst
    <2>6. Under(Advance(a)) = <<e, 0 % nf[e]>> /\ (0 % nf[e]) = 0
      BY <2>1, <2>3, <2>5 DEF Under
    <2> QED
      BY <1>4, <1>8, <2>6 DEF After, e
  <1> QED
    BY <1>4, <1>7, <1>8

LEMMA PfidParts ==
    ASSUME ClockTypeOK, NEW p \in Present
    PROVE  /\ p = <<p[1], p[2]>> /\ p \in Pfid /\ p[1] \in Cdev /\ p[1] \in Nat /\ p[2] \in Nat
           /\ p[2] < nf[p[1]] /\ nf[p[1]] \in Nat
  <1>1. p \in Pfid /\ p[2] < nf[p[1]]
    BY DEF Present
  <1>2. p = <<p[1], p[2]>> /\ p[1] \in Cdev /\ p[1] \in Nat /\ p[2] \in Nat
    BY <1>1 DEF Pfid, Cdev
  <1> QED
    BY <1>1, <1>2, DeviceSizes

\* Ranks tell fragments apart and lie below their number.
LEMMA RankBound ==
    ASSUME ClockTypeOK, NEW p \in Present
    PROVE  Rank(p) \in 0 .. NrFrag - 1 /\ NrFrag \in Nat \ {0}
  <1>1. Before(p) \subseteq Present /\ p \notin Before(p)
    BY PfidParts DEF Before
  <1>2. IsFiniteSet(Present) /\ NrFrag \in Nat /\ Rank(p) \in Nat /\ IsFiniteSet(Before(p))
    BY <1>1, PresentFinite DEF Rank, NrFrag
  <1>3. Cardinality(Before(p)) <= Cardinality(Present)
        /\ (Cardinality(Before(p)) = Cardinality(Present) => Before(p) = Present)
    BY <1>1, <1>2, FS_Subset
  <1> QED
    BY <1>1, <1>2, <1>3 DEF Rank, NrFrag

LEMMA RankGrows ==
    ASSUME ClockTypeOK, NEW p \in Present, NEW q \in Present, p \in Before(q)
    PROVE  Rank(p) < Rank(q)
  <1>1. Before(p) \cup {p} \subseteq Before(q)
    <2>1. ASSUME NEW x \in Before(p)
          PROVE  x \in Before(q)
      <3>1. x \in Present
        BY DEF Before
      <3>2. /\ x[1] \in Nat /\ x[2] \in Nat /\ p[1] \in Nat /\ p[2] \in Nat /\ q[1] \in Nat /\ q[2] \in Nat
        BY <3>1, PfidParts
      <3> QED
        BY <3>1, <3>2 DEF Before
    <2> QED
      BY <2>1
  <1>2. p \notin Before(p)
    BY PfidParts DEF Before
  <1>3. /\ Before(q) \subseteq Present /\ Before(p) \subseteq Present
    BY DEF Before
  <1>4. /\ IsFiniteSet(Before(q)) /\ IsFiniteSet(Before(p)) /\ Rank(p) \in Nat /\ Rank(q) \in Nat
    BY <1>3, PresentFinite DEF Rank
  <1>5. Cardinality(Before(p) \cup {p}) = Rank(p) + 1
    BY <1>2, <1>4, FS_AddElement DEF Rank
  <1>6. Cardinality(Before(p) \cup {p}) <= Rank(q)
    BY <1>1, <1>4, FS_Subset DEF Rank
  <1> QED
    BY <1>4, <1>5, <1>6

LEMMA RankTells ==
    ASSUME ClockTypeOK, NEW p \in Present, NEW q \in Present, Rank(p) = Rank(q)
    PROVE  p = q
  <1>1. Rank(p) \in Nat
    BY RankBound
  <1>2. ~(Rank(p) < Rank(q)) /\ ~(Rank(q) < Rank(p))
    BY <1>1
  <1>3. p \notin Before(q) /\ q \notin Before(p)
    BY <1>2, RankGrows
  <1>4. /\ p[1] \in Nat /\ p[2] \in Nat /\ p = <<p[1], p[2]>>
        /\ q[1] \in Nat /\ q[2] \in Nat /\ q = <<q[1], q[2]>>
    BY PfidParts
  <1>5. p[1] = q[1] /\ p[2] = q[2]
    BY <1>3, <1>4 DEF Before
  <1> QED
    BY <1>4, <1>5

\* The fragment after p has the next rank, the first one rank 0.
LEMMA RankNext ==
    ASSUME ClockTypeOK, Compact, NEW p \in Present
    PROVE  /\ After(p) \in Present
           /\ Rank(After(p)) = IF Rank(p) + 1 < NrFrag THEN Rank(p) + 1 ELSE 0
  <1>1. /\ p = <<p[1], p[2]>> /\ p \in Pfid /\ p[1] \in Cdev /\ p[1] \in Nat /\ p[2] \in Nat
        /\ p[2] < nf[p[1]] /\ nf[p[1]] \in 0 .. MaxOff
    BY PfidParts, DeviceSizes
  <1>2. NrCdev \in 0 .. MaxCdev /\ p[1] < NrCdev /\ MaxCdev \in Nat \ {0} /\ MaxOff \in Nat \ {0}
    BY <1>1, DevsAreFirst, ClockAssumption
  <1>3. \A c \in 0 .. NrCdev - 1 : c \in Cdev /\ nf[c] \in Nat /\ nf[c] > 0
    <2>1. \A c \in 0 .. NrCdev - 1 : c \in Cdev /\ c < NrCdev
      BY <1>2 DEF Cdev
    <2> QED
      BY <2>1, DevsAreFirst, DeviceSizes
  <1>4. \A q \in Present : /\ q = <<q[1], q[2]>> /\ q[1] \in Nat /\ q[2] \in Nat
                           /\ q[1] < NrCdev /\ q[2] < nf[q[1]] /\ nf[q[1]] \in Nat
    <2> TAKE q \in Present
    <2>1. /\ q = <<q[1], q[2]>> /\ q[1] \in Cdev /\ q[1] \in Nat /\ q[2] \in Nat
          /\ q[2] < nf[q[1]] /\ nf[q[1]] \in Nat
      BY PfidParts
    <2>2. nf[q[1]] > 0
      BY <2>1
    <2> QED
      BY <2>1, <2>2, DevsAreFirst
  <1>5. /\ Before(p) \subseteq Present /\ p \notin Before(p)
        /\ IsFiniteSet(Before(p)) /\ IsFiniteSet(Present) /\ Rank(p) \in Nat /\ NrFrag \in Nat
        /\ Cardinality(Before(p) \cup {p}) = Rank(p) + 1
    <2>1. Before(p) \subseteq Present /\ p \notin Before(p)
      BY <1>1 DEF Before
    <2>2. /\ IsFiniteSet(Before(p)) /\ IsFiniteSet(Present) /\ Rank(p) \in Nat /\ NrFrag \in Nat
      BY <2>1, PresentFinite DEF Rank, NrFrag
    <2> QED
      BY <2>1, <2>2, FS_AddElement DEF Rank
  <1> DEFINE s == After(p)
  \* Not the last one: everything before s is before p, or p.
  <1>6. ASSUME s \in Present, Before(s) = Before(p) \cup {p}
        PROVE  Rank(s) = Rank(p) + 1 /\ Rank(p) + 1 < NrFrag
    <2>1. Rank(s) = Rank(p) + 1
      BY <1>5, <1>6 DEF Rank
    <2> QED
      BY <1>6, <2>1, <1>5, RankBound
  <1>7. CASE p[2] + 1 < nf[p[1]]
    <2>1. s = <<p[1], p[2] + 1>>
      BY <1>7 DEF After
    <2>2. s \in Present
      BY <1>1, <1>2, <1>7, <2>1 DEF Present, Pfid
    <2>3. \A q \in Present : q \in Before(s) <=> q \in Before(p) \cup {p}
      <3> TAKE q \in Present
      <3>1. q = p <=> q[1] = p[1] /\ q[2] = p[2]
        BY <1>1, <1>4
      <3>2. s[1] = p[1] /\ s[2] = p[2] + 1
        BY <2>1
      <3> HIDE DEF s
      <3> QED
        BY <1>1, <1>4, <3>1, <3>2 DEF Before
    <2>4. Before(s) = Before(p) \cup {p}
      <3>1. Before(s) \subseteq Present
        BY DEF Before
      <3> HIDE DEF s
      <3> QED
        BY <1>5, <2>3, <3>1
    <2> HIDE DEF s
    <2> QED
      BY <1>6, <2>2, <2>4 DEF s
  <1>8. CASE ~(p[2] + 1 < nf[p[1]]) /\ p[1] + 1 < NrCdev
    <2>1. s = <<p[1] + 1, 0>>
      BY <1>8 DEF After
    <2>2. s \in Present
      <3>1. p[1] + 1 \in 0 .. NrCdev - 1
        BY <1>1, <1>2, <1>8
      <3> QED
        BY <1>2, <1>3, <2>1, <3>1 DEF Present, Pfid
    <2>3. \A q \in Present : q \in Before(s) <=> q \in Before(p) \cup {p}
      <3> TAKE q \in Present
      <3>1. q = p <=> q[1] = p[1] /\ q[2] = p[2]
        BY <1>1, <1>4
      <3>2. s[1] = p[1] + 1 /\ s[2] = 0
        BY <2>1
      <3>3. q[1] = p[1] => q[2] <= p[2]
        BY <1>1, <1>4, <1>8
      <3> HIDE DEF s
      <3> QED
        BY <1>1, <1>4, <3>1, <3>2, <3>3 DEF Before
    <2>4. Before(s) = Before(p) \cup {p}
      <3>1. Before(s) \subseteq Present
        BY DEF Before
      <3> HIDE DEF s
      <3> QED
        BY <1>5, <2>3, <3>1
    <2> HIDE DEF s
    <2> QED
      BY <1>6, <2>2, <2>4 DEF s
  <1>9. CASE ~(p[2] + 1 < nf[p[1]]) /\ ~(p[1] + 1 < NrCdev)
    <2>1. s = <<0, 0>>
      BY <1>9 DEF After
    <2>2. s \in Present
      <3>1. 0 \in 0 .. NrCdev - 1
        BY <1>1, <1>2
      <3> QED
        BY <1>2, <1>3, <2>1, <3>1 DEF Present, Pfid
    <2>3. Before(s) = {}
      <3>1. s[1] = 0 /\ s[2] = 0
        BY <2>1
      <3> HIDE DEF s
      <3> QED
        BY <1>4, <3>1 DEF Before
    <2>4. Rank(s) = 0
      BY <2>3, FS_EmptySet DEF Rank
    <2>5. Before(p) \cup {p} = Present
      <3>1. \A q \in Present : q \in Before(p) \cup {p}
        <4> TAKE q \in Present
        <4>1. q = p <=> q[1] = p[1] /\ q[2] = p[2]
          BY <1>1, <1>4
        <4>2. q[1] <= p[1]
          BY <1>1, <1>2, <1>4, <1>9
        <4>3. q[1] = p[1] => q[2] <= p[2]
          BY <1>1, <1>4, <1>9
        <4> QED
          BY <1>1, <1>4, <4>1, <4>2, <4>3 DEF Before
      <3> QED
        BY <1>5, <3>1
    <2>6. Rank(p) + 1 = NrFrag
      BY <1>5, <2>5 DEF NrFrag
    <2> QED
      BY <1>5, <2>2, <2>4, <2>6
  <1> QED
    BY <1>7, <1>8, <1>9

\* How many steps the arm needs to p.
Dist(p) ==
    IF Rank(p) >= Rank(Under(arm)) THEN Rank(p) - Rank(Under(arm))
    ELSE (Rank(p) - Rank(Under(arm))) + NrFrag

LEMMA Distances ==
    ASSUME ClockTypeOK, Compact, NrCdev > 0
    PROVE  /\ NrFrag \in Nat \ {0} /\ arm \in Pfid
           /\ Dist(Under(arm)) = 0
           /\ \A p \in Present : Dist(p) \in 0 .. NrFrag - 1
           /\ \A p, q \in Present : Dist(p) = Dist(q) => p = q
           /\ \A p \in Present : /\ After(p) \in Present
                                 /\ Dist(After(p)) = IF Dist(p) + 1 < NrFrag THEN Dist(p) + 1 ELSE 0
  <1> DEFINE o == Under(arm)
             k == Rank(o)
  <1>1. arm \in Pfid /\ o \in Present
    <2>1. arm \in Pfid
      BY DEF ClockTypeOK
    <2> QED
      BY <2>1, ArmAdvances
  <1>2. k \in 0 .. NrFrag - 1 /\ NrFrag \in Nat \ {0}
    BY <1>1, RankBound
  <1>3. \A p \in Present : Rank(p) \in 0 .. NrFrag - 1
    BY RankBound
  <1>4. \A p : Dist(p) = IF Rank(p) >= k THEN Rank(p) - k ELSE (Rank(p) - k) + NrFrag
    BY DEF Dist
  <1> HIDE DEF k
  <1>5. Dist(o) = 0
    BY <1>2, <1>4 DEF k
  <1> HIDE DEF o
  <1>6. \A p \in Present : Dist(p) \in 0 .. NrFrag - 1
    BY <1>2, <1>3, <1>4
  <1>7. ASSUME NEW p \in Present, NEW q \in Present, Dist(p) = Dist(q)
        PROVE  p = q
    <2>1. Rank(p) = Rank(q)
      BY <1>2, <1>3, <1>4, <1>7
    <2> QED
      BY <2>1, RankTells
  <1>8. ASSUME NEW p \in Present
        PROVE  /\ After(p) \in Present
               /\ Dist(After(p)) = IF Dist(p) + 1 < NrFrag THEN Dist(p) + 1 ELSE 0
    <2>1. /\ After(p) \in Present
          /\ Rank(After(p)) = IF Rank(p) + 1 < NrFrag THEN Rank(p) + 1 ELSE 0
      BY RankNext
    <2>2. Rank(p) \in 0 .. NrFrag - 1
      BY <1>3
    <2>3. /\ Dist(p) = IF Rank(p) >= k THEN Rank(p) - k ELSE (Rank(p) - k) + NrFrag
          /\ Dist(After(p)) = IF Rank(After(p)) >= k THEN Rank(After(p)) - k
                              ELSE (Rank(After(p)) - k) + NrFrag
      BY <1>4
    <2> QED
      BY <1>2, <2>1, <2>2, <2>3
  <1> QED
    BY <1>1, <1>2, <1>5, <1>6, <1>7, <1>8 DEF o

-----------------------------------------------------------------------------
(* A round of the arm. *)

\* After i steps the arm is i steps on, counted around the table.
LEMMA RoundSteps ==
    ASSUME ClockTypeOK, Compact, NrCdev > 0
    PROVE  \E A \in [0 .. NrFrag -> Pfid] :
              /\ Round = {Under(A[i]) : i \in 0 .. NrFrag - 1}
              /\ \A i \in 0 .. NrFrag : /\ Under(A[i]) \in Present
                                        /\ Dist(Under(A[i])) = i % NrFrag
  <1> DEFINE Eq(f) == f = [i \in 0 .. NrFrag |-> IF i = 0 THEN arm ELSE Advance(f[i - 1])]
             A == CHOOSE f : Eq(f)
             F == [a \in Pfid |-> Advance(a)]
  <1>1. NrFrag \in Nat \ {0} /\ arm \in Pfid
    BY Distances
  <1>2. Round = {Under(A[i]) : i \in 0 .. NrFrag - 1}
    BY DEF Round, NrFrag
  <1>3. F \in [Pfid -> Pfid] /\ \A a \in Pfid : F[a] = Advance(a)
    BY ArmAdvances
  <1>4. PICK f \in [0 .. NrFrag -> Pfid] :
            Follows(f, NrFrag, arm, F)
    <2>1. F \in [Pfid -> Pfid] /\ arm \in Pfid /\ NrFrag \in Nat
      BY <1>1, <1>3
    <2> HIDE DEF F
    <2> QED
      BY ONLY <2>1, LoopRuns
  <1>5. ASSUME NEW i \in 0 .. NrFrag
        PROVE  f[i] = IF i = 0 THEN arm ELSE Advance(f[i - 1])
    <2>1. i # 0 => f[i - 1] \in Pfid
      BY <1>1, <1>4
    <2> HIDE DEF F
    <2> QED
      BY <1>3, <1>4, <2>1 DEF Follows
  <1>6. Eq(f)
    BY <1>4, <1>5
  <1>7. Eq(A)
    <2> HIDE DEF Eq
    <2> QED
      BY <1>6
  <1> HIDE DEF A, F
  <1>8. \A i \in 0 .. NrFrag : A[i] = IF i = 0 THEN arm ELSE Advance(A[i - 1])
    BY <1>7
  <1>9. A = [i \in 0 .. NrFrag |-> A[i]]
    <2>1. A = [i \in 0 .. NrFrag |-> IF i = 0 THEN arm ELSE Advance(A[i - 1])]
      BY <1>7
    <2> QED
      BY <2>1
  <1> HIDE DEF Eq
  <1> DEFINE Good(i) == A[i] \in Pfid /\ Under(A[i]) \in Present /\ Dist(Under(A[i])) = i % NrFrag
             T == {i \in 0 .. NrFrag : ~Good(i)}
  <1>10. Good(0)
    <2>1. A[0] = arm
      BY <1>1, <1>8
    <2>2. (0 % NrFrag) = 0
      BY <1>1
    <2> QED
      BY <1>1, <2>1, <2>2, Distances, ArmAdvances
  <1>11. ASSUME NEW i \in 0 .. NrFrag - 1, Good(i)
         PROVE  Good(i + 1)
    <2>1. i \in Nat /\ i + 1 \in 0 .. NrFrag /\ i + 1 # 0 /\ (i + 1) - 1 = i
      BY <1>1
    <2>2. A[i + 1] = Advance(A[i])
      BY <1>8, <2>1
    <2>3. A[i + 1] \in Pfid /\ Under(A[i + 1]) = After(Under(A[i]))
      BY <1>11, <2>2, ArmAdvances
    <2>4. ((i + 1) % NrFrag) = IF (i % NrFrag) + 1 < NrFrag THEN (i % NrFrag) + 1 ELSE 0
      BY <1>1, <2>1, DivStep
    <2>5. /\ Under(A[i + 1]) \in Present
          /\ Dist(Under(A[i + 1])) = IF Dist(Under(A[i])) + 1 < NrFrag THEN Dist(Under(A[i])) + 1 ELSE 0
      BY <1>11, <2>3, Distances
    <2> QED
      BY <1>11, <2>3, <2>4, <2>5
  <1>12. ASSUME T # {} PROVE FALSE
    <2>1. T \subseteq Nat
      OBVIOUS
    <2> HIDE DEF T
    <2>2. PICK i \in T : \A j \in T : i <= j
      BY <1>12, <2>1, Least
    <2>3. i \in 0 .. NrFrag /\ ~Good(i) /\ \A j \in 0 .. NrFrag : ~Good(j) => i <= j
      BY <2>2 DEF T
    <2> HIDE DEF Good
    <2>4. i # 0
      BY <1>10, <2>3
    <2>5. i - 1 \in 0 .. NrFrag - 1 /\ i - 1 \in 0 .. NrFrag /\ ~(i <= i - 1) /\ (i - 1) + 1 = i
      BY <1>1, <2>3, <2>4
    <2>6. Good((i - 1) + 1)
      BY <1>11, <2>3, <2>5
    <2> QED
      BY <2>3, <2>5, <2>6
  <1>13. \A i \in 0 .. NrFrag : Good(i)
    BY <1>12
  <1>14. A \in [0 .. NrFrag -> Pfid]
    BY <1>9, <1>13
  <1> QED
    BY <1>2, <1>13, <1>14

LEMMA RoundIsAll ==
    ASSUME ClockTypeOK, Compact, NrCdev > 0
    PROVE  Round = Present
  <1>1. PICK A \in [0 .. NrFrag -> Pfid] :
              /\ Round = {Under(A[i]) : i \in 0 .. NrFrag - 1}
              /\ \A i \in 0 .. NrFrag : /\ Under(A[i]) \in Present
                                        /\ Dist(Under(A[i])) = i % NrFrag
    BY RoundSteps
  <1>2. NrFrag \in Nat \ {0}
    BY Distances
  <1>3. \A i \in 0 .. NrFrag - 1 : i \in 0 .. NrFrag /\ (i % NrFrag) = i
    BY <1>2
  <1>4. Round \subseteq Present
    BY <1>1, <1>3
  <1>5. ASSUME NEW p \in Present
        PROVE  p \in Round
    <2>1. Dist(p) \in 0 .. NrFrag - 1
      BY Distances
    <2>2. Under(A[Dist(p)]) \in Present /\ Dist(Under(A[Dist(p)])) = Dist(p)
      BY <1>1, <1>3, <2>1
    <2>3. Under(A[Dist(p)]) = p
      BY <2>2, Distances
    <2> QED
      BY <1>1, <2>1, <2>3
  <1> QED
    BY <1>4, <1>5

-----------------------------------------------------------------------------
(* The sweep. *)

\* States of the loop in _evict_frag; without a device it is never entered.
Sweeping ==
    {s \in [arm : Pfid, ref : [Pfid -> 0 .. RefCeiling], victim : Pfid \cup {NoFrag}, stop : BOOLEAN] :
        NrCdev = 0 => s.stop}

Start0 == [arm |-> arm, ref |-> ref, victim |-> NoFrag, stop |-> NrCdev = 0]

LEMMA NrCdevBound ==
    ASSUME ClockTypeOK
    PROVE  NrCdev \in 0 .. MaxCdev /\ MaxCdev \in Nat \ {0} /\ MaxOff \in Nat \ {0} /\ RefCeiling \in Nat \ {0}
  <1>1. MaxCdev \in Nat \ {0} /\ MaxOff \in Nat \ {0} /\ RefCeiling \in Nat \ {0}
    BY ClockAssumption
  <1>2. IsFiniteSet(Cdev) /\ Cardinality(Cdev) = MaxCdev
    BY <1>1, FS_Interval DEF Cdev
  <1>3. {c \in Cdev : nf[c] > 0} \in SUBSET Cdev
    OBVIOUS
  <1>4. NrCdev <= MaxCdev /\ NrCdev \in Nat
    BY <1>2, <1>3, FS_Subset, FS_CardinalityType DEF NrCdev
  <1> QED
    BY <1>1, <1>4

\* A step of the sweep keeps its state in order, whatever the table is like.
LEMMA StepInOrder ==
    ASSUME ClockTypeOK, NEW s \in Sweeping
    PROVE  ArmStep(s) \in Sweeping
  <1>1. CASE s.stop
    BY <1>1 DEF ArmStep
  <1>2. CASE ~s.stop
    <2>1. NrCdev \in 1 .. MaxCdev /\ RefCeiling \in Nat
      BY <1>2, NrCdevBound DEF Sweeping
    <2>2. /\ s.arm \in Pfid /\ s.ref \in [Pfid -> 0 .. RefCeiling] /\ s.victim \in Pfid \cup {NoFrag}
          /\ s = [arm |-> s.arm, ref |-> s.ref, victim |-> s.victim, stop |-> s.stop]
      BY DEF Sweeping
    <2>3. Advance(s.arm) \in Pfid /\ (Under(s.arm) # NoFrag => Under(s.arm) \in Pfid)
      <3>1. nf[Dev(s.arm)] \in Nat
        BY <2>1, <2>2, ArmInTable, DeviceSizes
      <3> QED
        BY <2>1, <2>2, <3>1, ArmInTable DEF Present
    <2> DEFINE moved == [s EXCEPT !.arm = Advance(s.arm)]
               p == Under(s.arm)
    <2>4. moved = [arm |-> Advance(s.arm), ref |-> s.ref, victim |-> s.victim, stop |-> s.stop]
      BY <2>2
    <2>5. moved \in Sweeping /\ [moved EXCEPT !.stop = TRUE] \in Sweeping
      BY <2>1, <2>2, <2>3, <2>4, <1>2 DEF Sweeping
    <2>6. CASE p = NoFrag
      BY <1>2, <2>5, <2>6 DEF ArmStep
    <2>7. CASE p # NoFrag
      <3>1. ArmStep(s) = Pass(moved, p) /\ p \in Pfid
        BY <1>2, <2>3, <2>7 DEF ArmStep
      <3> HIDE DEF p
      <3>2. CASE use[p] # "idle"
        BY <2>5, <3>1, <3>2 DEF Pass
      <3>3. CASE use[p] = "idle" /\ s.ref[p] = 0
        <4>1. Pass(moved, p) = [arm |-> Advance(s.arm), ref |-> s.ref, victim |-> p, stop |-> TRUE]
          BY <2>4, <3>3 DEF Pass
        <4> HIDE DEF moved
        <4> QED
          BY <2>1, <2>2, <2>3, <3>1, <4>1 DEF Sweeping
      <3>4. CASE use[p] = "idle" /\ s.ref[p] # 0
        <4>1. Pass(moved, p) = [arm |-> Advance(s.arm), ref |-> [s.ref EXCEPT ![p] = @ - 1],
                                 victim |-> s.victim, stop |-> s.stop]
          BY <2>4, <3>4 DEF Pass
        <4>2. s.ref[p] \in 0 .. RefCeiling /\ s.ref[p] - 1 \in 0 .. RefCeiling
          BY <2>1, <2>2, <3>1, <3>4
        <4>3. [s.ref EXCEPT ![p] = @ - 1] \in [Pfid -> 0 .. RefCeiling]
          BY <2>2, <4>2
        <4> HIDE DEF moved
        <4> QED
          BY <1>2, <2>1, <2>2, <2>3, <3>1, <4>1, <4>3 DEF Sweeping
      <3> QED
        BY <3>2, <3>3, <3>4
    <2> QED
      BY <2>6, <2>7
  <1> QED
    BY <1>1, <1>2

\* The sweep is the last of a sequence of such states.
LEMMA SweepRuns ==
    ASSUME ClockTypeOK
    PROVE  /\ Steps \in Nat
           /\ \E S \in [0 .. Steps -> Sweeping] :
                 /\ Sweep = S[Steps]
                 /\ \A i \in 0 .. Steps : S[i] = IF i = 0 THEN Start0 ELSE ArmStep(S[i - 1])
  <1> DEFINE Eq(f) == f = [i \in 0 .. Steps |-> IF i = 0 THEN Start0 ELSE ArmStep(f[i - 1])]
             S == CHOOSE f : Eq(f)
             F == [s \in Sweeping |-> ArmStep(s)]
  <1>1. Steps \in Nat
    <2>1. Cardinality(Present) \in Nat /\ RefCeiling \in Nat
      BY PresentFinite, ClockAssumption
    <2> QED
      BY <2>1 DEF Steps
  <1>2. Sweep = S[Steps]
    BY DEF Sweep, Start0
  <1>3. Start0 \in Sweeping
    BY DEF Start0, Sweeping, ClockTypeOK
  <1>4. F \in [Sweeping -> Sweeping] /\ \A s \in Sweeping : F[s] = ArmStep(s)
    BY StepInOrder
  <1>5. PICK f \in [0 .. Steps -> Sweeping] :
            Follows(f, Steps, Start0, F)
    <2>1. F \in [Sweeping -> Sweeping] /\ Start0 \in Sweeping /\ Steps \in Nat
      BY <1>1, <1>3, <1>4
    <2> HIDE DEF F
    <2> QED
      BY ONLY <2>1, LoopRuns
  <1>6. ASSUME NEW i \in 0 .. Steps
        PROVE  f[i] = IF i = 0 THEN Start0 ELSE ArmStep(f[i - 1])
    <2>1. i # 0 => f[i - 1] \in Sweeping
      BY <1>1, <1>5
    <2> HIDE DEF F
    <2> QED
      BY <1>4, <1>5, <2>1 DEF Follows
  <1>7. Eq(f)
    BY <1>5, <1>6
  <1>8. Eq(S)
    <2> HIDE DEF Eq
    <2> QED
      BY <1>7
  <1> HIDE DEF S, F
  <1>9. \A i \in 0 .. Steps : S[i] = IF i = 0 THEN Start0 ELSE ArmStep(S[i - 1])
    BY <1>8
  <1>10. S = [i \in 0 .. Steps |-> S[i]]
    <2>1. S = [i \in 0 .. Steps |-> IF i = 0 THEN Start0 ELSE ArmStep(S[i - 1])]
      BY <1>8
    <2> QED
      BY <2>1
  <1> HIDE DEF Eq
  <1> DEFINE T == {i \in 0 .. Steps : S[i] \notin Sweeping}
  <1>11. ASSUME T # {} PROVE FALSE
    <2>1. T \subseteq Nat
      OBVIOUS
    <2> HIDE DEF T
    <2>2. PICK i \in T : \A j \in T : i <= j
      BY <1>11, <2>1, Least
    <2>3. i \in 0 .. Steps /\ S[i] \notin Sweeping /\ \A j \in 0 .. Steps : S[j] \notin Sweeping => i <= j
      BY <2>2 DEF T
    <2>4. i # 0
      BY <1>1, <1>3, <1>9, <2>3
    <2>5. i - 1 \in 0 .. Steps /\ ~(i <= i - 1)
      BY <1>1, <2>3, <2>4
    <2>6. S[i - 1] \in Sweeping /\ S[i] = ArmStep(S[i - 1])
      BY <1>9, <2>3, <2>4, <2>5
    <2> QED
      BY <2>3, <2>6, StepInOrder
  <1>12. S \in [0 .. Steps -> Sweeping]
    BY <1>10, <1>11
  <1> QED
    BY <1>1, <1>2, <1>9, <1>12

\* How often i steps of the arm have visited p.
Visits(i, p) == (i \div NrFrag) + (IF Dist(p) < i % NrFrag THEN 1 ELSE 0)

\* The state s after i steps: until it stops, the sweep has taken one reference
\* at each visit of an idle fragment; if it stopped it was at the coldest.
Swept(i, s) ==
    /\ ~s.stop => /\ Dist(Under(s.arm)) = i % NrFrag
                  /\ s.victim = NoFrag
                  /\ \A p \in Idle : s.ref[p] = ref[p] - Visits(i, p)
    /\ s.stop => s.victim \in Idle /\ \A p \in Idle : ref[s.victim] <= ref[p]

LEMMA VisitsNext ==
    ASSUME ClockTypeOK, Compact, NrCdev > 0, NEW i \in Nat, NEW p \in Present
    PROVE  /\ Visits(i, p) \in Nat /\ Visits(i, p) >= i \div NrFrag
           /\ Visits(i + 1, p) = Visits(i, p) + (IF Dist(p) = i % NrFrag THEN 1 ELSE 0)
           /\ Dist(p) = i % NrFrag => Visits(i, p) = i \div NrFrag
  <1>1. NrFrag \in Nat \ {0} /\ Dist(p) \in 0 .. NrFrag - 1
    BY Distances
  <1> DEFINE q == i \div NrFrag
             r == i % NrFrag
             q1 == (i + 1) \div NrFrag
             r1 == (i + 1) % NrFrag
  <1>2. /\ r \in 0 .. NrFrag - 1 /\ q \in Nat
        /\ r1 = (IF r + 1 < NrFrag THEN r + 1 ELSE 0)
        /\ q1 = (IF r + 1 < NrFrag THEN q ELSE q + 1)
    BY <1>1, DivStep
  <1>3. /\ Visits(i, p) = q + (IF Dist(p) < r THEN 1 ELSE 0)
        /\ Visits(i + 1, p) = q1 + (IF Dist(p) < r1 THEN 1 ELSE 0)
    BY DEF Visits
  <1> HIDE DEF q, r, q1, r1
  <1>4. /\ Visits(i, p) \in Nat /\ Visits(i, p) >= q
        /\ Visits(i + 1, p) = Visits(i, p) + (IF Dist(p) = r THEN 1 ELSE 0)
        /\ Dist(p) = r => Visits(i, p) = q
    BY <1>1, <1>2, <1>3
  <1> QED
    BY <1>4 DEF q, r

\* One step of the sweep.
LEMMA StepSweeps ==
    ASSUME ClockTypeOK, Compact, NrCdev > 0, NEW i \in Nat, NEW s \in Sweeping, Swept(i, s)
    PROVE  Swept(i + 1, ArmStep(s))
  <1>1. CASE s.stop
    BY <1>1 DEF ArmStep, Swept
  <1>2. CASE ~s.stop
    <2>1. /\ s.arm \in Pfid /\ s.ref \in [Pfid -> 0 .. RefCeiling]
          /\ s = [arm |-> s.arm, ref |-> s.ref, victim |-> s.victim, stop |-> s.stop]
      BY DEF Sweeping
    <2>2. RefCeiling \in Nat /\ NrFrag \in Nat \ {0}
      BY ClockAssumption, Distances
    <2>3. /\ Dist(Under(s.arm)) = i % NrFrag /\ s.victim = NoFrag
          /\ \A p \in Idle : s.ref[p] = ref[p] - Visits(i, p)
      BY <1>2 DEF Swept
    <2> DEFINE moved == [s EXCEPT !.arm = Advance(s.arm)]
               v == Under(s.arm)
    <2>4. v \in Present /\ v \in Pfid /\ v # NoFrag
      <3>1. v \in Present
        BY <2>1, ArmAdvances
      <3> QED
        BY <3>1, ClockAssumption DEF Present
    <2>5. ArmStep(s) = Pass(moved, v)
      BY <1>2, <2>4 DEF ArmStep
    <2>6. moved = [arm |-> Advance(s.arm), ref |-> s.ref, victim |-> NoFrag, stop |-> FALSE]
      <3>1. s.stop = FALSE
        <4>1. s.stop \in BOOLEAN
          BY DEF Sweeping
        <4> QED
          BY <1>2, <4>1
      <3>2. moved = [arm |-> Advance(s.arm), ref |-> s.ref, victim |-> s.victim, stop |-> s.stop]
        BY <2>1
      <3> HIDE DEF moved
      <3> QED
        BY <2>3, <3>1, <3>2
    <2>7. Dist(Under(Advance(s.arm))) = (i + 1) % NrFrag
      <3>1. Under(Advance(s.arm)) = After(v)
        BY <2>1, ArmAdvances
      <3>2. Dist(After(v)) = IF Dist(v) + 1 < NrFrag THEN Dist(v) + 1 ELSE 0
        BY <2>4, Distances
      <3>3. ((i + 1) % NrFrag) = IF (i % NrFrag) + 1 < NrFrag THEN (i % NrFrag) + 1 ELSE 0
        BY <2>2, DivStep
      <3> QED
        BY <2>3, <3>1, <3>2, <3>3
    <2>8. \A p \in Idle : p \in Present /\ p \in Pfid /\ ref[p] \in Nat /\ s.ref[p] \in Nat
      <3>1. ref \in [Pfid -> 0 .. RefCeiling]
        BY DEF ClockTypeOK
      <3> QED
        BY <2>1, <2>2, <3>1 DEF Idle, Present
    <2>9. \A p \in Idle : /\ Visits(i, p) \in Nat /\ Visits(i, p) >= i \div NrFrag
                          /\ Visits(i + 1, p) = Visits(i, p) + (IF p = v THEN 1 ELSE 0)
                          /\ p = v => Visits(i, p) = i \div NrFrag
      <3> TAKE p \in Idle
      <3>1. p \in Present
        BY <2>8
      <3>2. p = v <=> Dist(p) = i % NrFrag
        BY <2>3, <2>4, <3>1, Distances
      <3> HIDE DEF v
      <3> QED
        BY <3>1, <3>2, VisitsNext
    <2>10. v \in Idle <=> use[v] = "idle"
      BY <2>4 DEF Idle
    <2> HIDE DEF moved, v
    <2>11. CASE use[v] # "idle"
      <3>1. ArmStep(s) = moved
        BY <2>5, <2>11 DEF Pass
      <3>2. ~moved.stop /\ moved.victim = NoFrag /\ moved.ref = s.ref /\ moved.arm = Advance(s.arm)
        BY <2>6
      <3>3. \A p \in Idle : s.ref[p] = ref[p] - Visits(i + 1, p)
        <4> TAKE p \in Idle
        <4>1. p # v
          BY <2>10, <2>11
        <4> QED
          BY <2>3, <2>8, <2>9, <4>1
      <3> QED
        BY <2>7, <3>1, <3>2, <3>3 DEF Swept
    <2>12. CASE use[v] = "idle" /\ s.ref[v] = 0
      <3>1. ArmStep(s) = [moved EXCEPT !.victim = v, !.stop = TRUE]
        BY <2>5, <2>6, <2>12 DEF Pass
      <3>2. ArmStep(s).stop = TRUE /\ ArmStep(s).victim = v
        BY <2>6, <3>1
      <3>3. \A p \in Idle : ref[v] <= ref[p]
        <4> TAKE p \in Idle
        <4>1. v \in Idle
          BY <2>10, <2>12
        <4>2. ref[v] = Visits(i, v) /\ Visits(i, v) = i \div NrFrag
          BY <2>3, <2>8, <2>9, <2>12, <4>1
        <4>3. ref[p] >= Visits(i, p) /\ Visits(i, p) >= i \div NrFrag
          BY <2>3, <2>8, <2>9
        <4>4. i \div NrFrag \in Nat /\ Visits(i, p) \in Nat /\ ref[p] \in Nat
          BY <2>2, <2>8, <2>9, DivStep
        <4> HIDE <2>2, <2>3, <2>8, <2>9
        <4> QED
          BY <4>2, <4>3, <4>4
      <3> QED
        BY <2>10, <2>12, <3>2, <3>3 DEF Swept
    <2>13. CASE use[v] = "idle" /\ s.ref[v] # 0
      <3>1. ArmStep(s) = [moved EXCEPT !.ref[v] = @ - 1]
        BY <2>5, <2>6, <2>13 DEF Pass
      <3>2. /\ ArmStep(s).stop = FALSE /\ ArmStep(s).victim = NoFrag /\ ArmStep(s).arm = Advance(s.arm)
            /\ ArmStep(s).ref = [s.ref EXCEPT ![v] = @ - 1]
        BY <2>6, <3>1
      <3>3. \A p \in Idle : ArmStep(s).ref[p] = ref[p] - Visits(i + 1, p)
        <4> TAKE p \in Idle
        <4>1. ArmStep(s).ref[p] = IF p = v THEN s.ref[p] - 1 ELSE s.ref[p]
          BY <2>1, <2>8, <3>2
        <4> QED
          BY <2>3, <2>8, <2>9, <4>1
      <3> QED
        BY <2>7, <3>2, <3>3 DEF Swept
    <2> QED
      BY <2>11, <2>12, <2>13
  <1> QED
    BY <1>1, <1>2

LEMMA SweepIsSwept ==
    ASSUME ClockTypeOK, Compact, NrCdev > 0
    PROVE  Sweep \in Sweeping /\ Steps \in Nat /\ Swept(Steps, Sweep)
  <1>1. Steps \in Nat
    BY SweepRuns
  <1>2. PICK S \in [0 .. Steps -> Sweeping] :
                 /\ Sweep = S[Steps]
                 /\ \A i \in 0 .. Steps : S[i] = IF i = 0 THEN Start0 ELSE ArmStep(S[i - 1])
    BY SweepRuns
  <1> DEFINE T == {i \in 0 .. Steps : ~Swept(i, S[i])}
  <1>3. Swept(0, S[0])
    <2>1. S[0] = Start0 /\ ~Start0.stop
      <3>1. S[0] = Start0
        BY <1>1, <1>2
      <3>2. Start0.stop = (NrCdev = 0)
        BY DEF Start0
      <3>3. NrCdev # 0
        BY NrCdevBound
      <3> QED
        BY <3>1, <3>2, <3>3
    <2>2. NrFrag \in Nat \ {0} /\ Dist(Under(arm)) = 0 /\ (0 % NrFrag) = 0 /\ 0 \div NrFrag = 0
      BY Distances
    <2>3. \A p \in Idle : ref[p] = ref[p] - Visits(0, p)
      <3> TAKE p \in Idle
      <3>1. Dist(p) \in 0 .. NrFrag - 1
        BY Distances DEF Idle
      <3>2. Visits(0, p) = 0
        BY <2>2, <3>1 DEF Visits
      <3>3. ref[p] \in Nat
        <4>1. ref \in [Pfid -> 0 .. RefCeiling] /\ RefCeiling \in Nat
          BY ClockAssumption DEF ClockTypeOK
        <4> QED
          BY <4>1 DEF Idle, Present
      <3> QED
        BY <3>2, <3>3
    <2> QED
      BY <2>1, <2>2, <2>3 DEF Swept, Start0
  <1>4. ASSUME T # {} PROVE FALSE
    <2>1. T \subseteq Nat
      OBVIOUS
    <2> HIDE DEF T
    <2>2. PICK i \in T : \A j \in T : i <= j
      BY <1>4, <2>1, Least
    <2>3. i \in 0 .. Steps /\ ~Swept(i, S[i]) /\ \A j \in 0 .. Steps : ~Swept(j, S[j]) => i <= j
      BY <2>2 DEF T
    <2>4. i # 0
      BY <1>3, <2>3
    <2>5. i - 1 \in 0 .. Steps /\ i - 1 \in Nat /\ ~(i <= i - 1) /\ (i - 1) + 1 = i
      BY <1>1, <2>3, <2>4
    <2>6. S[i - 1] \in Sweeping /\ Swept(i - 1, S[i - 1]) /\ S[i] = ArmStep(S[i - 1])
      BY <1>2, <2>3, <2>4, <2>5
    <2>7. Swept((i - 1) + 1, ArmStep(S[i - 1]))
      BY <2>5, <2>6, StepSweeps
    <2> QED
      BY <2>3, <2>5, <2>6, <2>7
  <1>5. Steps \in 0 .. Steps
    BY <1>1
  <1> QED
    BY <1>1, <1>2, <1>4, <1>5

\* The sweep returns a fragment of the table, or none.
LEMMA SweepTypes ==
    ASSUME ClockTypeOK
    PROVE  Sweep \in Sweeping
  <1>1. Steps \in Nat /\ Steps \in 0 .. Steps
    BY SweepRuns
  <1>2. PICK S \in [0 .. Steps -> Sweeping] : Sweep = S[Steps]
    BY SweepRuns
  <1> QED
    BY <1>1, <1>2

LEMMA SweepFindsColdest ==
    ASSUME ClockTypeOK, Compact
    PROVE  /\ (\E p \in Idle : ref[p] < RefCeiling) => Sweep.victim # NoFrag
           /\ Sweep.victim # NoFrag =>
                 Sweep.victim \in Idle /\ \A p \in Idle : ref[Sweep.victim] <= ref[p]
  <1>1. CASE NrCdev = 0
    <2>1. Steps \in Nat
      BY SweepRuns
    <2>2. PICK S \in [0 .. Steps -> Sweeping] :
                 /\ Sweep = S[Steps]
                 /\ \A i \in 0 .. Steps : S[i] = IF i = 0 THEN Start0 ELSE ArmStep(S[i - 1])
      BY SweepRuns
    <2>3. Present = {}
      <3>1. SUFFICES ASSUME NEW p \in Present PROVE FALSE
        OBVIOUS
      <3>2. p[1] \in Cdev /\ p[1] \in Nat /\ nf[p[1]] > 0
        <4>1. p[1] \in Cdev /\ p[1] \in Nat /\ p[2] \in Nat /\ p[2] < nf[p[1]] /\ nf[p[1]] \in Nat
          BY PfidParts
        <4> QED
          BY <4>1
      <3>3. p[1] < 0
        BY <1>1, <3>2, DevsAreFirst
      <3> QED
        BY <3>2, <3>3
    <2>4. Steps = 0
      <3>1. Cardinality(Present) = 0 /\ RefCeiling \in Nat
        BY <2>3, FS_EmptySet, ClockAssumption
      <3> QED
        BY <3>1 DEF Steps
    <2>5. Sweep.victim = NoFrag
      BY <2>2, <2>4 DEF Start0
    <2> QED
      BY <2>3, <2>5 DEF Idle
  <1>2. CASE NrCdev > 0
    <2>1. Sweep \in Sweeping /\ Swept(Steps, Sweep)
      BY <1>2, SweepIsSwept
    <2>2. CASE Sweep.stop
      <3>1. Sweep.victim \in Idle /\ \A p \in Idle : ref[Sweep.victim] <= ref[p]
        BY <2>1, <2>2 DEF Swept
      <3>2. NoFrag \notin Idle
        BY ClockAssumption DEF Idle, Present
      <3> QED
        BY <3>1, <3>2
    <2>3. CASE ~Sweep.stop
      <3>1. Sweep.victim = NoFrag /\ \A p \in Idle : Sweep.ref[p] = ref[p] - Visits(Steps, p)
        BY <2>1, <2>3 DEF Swept
      <3>2. ASSUME NEW p \in Idle
            PROVE  ~(ref[p] < RefCeiling)
        <4>1. p \in Pfid /\ p \in Present
          BY DEF Idle, Present
        <4>2. ref[p] \in Nat /\ Sweep.ref[p] \in Nat /\ RefCeiling \in Nat
          <5>1. ref \in [Pfid -> 0 .. RefCeiling] /\ RefCeiling \in Nat
            BY ClockAssumption DEF ClockTypeOK
          <5>2. Sweep.ref \in [Pfid -> 0 .. RefCeiling]
            BY <2>1 DEF Sweeping
          <5> QED
            BY <4>1, <5>1, <5>2
        <4>3. NrFrag \in Nat \ {0} /\ Dist(p) \in 0 .. NrFrag - 1
          BY <1>2, <4>1, Distances
        <4>4. Steps = RefCeiling * NrFrag + 0
          BY <4>2, <4>3 DEF Steps, NrFrag
        <4>5. \A z : z = RefCeiling * NrFrag + 0 => z \div NrFrag = RefCeiling /\ (z % NrFrag) = 0
          BY <4>2, <4>3
        <4>6. Visits(Steps, p) = RefCeiling
          <5>1. Steps \div NrFrag = RefCeiling /\ (Steps % NrFrag) = 0
            BY <4>4, <4>5
          <5> QED
            BY <4>2, <4>3, <5>1 DEF Visits
        <4> QED
          BY <3>1, <4>2, <4>6
      <3> QED
        BY <3>1, <3>2
    <2> QED
      BY <2>2, <2>3
  <1>3. NrCdev = 0 \/ NrCdev > 0
    BY NrCdevBound
  <1> QED
    BY <1>1, <1>2, <1>3

-----------------------------------------------------------------------------
(* Theorems. *)

LEMMA InitTypes == ClockInit => ClockTypeOK
  <1>1. 0 \in 0 .. RefCeiling /\ <<0, 0>> \in Pfid
    BY ClockAssumption DEF Pfid, Cdev
  <1> QED
    BY <1>1 DEF ClockInit, ClockTypeOK

LEMMA EvictTypes ==
    ASSUME ClockTypeOK, Evict
    PROVE  ClockTypeOK'
  <1>1. /\ Sweep.arm \in Pfid /\ Sweep.ref \in [Pfid -> 0 .. RefCeiling]
        /\ Sweep.victim \in Pfid \cup {NoFrag}
    BY SweepTypes DEF Sweeping
  <1>2. 0 \in 0 .. RefCeiling
    BY ClockAssumption
  <1>3. arm' \in Pfid /\ nf' = nf
    BY <1>1 DEF Evict
  <1>4. CASE Sweep.victim = NoFrag
    BY <1>1, <1>3, <1>4 DEF Evict, ClockTypeOK
  <1>5. CASE Sweep.victim # NoFrag
    <2>1. /\ use' = [use EXCEPT ![Sweep.victim] = "fill"]
          /\ ref' = [Sweep.ref EXCEPT ![Sweep.victim] = 0]
      BY <1>5 DEF Evict
    <2>2. ref' \in [Pfid -> 0 .. RefCeiling]
      BY <1>1, <1>2, <2>1
    <2>3. use' \in [Pfid -> {"free", "fill", "read", "idle"}]
      BY <2>1 DEF ClockTypeOK
    <2> QED
      BY <1>3, <2>2, <2>3 DEF ClockTypeOK
  <1> QED
    BY <1>4, <1>5

LEMMA NextTypes == ClockTypeOK /\ [ClockNext]_clockvars => ClockTypeOK'
  <1>1. SUFFICES ASSUME ClockTypeOK, [ClockNext]_clockvars PROVE ClockTypeOK'
    OBVIOUS
  <1>2. RefCeiling \in Nat /\ 0 \in 0 .. RefCeiling
    BY ClockAssumption
  <1>3. ASSUME NEW c \in Cdev, RmCdev(c) PROVE ClockTypeOK'
    BY <1>1, <1>2, <1>3 DEF RmCdev, ClockTypeOK
  <1>4. ASSUME NEW c \in Cdev, NEW n \in DevFrags, AddCdev(c, n) PROVE ClockTypeOK'
    BY <1>1, <1>4 DEF AddCdev, ClockTypeOK
  <1>5. ASSUME NEW p \in Pfid, TakeFree(p) PROVE ClockTypeOK'
    BY <1>1, <1>2, <1>5 DEF TakeFree, ClockTypeOK
  <1>6. ASSUME NEW p \in Pfid, Hit(p) PROVE ClockTypeOK'
    <2>1. ref' \in [Pfid -> 0 .. RefCeiling]
      <3>1. ref[p] \in 0 .. RefCeiling
        BY <1>1 DEF ClockTypeOK
      <3>2. (IF ref[p] < RefCeiling THEN ref[p] + 1 ELSE ref[p]) \in 0 .. RefCeiling
        BY <1>2, <3>1
      <3> QED
        BY <1>1, <1>6, <3>2 DEF Hit, ClockTypeOK
    <2> QED
      BY <1>1, <1>6, <2>1 DEF Hit, ClockTypeOK
  <1>7. ASSUME NEW p \in Pfid, Release(p) PROVE ClockTypeOK'
    BY <1>1, <1>7 DEF Release, ClockTypeOK
  <1>8. ASSUME NEW p \in Pfid, Collect(p) PROVE ClockTypeOK'
    BY <1>1, <1>8 DEF Collect, ClockTypeOK
  <1>9. CASE UNCHANGED clockvars
    BY <1>1, <1>9 DEF clockvars, ClockTypeOK
  <1> QED
    BY <1>1, <1>3, <1>4, <1>5, <1>6, <1>7, <1>8, <1>9, EvictTypes DEF ClockNext

\* The sweep leaves every counter of references between 0 and SCE_REFCEILING
\* and the arm in the table, with or without holes in it.
THEOREM TypeCorrect == ClockSpec => []ClockTypeOK
  BY InitTypes, NextTypes, PTL DEF ClockSpec

\* Without holes in the table, _get_frag_advance_clockarm visits every fragment
\* once per round from wherever removals and additions have left the arm.
THEOREM VisitsAll == ClockSpec => []RoundIsComplete
  <1>1. ClockTypeOK => RoundIsComplete
    BY RoundIsAll DEF RoundIsComplete
  <1> QED
    BY <1>1, TypeCorrect, PTL

\* Without holes in the table, _evict_frag finds a victim as long as an idle
\* fragment has a reference less than the ceiling, and takes the coldest.
THEOREM FindsColdest == ClockSpec => []EvictsColdest
  <1>1. ClockTypeOK => EvictsColdest
    BY SweepFindsColdest DEF EvictsColdest
  <1> QED
    BY <1>1, TypeCorrect, PTL
=============================================================================
