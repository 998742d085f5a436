--------------------------- MODULE FragCopyProofs ---------------------------
(***************************************************************************)
(* The words of the invalid-page bitmap, updated bit by bit and tested     *)
(* word by word with shifted masks, say the same as a set of pages, for    *)
(* every width of a word and every number of pages; and a hit reads what   *)
(* the population put there, for every size of targets and fragments.      *)
(***************************************************************************)
EXTENDS FragCopy, FiniteSetTheorems, NaturalsInduction, WellFoundedInduction, TLAPS

-----------------------------------------------------------------------------
(* Loops. *)

\* A set of naturals has a least member: how a loop is followed step by step.
LEMMA Least ==
    ASSUME NEW T, T \subseteq Nat, T # {}
    PROVE  \E x \in T : \A y \in T : x <= y
  <1>1. PICK x \in T : \A y \in T : ~(<<y, x>> \in OpToRel(<, Nat))
    BY NatLessThanWellFounded, WFMin
  <1>2. \A y \in T : ~(y < x)
    BY <1>1 DEF OpToRel
  <1>3. \A y \in T : y \in Nat /\ x \in Nat
    OBVIOUS
  <1> QED
    BY <1>2, <1>3

\* f follows n steps of a loop with body F from s0.
Follows(f, n, s0, F) ==
    \A i \in 0 .. n : f[i] = IF i = 0 THEN s0 ELSE F[<<f[i - 1], i - 1>>]

\* A loop whose body keeps an invariant J has a result: its states are a
\* function of the number of steps.
LEMMA LoopRuns ==
    ASSUME NEW n \in Nat, NEW J, NEW s0, <<s0, 0>> \in J, NEW F,
           \A s : \A i \in 0 .. n - 1 : <<s, i>> \in J => <<F[<<s, i>>], i + 1>> \in J
    PROVE  \E f : /\ f = [i \in 0 .. n |-> f[i]]
                  /\ Follows(f, n, s0, F)
                  /\ \A i \in 0 .. n : <<f[i], i>> \in J
  <1> DEFINE Good(m, f) == /\ f = [i \in 0 .. m |-> f[i]]
                           /\ Follows(f, m, s0, F)
                           /\ \A i \in 0 .. m : <<f[i], i>> \in J
             Runs(m) == \E f : Good(m, f)
             T == {m \in 0 .. n : ~Runs(m)}
  <1>1. Runs(0)
    <2> DEFINE f == [i \in 0 .. 0 |-> s0]
    <2>1. f = [i \in 0 .. 0 |-> f[i]] /\ \A i \in 0 .. 0 : i = 0 /\ f[i] = s0
      OBVIOUS
    <2>2. Good(0, f)
      BY <2>1 DEF Follows
    <2> QED
      BY <2>2
  <1>2. ASSUME NEW m \in 0 .. n - 1, Runs(m)
        PROVE  Runs(m + 1)
    <2>1. PICK f : Good(m, f)
      BY <1>2
    <2> DEFINE g == [i \in 0 .. m + 1 |-> IF i = m + 1 THEN F[<<f[m], m>>] ELSE f[i]]
    <2>2. m \in 0 .. m /\ m \in 0 .. m + 1 /\ m # m + 1 /\ m + 1 \in 0 .. m + 1 /\ m \in Nat
      OBVIOUS
    <2>3. <<f[m], m>> \in J
      BY <2>1, <2>2
    <2>4. <<F[<<f[m], m>>], m + 1>> \in J
      BY <2>3
    <2>5. g[m + 1] = F[<<f[m], m>>] /\ \A i \in 0 .. m : g[i] = f[i]
      <3>1. \A i \in 0 .. m : i \in 0 .. m + 1 /\ i # m + 1
        BY <2>2
      <3> QED
        BY <2>2, <3>1
    <2>6. g = [i \in 0 .. m + 1 |-> g[i]]
      OBVIOUS
    <2> HIDE DEF g
    <2>7. \A i \in 0 .. m + 1 : i \in 0 .. m \/ i = m + 1
      BY <2>2
    <2>8. ASSUME NEW i \in 0 .. m + 1
          PROVE  g[i] = IF i = 0 THEN s0 ELSE F[<<g[i - 1], i - 1>>]
      <3>1. CASE i \in 0 .. m
        <4>1. i # 0 => i - 1 \in 0 .. m
          BY <2>2, <3>1
        <4> QED
          BY <2>1, <2>5, <3>1, <4>1 DEF Follows
      <3>2. CASE i = m + 1
        <4>1. i # 0 /\ i - 1 = m
          BY <2>2, <3>2
        <4> QED
          BY <2>2, <2>5, <3>2, <4>1
      <3> QED
        BY <2>7, <3>1, <3>2
    <2>9. \A i \in 0 .. m + 1 : <<g[i], i>> \in J
      BY <2>1, <2>4, <2>5, <2>7
    <2>10. Good(m + 1, g)
      BY <2>6, <2>8, <2>9 DEF Follows
    <2> QED
      BY <2>10
  <1>3. ASSUME T # {} PROVE FALSE
    <2>1. T \subseteq Nat
      OBVIOUS
    <2> HIDE DEF T
    <2>2. PICK m \in T : \A k \in T : m <= k
      BY <1>3, <2>1, Least
    <2>3. m \in 0 .. n /\ ~Runs(m) /\ \A k \in 0 .. n : ~Runs(k) => m <= k
      BY <2>2 DEF T
    <2> HIDE DEF Runs
    <2>4. m # 0
      BY <1>1, <2>3
    <2>5. m - 1 \in 0 .. n - 1 /\ m - 1 \in 0 .. n /\ ~(m <= m - 1) /\ (m - 1) + 1 = m
      BY <2>3, <2>4
    <2>6. Runs(m - 1)
      BY <2>3, <2>5
    <2>7. Runs((m - 1) + 1)
      BY <1>2, <2>5, <2>6
    <2> QED
      BY <2>3, <2>5, <2>7
  <1>4. n \in 0 .. n
    OBVIOUS
  <1> QED
    BY <1>3, <1>4

-----------------------------------------------------------------------------
(* Division with remainder, by any divisor. *)

LEMMA DivMod ==
    ASSUME NEW x \in Nat, NEW m \in Nat \ {0}
    PROVE  /\ x = (x \div m) * m + (x % m)
           /\ (x % m) \in 0 .. m - 1
           /\ x \div m \in Nat
  OBVIOUS

LEMMA DivUnique ==
    ASSUME NEW q \in Nat, NEW m \in Nat \ {0}, NEW r \in 0 .. m - 1, NEW x, x = q * m + r
    PROVE  x \div m = q /\ (x % m) = r /\ x \in Nat
  OBVIOUS

\* Dividing by a product is dividing twice.
LEMMA DivDiv ==
    ASSUME NEW q \in Nat, NEW m \in Nat \ {0}, NEW k \in Nat \ {0}, NEW r \in 0 .. m - 1,
           NEW x, x = q * m + r
    PROVE  x \div (k * m) = q \div k
  <1> DEFINE s == q \div k
             u == q % k
  <1>1. q = s * k + u /\ u \in 0 .. k - 1 /\ s \in Nat
    BY DivMod
  <1>2. k * m \in Nat \ {0}
    OBVIOUS
  <1>3. u * m + r \in 0 .. k * m - 1
    <2> HIDE DEF s, u
    <2>1. u * m \in Nat /\ u * m + r \in Nat
      BY <1>1
    <2>2. (u + 1) * m <= k * m
      BY <1>1
    <2>3. (u + 1) * m = u * m + m
      BY <1>1
    <2> QED
      BY <1>2, <2>1, <2>2, <2>3
  <1>4. x = s * (k * m) + (u * m + r)
    <2> HIDE DEF s, u
    <2>1. q * m = (s * k) * m + u * m
      BY <1>1
    <2>2. (s * k) * m = s * (k * m)
      BY <1>1
    <2>3. (s * k) * m \in Nat /\ u * m \in Nat
      BY <1>1
    <2> QED
      BY <2>1, <2>2, <2>3
  <1> HIDE DEF s, u
  <1>5. x \div (k * m) = s
    BY <1>1, <1>2, <1>3, <1>4, DivUnique
  <1> QED
    BY <1>5 DEF s

LEMMA Parity ==
    ASSUME NEW q \in Nat, NEW k \in Nat
    PROVE  /\ ((q + 2 * k) % 2) = (q % 2)
           /\ ((2 * k) % 2) = 0
           /\ ((2 * k + 1) % 2) = 1
           /\ (q % 2) \in {0, 1}
  OBVIOUS

-----------------------------------------------------------------------------
(* Powers of two and the bits of a word. *)

LEMMA Pow2Def ==
    /\ Pow2 \in [0 .. EntSize -> Nat]
    /\ \A b \in 0 .. EntSize : Pow2[b] = IF b = 0 THEN 1 ELSE 2 * Pow2[b - 1]
  <1> DEFINE J == Nat \X Nat
             F == [p \in J |-> 2 * p[1]]
             Eq(f) == f = [b \in 0 .. EntSize |-> IF b = 0 THEN 1 ELSE 2 * f[b - 1]]
  <1>1. EntSize \in Nat /\ <<1, 0>> \in J
    BY FragBitmapAssumption
  <1>2. PICK f : /\ f = [b \in 0 .. EntSize |-> f[b]]
                 /\ Follows(f, EntSize, 1, F)
                 /\ \A b \in 0 .. EntSize : <<f[b], b>> \in J
    <2>1. ASSUME NEW s, NEW b \in 0 .. EntSize - 1, <<s, b>> \in J
          PROVE  <<F[<<s, b>>], b + 1>> \in J
      <3>1. F[<<s, b>>] = 2 * s /\ s \in Nat /\ b \in Nat
        BY <2>1
      <3> QED
        BY <3>1
    <2> HIDE DEF F, J
    <2> QED
      BY <1>1, <2>1, LoopRuns
  <1>3. ASSUME NEW b \in 0 .. EntSize
        PROVE  f[b] = IF b = 0 THEN 1 ELSE 2 * f[b - 1]
    <2>1. CASE b = 0
      BY <1>2, <2>1 DEF Follows
    <2>2. CASE b # 0
      <3>1. b - 1 \in Nat /\ b - 1 \in 0 .. EntSize
        BY <1>1, <2>2
      <3>2. <<f[b - 1], b - 1>> \in J
        BY <1>2, <3>1
      <3>3. F[<<f[b - 1], b - 1>>] = 2 * f[b - 1]
        BY <3>2
      <3> QED
        BY <1>2, <2>2, <3>3 DEF Follows
    <2> QED
      BY <2>1, <2>2
  <1>4. Eq(f)
    BY <1>2, <1>3
  <1>5. Pow2 = CHOOSE g : Eq(g)
    BY DEF Pow2
  <1>6. Eq(Pow2)
    <2> HIDE DEF Eq
    <2> QED
      BY <1>4, <1>5
  <1> DEFINE T == {b \in 0 .. EntSize : Pow2[b] \notin Nat}
  <1>7. ASSUME T # {} PROVE FALSE
    <2>1. T \subseteq Nat
      OBVIOUS
    <2>2. PICK b \in T : \A c \in T : b <= c
      <3> HIDE DEF T
      <3> QED
        BY <1>7, <2>1, Least
    <2>3. b \in 0 .. EntSize /\ Pow2[b] \notin Nat
      OBVIOUS
    <2>4. Pow2[b] = IF b = 0 THEN 1 ELSE 2 * Pow2[b - 1]
      BY <1>6, <2>3
    <2>5. b # 0
      BY <2>3, <2>4
    <2>6. b - 1 \in 0 .. EntSize /\ ~(b <= b - 1)
      BY <1>1, <2>3, <2>5
    <2>7. Pow2[b - 1] \in Nat
      BY <2>2, <2>6
    <2> QED
      BY <2>3, <2>4, <2>5, <2>7
  <1> QED
    BY <1>6, <1>7

LEMMA Pow2Pos ==
    \A b \in 0 .. EntSize : Pow2[b] \in Nat \ {0}
  <1> DEFINE T == {b \in 0 .. EntSize : Pow2[b] = 0}
  <1>1. ASSUME T # {} PROVE FALSE
    <2>1. T \subseteq Nat
      OBVIOUS
    <2>2. PICK b \in T : \A c \in T : b <= c
      <3> HIDE DEF T
      <3> QED
        BY <1>1, <2>1, Least
    <2>3. b \in 0 .. EntSize /\ Pow2[b] = 0
      OBVIOUS
    <2>4. Pow2[b] = IF b = 0 THEN 1 ELSE 2 * Pow2[b - 1]
      BY <2>3, Pow2Def
    <2>5. b # 0 /\ b - 1 \in 0 .. EntSize /\ ~(b <= b - 1)
      BY <2>3, <2>4, FragBitmapAssumption
    <2>6. Pow2[b - 1] # 0 /\ Pow2[b - 1] \in Nat
      BY <2>2, <2>5, Pow2Def
    <2> QED
      BY <2>3, <2>4, <2>5, <2>6
  <1> QED
    BY <1>1, Pow2Def

\* Shifting by a and then by b is shifting by a + b.
LEMMA Pow2Add ==
    ASSUME NEW a \in Nat, NEW b \in Nat, a + b <= EntSize
    PROVE  Pow2[a + b] = Pow2[b] * Pow2[a]
  <1> DEFINE T == {c \in 0 .. b : Pow2[a + c] # Pow2[c] * Pow2[a]}
  <1>0. EntSize \in Nat
    BY FragBitmapAssumption
  <1>1. ASSUME T # {} PROVE FALSE
    <2>1. T \subseteq Nat
      OBVIOUS
    <2>2. PICK c \in T : \A d \in T : c <= d
      <3> HIDE DEF T
      <3> QED
        BY <1>1, <2>1, Least
    <2>3. c \in 0 .. b /\ Pow2[a + c] # Pow2[c] * Pow2[a]
      OBVIOUS
    <2>4. a \in 0 .. EntSize /\ c \in 0 .. EntSize /\ a + c \in 0 .. EntSize
      BY <1>0, <2>3
    <2>5. Pow2[a] \in Nat
      BY <2>4, Pow2Def
    <2>6. c # 0
      <3>1. CASE c = 0
        <4>1. a + c = a /\ Pow2[c] = 1
          BY <2>4, <3>1, Pow2Def
        <4> QED
          BY <2>3, <2>5, <4>1
      <3> QED
        BY <3>1
    <2>7. c - 1 \in 0 .. b /\ ~(c <= c - 1) /\ a + (c - 1) = (a + c) - 1 /\ a + c # 0
          /\ c - 1 \in 0 .. EntSize /\ (a + c) - 1 \in 0 .. EntSize
      BY <1>0, <2>3, <2>4, <2>6
    <2>8. Pow2[a + (c - 1)] = Pow2[c - 1] * Pow2[a]
      BY <2>2, <2>7
    <2>9. Pow2[c] = 2 * Pow2[c - 1] /\ Pow2[a + c] = 2 * Pow2[(a + c) - 1]
      BY <2>4, <2>6, <2>7, Pow2Def
    <2>10. Pow2[c - 1] \in Nat /\ Pow2[(a + c) - 1] \in Nat
      BY <2>7, Pow2Def
    <2> DEFINE x == Pow2[c - 1]
               y == Pow2[a]
    <2>11. Pow2[a + c] = 2 * (x * y) /\ Pow2[c] = 2 * x
      BY <2>7, <2>8, <2>9
    <2>12. x \in Nat /\ y \in Nat
      BY <2>5, <2>10
    <2>13. 2 * (x * y) = (2 * x) * y
      <3> HIDE DEF x, y
      <3> QED
        BY <2>12
    <2> QED
      BY <2>3, <2>11, <2>13
  <1>2. b \in 0 .. b
    OBVIOUS
  <1> QED
    BY <1>1, <1>2

LEMMA BitIs ==
    ASSUME NEW b \in 0 .. EntSize, NEW q \in Nat, NEW r \in 0 .. Pow2[b] - 1,
           NEW w, w = q * Pow2[b] + r
    PROVE  Bit(w, b) = q % 2
  <1> DEFINE m == Pow2[b]
  <1>1. m \in Nat \ {0}
    BY Pow2Pos
  <1>2. w \div m = q
    <2> HIDE DEF m
    <2>1. r \in 0 .. m - 1 /\ w = q * m + r
      BY DEF m
    <2> QED
      BY <1>1, <2>1, DivUnique
  <1> QED
    BY <1>2 DEF Bit

LEMMA BitIsBinary ==
    ASSUME NEW b \in 0 .. EntSize, NEW w \in Nat
    PROVE  Bit(w, b) \in {0, 1}
  <1> DEFINE m == Pow2[b]
  <1>1. m \in Nat \ {0}
    BY Pow2Pos
  <1>2. w \div m \in Nat
    <2> HIDE DEF m
    <2> QED
      BY <1>1, DivMod
  <1> HIDE DEF m
  <1>3. ((w \div m) % 2) \in {0, 1}
    BY <1>2, Parity
  <1> QED
    BY <1>3 DEF m, Bit

\* Adding the power of a clear bit sets this bit and no other.
LEMMA AddBit ==
    ASSUME NEW b \in 0 .. EntSize - 1, NEW w \in 0 .. Modulus - 1, Bit(w, b) = 0
    PROVE  /\ w + Pow2[b] \in 0 .. Modulus - 1
           /\ \A c \in 0 .. EntSize - 1 : Bit(w + Pow2[b], c) = IF c = b THEN 1 ELSE Bit(w, c)
  <1> DEFINE B == Pow2[b]
             q == w \div B
             r == w % B
             h == q \div 2
             v == w + B
  <1>0. EntSize \in Nat /\ b \in 0 .. EntSize /\ b + 1 \in 0 .. EntSize /\ b \in Nat
    BY FragBitmapAssumption
  <1>1. B \in Nat \ {0}
    BY <1>0, Pow2Pos
  <1>2. w \in Nat /\ Modulus \in Nat \ {0}
    <2>1. EntSize \in 0 .. EntSize
      BY <1>0
    <2> QED
      BY <2>1, Pow2Pos DEF Modulus
  <1>3. w = q * B + r /\ r \in 0 .. B - 1 /\ q \in Nat
    <2> HIDE DEF B
    <2> QED
      BY <1>1, <1>2, DivMod
  <1>4. (q % 2) = 0
    BY DEF Bit
  <1>5. q = h * 2 /\ h \in Nat
    <2> HIDE DEF q
    <2>1. q = (q \div 2) * 2 + (q % 2) /\ q \div 2 \in Nat
      BY <1>3, DivMod
    <2> QED
      BY <1>4, <2>1
  <1>6. Pow2[b + 1] = 2 * B
    <2>1. b + 1 # 0 /\ (b + 1) - 1 = b
      BY <1>0
    <2> QED
      BY <1>0, <2>1, Pow2Def
  <1>7. v \in Nat /\ v = (q + 1) * B + r
    <2> HIDE DEF B, q, r
    <2> QED
      BY <1>1, <1>2, <1>3
  <1> DEFINE D == 2 * B
  <1>8. D \in Nat \ {0} /\ w = h * D + r /\ v = h * D + (r + B)
        /\ r \in 0 .. D - 1 /\ r + B \in 0 .. D - 1
    <2> HIDE DEF B, q, r, h
    <2>1. q * B = h * (2 * B)
      BY <1>1, <1>3, <1>5
    <2>2. q * B \in Nat /\ h * (2 * B) \in Nat
      BY <1>1, <1>3, <1>5
    <2> QED
      BY <1>1, <1>2, <1>3, <2>1, <2>2
  <1>9. v \in 0 .. Modulus - 1
    <2> DEFINE k == EntSize - (b + 1)
    <2>1. k \in Nat /\ b + 1 \in Nat /\ (b + 1) + k = EntSize /\ k \in 0 .. EntSize
      BY <1>0
    <2> DEFINE K == Pow2[k]
    <2>2. Modulus = K * D
      <3>1. Pow2[(b + 1) + k] = Pow2[k] * Pow2[b + 1]
        <4> HIDE DEF k
        <4> QED
          BY <1>0, <2>1, Pow2Add
      <3> QED
        BY <1>6, <2>1, <3>1 DEF Modulus
    <2>3. K \in Nat \ {0}
      BY <2>1, Pow2Pos
    <2> HIDE DEF K, D, v, h, r, B
    <2>4. h * D <= w /\ w < K * D
      <3>1. h * D \in Nat /\ r \in Nat
        BY <1>5, <1>8
      <3> QED
        BY <1>2, <1>8, <2>2, <3>1
    <2>5. h < K
      <3>1. CASE K <= h
        <4>1. K * D <= h * D
          BY <1>5, <1>8, <2>3, <3>1
        <4>2. K * D \in Nat /\ h * D \in Nat
          BY <1>5, <1>8, <2>3
        <4> QED
          BY <1>2, <2>4, <4>1, <4>2
      <3> QED
        BY <1>5, <2>3, <3>1
    <2>6. h * D + D <= K * D
      BY <1>5, <1>8, <2>3, <2>5
    <2>7. h * D \in Nat /\ K * D \in Nat
      BY <1>5, <1>8, <2>3
    <2> QED
      BY <1>7, <1>8, <2>2, <2>6, <2>7
  <1>10. ASSUME NEW c \in 0 .. EntSize - 1
         PROVE  Bit(v, c) = IF c = b THEN 1 ELSE Bit(w, c)
    <2>0. c \in 0 .. EntSize /\ c \in Nat
      BY <1>0
    <2>1. CASE c = b
      <3>1. Bit(v, b) = (q + 1) % 2
        <4> HIDE DEF q, r, v
        <4>1. q + 1 \in Nat /\ r \in 0 .. Pow2[b] - 1 /\ v = (q + 1) * Pow2[b] + r
          BY <1>3, <1>7
        <4> QED
          BY <1>0, <4>1, BitIs
      <3>2. ((q + 1) % 2) = 1
        <4> HIDE DEF q, h
        <4> QED
          BY <1>5
      <3> QED
        BY <2>1, <3>1, <3>2
    <2>2. CASE c < b
      <3> DEFINE k == b - c
                 C == Pow2[c]
                 K == Pow2[k - 1]
                 x == w \div C
                 y == w % C
      <3>1. k \in Nat /\ c + k = b /\ k # 0 /\ k \in 0 .. EntSize /\ k - 1 \in 0 .. EntSize
        BY <1>0, <2>0, <2>2
      <3>2. B = Pow2[k] * C
        <4>1. c + k <= EntSize
          BY <1>0, <3>1
        <4>2. Pow2[c + k] = Pow2[k] * Pow2[c]
          <5> HIDE DEF k
          <5> QED
            BY <2>0, <3>1, <4>1, Pow2Add
        <4> QED
          BY <3>1, <4>2
      <3>3. Pow2[k] = 2 * K
        BY <3>1, Pow2Def
      <3>4. K \in Nat \ {0} /\ C \in Nat \ {0}
        BY <2>0, <3>1, Pow2Pos
      <3>5. w = x * C + y /\ y \in 0 .. C - 1 /\ x \in Nat
        <4> HIDE DEF C
        <4> QED
          BY <1>2, <3>4, DivMod
      <3>6. v = (x + 2 * K) * C + y
        <4>1. v = w + (2 * K) * C
          BY <3>2, <3>3
        <4> HIDE DEF v, C, K, x, y
        <4>2. (x + 2 * K) * C = x * C + (2 * K) * C
          BY <3>4, <3>5
        <4>3. x * C \in Nat /\ (2 * K) * C \in Nat
          BY <3>4, <3>5
        <4> QED
          BY <1>2, <3>5, <4>1, <4>2, <4>3
      <3>7. Bit(w, c) = x % 2
        <4> HIDE DEF x, y
        <4> QED
          BY <2>0, <3>5, BitIs
      <3>8. Bit(v, c) = (x + 2 * K) % 2
        <4> HIDE DEF x, y, K, v
        <4>1. x + 2 * K \in Nat
          BY <3>4, <3>5
        <4> QED
          BY <2>0, <3>5, <3>6, <4>1, BitIs
      <3>9. ((x + 2 * K) % 2) = (x % 2)
        <4> HIDE DEF x, K
        <4> QED
          BY <3>4, <3>5, Parity
      <3> QED
        BY <2>2, <3>7, <3>8, <3>9
    <2>3. CASE c > b
      <3> DEFINE k == c - (b + 1)
                 K == Pow2[k]
      <3>1. k \in Nat /\ b + 1 \in Nat /\ (b + 1) + k = c /\ k \in 0 .. EntSize /\ (b + 1) + k <= EntSize
        BY <1>0, <2>0, <2>3
      <3>2. Pow2[c] = K * D
        <4>1. Pow2[(b + 1) + k] = Pow2[k] * Pow2[b + 1]
          <5> HIDE DEF k
          <5> QED
            BY <1>0, <3>1, Pow2Add
        <4> QED
          BY <1>6, <3>1, <4>1
      <3>3. K \in Nat \ {0}
        BY <3>1, Pow2Pos
      <3>4. w \div (K * D) = h \div K /\ v \div (K * D) = h \div K
        <4> DEFINE e == r + B
        <4> HIDE DEF K, D, h, r, v, e
        <4>1. e \in 0 .. D - 1 /\ v = h * D + e
          BY <1>8 DEF e
        <4>2. h \in Nat /\ D \in Nat \ {0} /\ r \in 0 .. D - 1 /\ w = h * D + r
          BY <1>5, <1>8
        <4>3. w \div (K * D) = h \div K
          <5>1. \A z : z = h * D + r => z \div (K * D) = h \div K
            BY ONLY <3>3, <4>2, DivDiv
          <5> QED
            BY ONLY <4>2, <5>1
        <4>4. v \div (K * D) = h \div K
          BY ONLY <3>3, <4>1, <4>2, DivDiv
        <4> QED
          BY <4>3, <4>4
      <3>5. Bit(v, c) = Bit(w, c)
        BY <3>2, <3>4 DEF Bit
      <3> QED
        BY <2>3, <3>5
    <2> QED
      BY <1>0, <2>0, <2>1, <2>2, <2>3
  <1> QED
    BY <1>9, <1>10

\* A word with one bit, or with none.
LEMMA OneBit ==
    /\ \A c \in 0 .. EntSize - 1 : Bit(0, c) = 0
    /\ \A b \in 0 .. EntSize - 1 : \A c \in 0 .. EntSize - 1 : Bit(Pow2[b], c) = IF c = b THEN 1 ELSE 0
  <1>1. ASSUME NEW c \in 0 .. EntSize - 1 PROVE Bit(0, c) = 0
    <2>1. c \in 0 .. EntSize /\ 0 \in Nat
      BY FragBitmapAssumption
    <2>2. Pow2[c] \in Nat \ {0}
      BY <2>1, Pow2Pos
    <2>3. 0 \in 0 .. Pow2[c] - 1 /\ 0 = 0 * Pow2[c] + 0
      BY <2>2
    <2>4. Bit(0, c) = 0 % 2
      BY <2>1, <2>3, BitIs
    <2> QED
      BY <2>4
  <1>2. ASSUME NEW b \in 0 .. EntSize - 1 
        PROVE  \A c \in 0 .. EntSize - 1 : Bit(Pow2[b], c) = IF c = b THEN 1 ELSE 0
    <2>1. Modulus \in Nat \ {0} /\ Pow2[b] \in Nat
      <3>1. EntSize \in 0 .. EntSize /\ b \in 0 .. EntSize
        BY FragBitmapAssumption
      <3> QED
        BY <3>1, Pow2Pos DEF Modulus
    <2>2. 0 \in 0 .. Modulus - 1 /\ 0 + Pow2[b] = Pow2[b]
      BY <2>1
    <2>3. \A c \in 0 .. EntSize - 1 : Bit(0 + Pow2[b], c) = IF c = b THEN 1 ELSE Bit(0, c)
      BY <1>1, <2>2, AddBit
    <2> QED
      BY <1>1, <2>2, <2>3
  <1> QED
    BY <1>1, <1>2

LEMMA Pow2Monotone ==
    ASSUME NEW a \in 0 .. EntSize, NEW b \in a .. EntSize
    PROVE  Pow2[a] <= Pow2[b]
  <1> DEFINE k == b - a
             x == Pow2[a]
             y == Pow2[k]
  <1>1. a \in Nat /\ k \in Nat /\ a + k = b /\ a + k <= EntSize /\ k \in 0 .. EntSize
    BY FragBitmapAssumption
  <1>2. Pow2[a + k] = y * x
    <2> HIDE DEF k
    <2> QED
      BY <1>1, Pow2Add
  <1>3. x \in Nat \ {0} /\ y \in Nat \ {0}
    BY <1>1, Pow2Pos
  <1>4. x <= y * x
    <2> HIDE DEF x, y
    <2> QED
      BY <1>3
  <1> QED
    BY <1>1, <1>2, <1>4

\* p bits from bit o on.
LEMMA RunOfBits ==
    ASSUME NEW o \in 0 .. EntSize - 1, NEW p \in 0 .. EntSize - o
    PROVE  /\ (Pow2[p] - 1) * Pow2[o] \in 0 .. Modulus - 1
           /\ \A c \in 0 .. EntSize - 1 :
                 Bit((Pow2[p] - 1) * Pow2[o], c) = IF o <= c /\ c < o + p THEN 1 ELSE 0
  <1> DEFINE P == Pow2[p]
             O == Pow2[o]
             x == (P - 1) * O
  <1>0. EntSize \in Nat /\ o \in 0 .. EntSize /\ p \in 0 .. EntSize /\ o \in Nat /\ p \in Nat
        /\ o + p \in 0 .. EntSize /\ o + p <= EntSize /\ EntSize \in o + p .. EntSize
    BY FragBitmapAssumption
  <1>1. P \in Nat \ {0} /\ O \in Nat \ {0}
    BY <1>0, Pow2Pos
  <1>2. Pow2[o + p] = P * O
    BY <1>0, Pow2Add
  <1>3. x \in Nat /\ x < Pow2[o + p]
    <2>1. x = P * O - O /\ P * O \in Nat /\ O <= P * O
      <3> HIDE DEF P, O
      <3> QED
        BY <1>1
    <2> HIDE DEF P, O, x
    <2> QED
      BY <1>1, <1>2, <2>1
  <1>4. x \in 0 .. Modulus - 1
    <2>1. Pow2[o + p] <= Modulus
      BY <1>0, Pow2Monotone DEF Modulus
    <2>2. Modulus \in Nat /\ Pow2[o + p] \in Nat
      <3>1. EntSize \in 0 .. EntSize
        BY <1>0
      <3> QED
        BY <1>0, <3>1, Pow2Pos DEF Modulus
    <2> HIDE DEF x
    <2> QED
      BY <1>3, <2>1, <2>2
  <1>5. ASSUME NEW c \in 0 .. EntSize - 1
        PROVE  Bit(x, c) = IF o <= c /\ c < o + p THEN 1 ELSE 0
    <2> DEFINE C == Pow2[c]
    <2>0. c \in 0 .. EntSize /\ c \in Nat
      BY <1>0
    <2>1. C \in Nat \ {0}
      BY <2>0, Pow2Pos
    <2>2. CASE c < o
      <3> DEFINE k == o - c
                 K == Pow2[k - 1]
                 q == 2 * ((P - 1) * K)
      <3>1. k \in Nat /\ c + k = o /\ c + k <= EntSize /\ k # 0 /\ k \in 0 .. EntSize /\ k - 1 \in 0 .. EntSize
        BY <1>0, <2>0, <2>2
      <3>2. Pow2[c + k] = Pow2[k] * C
        <4> HIDE DEF k
        <4> QED
          BY <2>0, <3>1, Pow2Add
      <3>3. Pow2[k] = 2 * K /\ K \in Nat
        BY <3>1, Pow2Def
      <3>4. O = (2 * K) * C
        BY <3>1, <3>2, <3>3
      <3>5. (P - 1) * K \in Nat
        <4> HIDE DEF P, K
        <4> QED
          BY <1>1, <3>3
      <3>6. x = q * C
        <4> DEFINE e == P - 1
        <4>1. e \in Nat
          BY <1>1
        <4>2. x = e * ((2 * K) * C) /\ q = 2 * (e * K)
          BY <3>4
        <4> HIDE DEF e, K, C
        <4>3. e * ((2 * K) * C) = (2 * (e * K)) * C
          <5>1. e * ((2 * K) * C) = (e * (2 * K)) * C
            BY <2>1, <3>3, <4>1
          <5>2. e * (2 * K) = 2 * (e * K)
            BY <3>3, <4>1
          <5> QED
            BY <5>1, <5>2
        <4> QED
          BY <4>2, <4>3
      <3>7. q \in Nat /\ (q % 2) = 0
        <4> DEFINE e == (P - 1) * K
        <4> HIDE DEF e
        <4>1. e \in Nat
          BY <3>5 DEF e
        <4>2. 2 * e \in Nat /\ ((2 * e) % 2) = 0
          BY <4>1, Parity
        <4> QED
          BY <4>2 DEF e
      <3>8. 0 \in 0 .. Pow2[c] - 1 /\ x = q * Pow2[c] + 0
        <4> HIDE DEF q, x
        <4>1. q * C \in Nat
          <5> HIDE DEF C
          <5> QED
            BY <2>1, <3>7
        <4> QED
          BY <2>1, <3>6, <4>1
      <3>9. Bit(x, c) = q % 2
        <4> HIDE DEF q, x
        <4> QED
          BY <2>0, <3>7, <3>8, BitIs
      <3>10. ~(o <= c)
        BY <1>0, <2>0, <2>2
      <3> QED
        BY <3>7, <3>9, <3>10
    <2>3. CASE o <= c /\ c < o + p
      <3> DEFINE k == c - o
                 G == Pow2[k]
                 d == p - k
                 K == Pow2[d - 1]
                 q == 2 * (K - 1) + 1
                 r == (G - 1) * O
      <3>1. k \in Nat /\ o + k = c /\ o + k <= EntSize /\ k \in 0 .. EntSize
            /\ d \in Nat /\ k + d = p /\ k + d <= EntSize /\ d # 0 /\ d \in 0 .. EntSize /\ d - 1 \in 0 .. EntSize
        BY <1>0, <2>0, <2>3
      <3>2. C = G * O
        <4>1. Pow2[o + k] = Pow2[k] * Pow2[o]
          <5> HIDE DEF k
          <5> QED
            BY <1>0, <3>1, Pow2Add
        <4> QED
          BY <3>1, <4>1
      <3>3. P = Pow2[d] * G
        <4>1. Pow2[k + d] = Pow2[d] * Pow2[k]
          <5> HIDE DEF k, d
          <5> QED
            BY <3>1, Pow2Add
        <4> QED
          BY <3>1, <4>1
      <3>4. Pow2[d] = 2 * K
        BY <3>1, Pow2Def
      <3>5. K \in Nat \ {0} /\ G \in Nat \ {0}
        BY <3>1, Pow2Pos
      <3>6. x = q * C + r
        <4>1. x = ((2 * K) * G - 1) * O /\ C = G * O
          BY <3>2, <3>3, <3>4
        <4> HIDE DEF x, K, G, O, C, r
        <4>2. r = (G - 1) * O /\ q = 2 * K - 1
          BY <3>5 DEF r
        <4>3. ((2 * K) * G - 1) * O = ((2 * K) * G) * O - O
          BY <1>1, <3>5
        <4>4. (G - 1) * O = G * O - O
          BY <1>1, <3>5
        <4>5. (2 * K - 1) * (G * O) = (2 * K) * (G * O) - G * O
          BY <1>1, <3>5
        <4>6. ((2 * K) * G) * O = (2 * K) * (G * O)
          BY <1>1, <3>5
        <4>7. ((2 * K) * G) * O \in Nat /\ G * O \in Nat
          BY <1>1, <3>5
        <4> HIDE DEF q
        <4> QED
          BY <1>1, <4>1, <4>2, <4>3, <4>4, <4>5, <4>6, <4>7
      <3>7. q \in Nat /\ (q % 2) = 1
        <4> HIDE DEF K
        <4>1. K - 1 \in Nat
          BY <3>5
        <4> QED
          BY <4>1, Parity
      <3>8. r \in 0 .. C - 1
        <4>1. C = G * O /\ r = (G - 1) * O
          BY <3>2
        <4> HIDE DEF C, G, O, r
        <4>2. (G - 1) * O = G * O - O /\ (G - 1) * O \in Nat
          BY <1>1, <3>5
        <4> QED
          BY <1>1, <2>1, <4>1, <4>2
      <3>9. Bit(x, c) = q % 2
        <4> HIDE DEF q, x, r
        <4> QED
          BY <2>0, <3>6, <3>7, <3>8, BitIs
      <3> QED
        BY <2>3, <3>7, <3>9
    <2>4. CASE o + p <= c
      <3>1. Pow2[o + p] <= C
        <4>1. c \in o + p .. EntSize
          BY <1>0, <2>0, <2>4
        <4> QED
          BY <1>0, <4>1, Pow2Monotone
      <3>2. x \in 0 .. Pow2[c] - 1 /\ x = 0 * Pow2[c] + x
        <4>1. Pow2[o + p] \in Nat
          BY <1>0, Pow2Pos
        <4> HIDE DEF x
        <4> QED
          BY <1>3, <2>1, <3>1, <4>1
      <3>3. Bit(x, c) = 0 % 2
        <4> HIDE DEF x
        <4>1. 0 \in Nat
          OBVIOUS
        <4> QED
          BY <2>0, <3>2, <4>1, BitIs
      <3>4. ~(c < o + p)
        BY <1>0, <2>0, <2>4
      <3> QED
        BY <3>3, <3>4
    <2>5. c < o \/ (o <= c /\ c < o + p) \/ o + p <= c
      BY <1>0, <2>0
    <2> QED
      BY <2>2, <2>3, <2>4, <2>5
  <1> QED
    BY <1>4, <1>5

\* The mask of _check_bitmap covers the pages asked for that are in the word.
LEMMA MaskBits ==
    ASSUME NEW offset \in 0 .. EntSize - 1, NEW pgcnt \in Nat \ {0}
    PROVE  \A c \in 0 .. EntSize - 1 :
             Bit(Mask(offset, pgcnt), c) = IF offset <= c /\ c < offset + pgcnt THEN 1 ELSE 0
  <1> DEFINE O == Pow2[offset]
  <1>0. EntSize \in Nat /\ EntSize \in 0 .. EntSize /\ offset \in 0 .. EntSize /\ offset \in Nat
    BY FragBitmapAssumption
  <1>1. Modulus \in Nat \ {0} /\ O \in Nat \ {0}
    BY <1>0, Pow2Pos DEF Modulus
  <1>2. CASE pgcnt < EntSize - offset
    <2> DEFINE n == EntSize - pgcnt
               P == Pow2[pgcnt]
               Q == Pow2[n]
               x == (P - 1) * O
    <2>1. pgcnt \in 0 .. EntSize /\ pgcnt \in 0 .. EntSize - offset /\ n \in 0 .. EntSize /\ n \in Nat
          /\ n + pgcnt = EntSize /\ n + pgcnt <= EntSize /\ pgcnt \in Nat
      BY <1>0, <1>2
    <2>2. Modulus = P * Q
      <3>1. Pow2[n + pgcnt] = Pow2[pgcnt] * Pow2[n]
        <4> HIDE DEF n
        <4> QED
          BY <2>1, Pow2Add
      <3> QED
        BY <2>1, <3>1 DEF Modulus
    <2>3. P \in Nat \ {0} /\ Q \in Nat \ {0}
      BY <2>1, Pow2Pos
    <2>4. (Modulus - 1) \div Q = P - 1
      <3> HIDE DEF P, Q
      <3>1. (P - 1) * Q = P * Q - Q /\ P * Q \in Nat
        BY <2>3
      <3>2. Modulus - 1 = (P - 1) * Q + (Q - 1) /\ Q - 1 \in 0 .. Q - 1 /\ P - 1 \in Nat
        BY <2>2, <2>3, <3>1
      <3> QED
        <4> DEFINE q == P - 1
                   r == Q - 1
        <4> HIDE DEF q, r
        <4>1. q \in Nat /\ r \in 0 .. Q - 1 /\ Modulus - 1 = q * Q + r
          BY <3>2 DEF q, r
        <4>2. \A z : z = q * Q + r => z \div Q = q
          BY ONLY <2>3, <4>1, DivUnique
        <4> QED
          BY <4>1, <4>2 DEF q
    <2>5. Mask(offset, pgcnt) = x % Modulus
      BY <1>2, <2>4 DEF Mask
    <2>6. x \in 0 .. Modulus - 1
      BY <2>1, RunOfBits
    <2>7. (x % Modulus) = x
      <3> HIDE DEF x
      <3> QED
        BY <1>1, <2>6
    <2>8. \A c \in 0 .. EntSize - 1 : Bit(x, c) = IF offset <= c /\ c < offset + pgcnt THEN 1 ELSE 0
      BY <2>1, RunOfBits
    <2> QED
      BY <2>5, <2>7, <2>8
  <1>3. CASE ~(pgcnt < EntSize - offset)
    <2> DEFINE p == EntSize - offset
               P == Pow2[p]
               x == (P - 1) * O
    <2>1. p \in 0 .. EntSize /\ p \in 0 .. EntSize - offset /\ p \in Nat /\ offset + p = EntSize
          /\ offset + p <= EntSize
      BY <1>0
    <2>2. Modulus = P * O
      <3>1. Pow2[offset + p] = Pow2[p] * Pow2[offset]
        <4> HIDE DEF p
        <4> QED
          BY <1>0, <2>1, Pow2Add
      <3> QED
        BY <2>1, <3>1 DEF Modulus
    <2>3. P \in Nat \ {0}
      BY <2>1, Pow2Pos
    <2>4. x \in 0 .. Modulus - 1
      BY <2>1, RunOfBits
    <2>5. (((Modulus - 1) * O) % Modulus) = x
      <3>1. x = P * O - O
        <4> HIDE DEF P, O
        <4>1. (P - 1) * O = P * O - O
          BY <1>1, <2>3
        <4> QED
          BY <4>1
      <3> HIDE DEF x, P, O
      <3>2. (Modulus - 1) * O = O * Modulus - O /\ (O - 1) * Modulus = O * Modulus - Modulus
            /\ O * Modulus \in Nat
        BY <1>1
      <3>3. x = Modulus - O
        BY <2>2, <3>1
      <3>4. (Modulus - 1) * O = (O - 1) * Modulus + x /\ O - 1 \in Nat
        BY <1>1, <3>2, <3>3
      <3> QED
        BY <1>1, <2>4, <3>4, DivUnique
    <2>6. Mask(offset, pgcnt) = x
      BY <1>3, <2>5 DEF Mask
    <2>7. \A c \in 0 .. EntSize - 1 : Bit(x, c) = IF offset <= c /\ c < offset + p THEN 1 ELSE 0
      <3> HIDE DEF p
      <3> QED
        BY <2>1, RunOfBits
    <2>8. \A c \in 0 .. EntSize - 1 : c < offset + p /\ c < offset + pgcnt
      BY <1>0, <1>3, <2>1
    <2> QED
      BY <2>6, <2>7, <2>8
  <1> QED
    BY <1>2, <1>3

-----------------------------------------------------------------------------
(* The bitmap as a set of pages. *)

Words == [WordIdx -> 0 .. Modulus - 1]
Marked(w) == {pg \in Page : Bit(w[pg \div EntSize], pg % EntSize) = 1}
Run(pgnum, n) == pgnum .. pgnum + n - 1

\* Where the bit of a page is.
LEMMA PageBit ==
    ASSUME NEW pg \in Page
    PROVE  /\ pg \div EntSize \in WordIdx /\ (pg % EntSize) \in 0 .. EntSize - 1
           /\ pg \in Nat /\ pg \div EntSize \in Nat
           /\ pg = (pg \div EntSize) * EntSize + (pg % EntSize)
  <1> DEFINE q == pg \div EntSize
             r == pg % EntSize
             s == PagePerFrag + EntSize - 1
             t == s \div EntSize
  <1>1. EntSize \in Nat \ {0} /\ PagePerFrag \in Nat \ {0} /\ pg \in Nat /\ pg < PagePerFrag /\ s \in Nat
    BY FragBitmapAssumption DEF Page
  <1>2. pg = q * EntSize + r /\ r \in 0 .. EntSize - 1 /\ q \in Nat
    BY <1>1, DivMod
  <1>3. s = t * EntSize + (s % EntSize) /\ (s % EntSize) \in 0 .. EntSize - 1 /\ t \in Nat
    <2> HIDE DEF s
    <2> QED
      BY <1>1, DivMod
  <1>4. q < t
    <2> DEFINE u == s % EntSize
    <2>1. s = t * EntSize + u /\ u \in 0 .. EntSize - 1
      BY <1>3
    <2>2. s = PagePerFrag + EntSize - 1
      OBVIOUS
    <2> HIDE DEF q, r, s, t, u
    <2>3. CASE t <= q
      <3>1. t * EntSize <= q * EntSize
        BY <1>1, <1>2, <1>3, <2>3
      <3>2. t * EntSize \in Nat /\ q * EntSize \in Nat
        BY <1>1, <1>2, <1>3
      <3> QED
        BY <1>1, <1>2, <2>1, <2>2, <3>1, <3>2
    <2> QED
      BY <1>2, <1>3, <2>3
  <1>5. q \in 0 .. t - 1
    <2> HIDE DEF q, t
    <2> QED
      BY <1>2, <1>3, <1>4
  <1> QED
    BY <1>1, <1>2, <1>5 DEF WordIdx, NrWord

\* No two pages share a bit.
LEMMA PageBitUnique ==
    ASSUME NEW pg \in Page, NEW pg2 \in Page,
           pg \div EntSize = pg2 \div EntSize, (pg % EntSize) = (pg2 % EntSize)
    PROVE  pg = pg2
  BY PageBit

LEMMA BitOfPage ==
    ASSUME NEW i \in Nat, NEW b \in 0 .. EntSize - 1
    PROVE  (i * EntSize + b) \div EntSize = i /\ ((i * EntSize + b) % EntSize) = b
  <1>1. EntSize \in Nat \ {0}
    BY FragBitmapAssumption
  <1> QED
    BY <1>1, DivUnique

LEMMA NextPageBit ==
    ASSUME NEW pg \in Nat
    PROVE  IF (pg % EntSize) + 1 = EntSize
           THEN (pg + 1) \div EntSize = (pg \div EntSize) + 1 /\ ((pg + 1) % EntSize) = 0
           ELSE (pg + 1) \div EntSize = pg \div EntSize /\ ((pg + 1) % EntSize) = (pg % EntSize) + 1
  <1> DEFINE q == pg \div EntSize
             r == pg % EntSize
  <1>1. EntSize \in Nat \ {0}
    BY FragBitmapAssumption
  <1>2. pg = q * EntSize + r /\ r \in 0 .. EntSize - 1 /\ q \in Nat
    BY <1>1, DivMod
  <1> HIDE DEF q, r
  <1>3. CASE r + 1 = EntSize
    <2>1. pg + 1 = (q + 1) * EntSize + 0 /\ 0 \in 0 .. EntSize - 1 /\ q + 1 \in Nat
      <3>1. (q + 1) * EntSize = q * EntSize + EntSize /\ q * EntSize \in Nat
        BY <1>1, <1>2
      <3> QED
        BY <1>1, <1>2, <1>3, <3>1
    <2>2. \A z : z = (q + 1) * EntSize + 0 => z \div EntSize = q + 1 /\ (z % EntSize) = 0
      BY <1>1, <2>1, DivUnique
    <2>3. (pg + 1) \div EntSize = q + 1 /\ ((pg + 1) % EntSize) = 0
      BY ONLY <2>1, <2>2
    <2> QED
      BY <1>3, <2>3 DEF q, r
  <1>4. CASE r + 1 # EntSize
    <2>1. pg + 1 = q * EntSize + (r + 1) /\ r + 1 \in 0 .. EntSize - 1
      <3>1. q * EntSize \in Nat
        BY <1>1, <1>2
      <3> QED
        BY <1>1, <1>2, <1>4, <3>1
    <2> DEFINE e == r + 1
    <2>2. \A z : z = q * EntSize + e => z \div EntSize = q /\ (z % EntSize) = e
      <3> HIDE DEF e
      <3>1. e \in 0 .. EntSize - 1
        BY <2>1 DEF e
      <3> QED
        BY ONLY <1>1, <1>2, <3>1, DivUnique
    <2>3. (pg + 1) \div EntSize = q /\ ((pg + 1) % EntSize) = r + 1
      BY ONLY <2>1, <2>2
    <2> QED
      BY <1>4, <2>3 DEF q, r
  <1> QED
    BY <1>3, <1>4

LEMMA MeetsBit ==
    ASSUME NEW w, NEW b \in 0 .. EntSize - 1
    PROVE  Meets(w, Pow2[b]) <=> Bit(w, b) = 1
  BY OneBit DEF Meets

\* Setting the bit of one page marks this page and no other.
LEMMA MarkPage ==
    ASSUME NEW w \in Words, NEW pg \in Page, pg \notin Marked(w)
    PROVE  LET v == [w EXCEPT ![pg \div EntSize] = @ + Pow2[pg % EntSize]]
           IN  v \in Words /\ Marked(v) = Marked(w) \cup {pg}
  <1> DEFINE i == pg \div EntSize
             b == pg % EntSize
             v == [w EXCEPT ![i] = @ + Pow2[b]]
  <1>1. i \in WordIdx /\ b \in 0 .. EntSize - 1 /\ b \in 0 .. EntSize
    BY PageBit, FragBitmapAssumption
  <1>2. w[i] \in 0 .. Modulus - 1
    BY <1>1 DEF Words
  <1>3. Bit(w[i], b) = 0
    <2>1. w[i] \in Nat
      BY <1>2
    <2>2. Bit(w[i], b) \in {0, 1}
      <3> HIDE DEF i, b
      <3> QED
        BY <1>1, <2>1, BitIsBinary
    <2> QED
      BY <2>2 DEF Marked
  <1>4. /\ w[i] + Pow2[b] \in 0 .. Modulus - 1
        /\ \A c \in 0 .. EntSize - 1 : Bit(w[i] + Pow2[b], c) = IF c = b THEN 1 ELSE Bit(w[i], c)
    <2> HIDE DEF i, b
    <2> QED
      BY <1>1, <1>2, <1>3, AddBit
  <1>5. v \in Words
    BY <1>1, <1>4 DEF Words
  <1>6. ASSUME NEW x \in Page
        PROVE  x \in Marked(v) <=> x \in Marked(w) \/ x = pg
    <2> DEFINE j == x \div EntSize
               c == x % EntSize
    <2>1. j \in WordIdx /\ c \in 0 .. EntSize - 1
      BY PageBit
    <2>2. CASE j # i
      <3>1. v[j] = w[j]
        <4> HIDE DEF i, b, j
        <4> QED
          BY <2>1, <2>2 DEF Words
      <3> QED
        BY <2>2, <3>1 DEF Marked
    <2>3. CASE j = i
      <3>1. v[j] = w[i] + Pow2[b]
        <4> HIDE DEF i, b, j
        <4> QED
          BY <1>1, <2>3 DEF Words
      <3>2. Bit(v[j], c) = IF c = b THEN 1 ELSE Bit(w[i], c)
        <4> HIDE DEF c, b, j, i, v
        <4> QED
          BY <1>4, <2>1, <3>1
      <3>3. c = b <=> x = pg
        BY <2>3, PageBitUnique
      <3>4. x \in Marked(v) <=> Bit(v[j], c) = 1
        BY DEF Marked
      <3>5. x \in Marked(w) <=> Bit(w[i], c) = 1
        BY <2>3 DEF Marked
      <3> HIDE DEF c, b, j, i, v
      <3> QED
        BY <3>2, <3>3, <3>4, <3>5
    <2> QED
      BY <2>2, <2>3
  <1>7. Marked(v) \subseteq Page /\ Marked(w) \subseteq Page
    BY DEF Marked
  <1> HIDE DEF v
  <1>8. Marked(v) = Marked(w) \cup {pg}
    BY <1>6, <1>7
  <1> QED
    BY <1>5, <1>8 DEF v

\* What _set_bitmap has done after n pages from pgnum on.
Reached(bitmap, pgnum, n, s) ==
    /\ s \in [i : Nat, mask : Nat, words : Words, nr_set : Nat]
    /\ s.i = (pgnum + n) \div EntSize /\ s.mask = Pow2[(pgnum + n) % EntSize]
    /\ Marked(s.words) = Marked(bitmap) \cup Run(pgnum, n)
    /\ s.nr_set = Cardinality(Run(pgnum, n) \ Marked(bitmap))

LEMMA RunGrows ==
    ASSUME NEW pgnum \in Nat, NEW n \in Nat
    PROVE  /\ Run(pgnum, n + 1) = Run(pgnum, n) \cup {pgnum + n}
           /\ pgnum + n \notin Run(pgnum, n)
           /\ IsFiniteSet(Run(pgnum, n))
  <1>1. pgnum + n - 1 \in Int /\ pgnum \in Int
    OBVIOUS
  <1>2. IsFiniteSet(pgnum .. pgnum + n - 1)
    BY <1>1, FS_Interval
  <1>3. Run(pgnum, n + 1) = Run(pgnum, n) \cup {pgnum + n}
    BY DEF Run
  <1>4. pgnum + n \notin Run(pgnum, n)
    BY DEF Run
  <1> QED
    BY <1>2, <1>3, <1>4 DEF Run

LEMMA SetBitReaches ==
    ASSUME NEW bitmap \in Words, NEW pgnum \in Nat, NEW n \in Nat, pgnum + n \in Page,
           NEW s, Reached(bitmap, pgnum, n, s)
    PROVE  LET t == SetBit(s)
           IN  /\ t \in [i : Nat, mask : Nat, words : Words, nr_set : Nat]
               /\ t.i = s.i /\ t.mask = s.mask
               /\ Marked(t.words) = Marked(bitmap) \cup Run(pgnum, n + 1)
               /\ t.nr_set = Cardinality(Run(pgnum, n + 1) \ Marked(bitmap))
  <1> DEFINE pg == pgnum + n
             i == pg \div EntSize
             b == pg % EntSize
             t == SetBit(s)
             old == Run(pgnum, n) \ Marked(bitmap)
             now == Run(pgnum, n + 1) \ Marked(bitmap)
  <1>1. i \in WordIdx /\ b \in 0 .. EntSize - 1
    BY PageBit
  <1>2. /\ s \in [i : Nat, mask : Nat, words : Words, nr_set : Nat]
        /\ s.i = i /\ s.mask = Pow2[b]
        /\ Marked(s.words) = Marked(bitmap) \cup Run(pgnum, n)
        /\ s.nr_set = Cardinality(old)
    BY DEF Reached
  <1>3. Meets(s.words[s.i], s.mask) <=> pg \in Marked(s.words)
    <2>1. Meets(s.words[i], Pow2[b]) <=> Bit(s.words[i], b) = 1
      <3> HIDE DEF b, i
      <3> QED
        BY <1>1, MeetsBit
    <2>2. pg \in Marked(s.words) <=> Bit(s.words[i], b) = 1
      BY DEF Marked
    <2> QED
      BY <1>2, <2>1, <2>2
  <1>4. /\ Run(pgnum, n + 1) = Run(pgnum, n) \cup {pg}
        /\ pg \notin Run(pgnum, n) /\ IsFiniteSet(Run(pgnum, n))
    BY RunGrows
  <1>5. IsFiniteSet(old)
    <2>1. old \subseteq Run(pgnum, n)
      OBVIOUS
    <2> HIDE DEF old
    <2> QED
      BY <1>4, <2>1, FS_Subset
  <1>6. CASE pg \in Marked(s.words)
    <2>1. t = s
      BY <1>3, <1>6 DEF SetBit
    <2>2. pg \in Marked(bitmap)
      BY <1>2, <1>4, <1>6
    <2>3. now = old /\ Marked(bitmap) \cup Run(pgnum, n + 1) = Marked(bitmap) \cup Run(pgnum, n)
      BY <1>4, <2>2
    <2> HIDE DEF old, now, t
    <2>4. t.nr_set = Cardinality(now)
      BY <1>2, <2>1, <2>3
    <2> QED
      BY <1>2, <2>1, <2>3, <2>4 DEF t, now
  <1>7. CASE pg \notin Marked(s.words)
    <2> DEFINE v == [s.words EXCEPT ![i] = @ + Pow2[b]]
    <2>1. t = [s EXCEPT !.nr_set = @ + 1, !.words[s.i] = @ + s.mask]
      BY <1>3, <1>7 DEF SetBit
    <2>2. s.words \in Words
      BY <1>2
    <2>3. v \in Words /\ Marked(v) = Marked(s.words) \cup {pg}
      BY <1>7, <2>2, MarkPage
    <2>4. t.i = s.i /\ t.mask = s.mask /\ t.words = v /\ t.nr_set = s.nr_set + 1
          /\ t = [i |-> t.i, mask |-> t.mask, words |-> t.words, nr_set |-> t.nr_set]
      <3> HIDE DEF i, b
      <3> QED
        BY <1>2, <2>1
    <2>5. t \in [i : Nat, mask : Nat, words : Words, nr_set : Nat]
      <3> HIDE DEF t, v
      <3> QED
        BY <1>2, <2>3, <2>4
    <2>6. pg \notin Marked(bitmap)
      BY <1>2, <1>7
    <2>7. now = old \cup {pg} /\ pg \notin old
      BY <1>4, <2>6
    <2>8. Cardinality(now) = Cardinality(old) + 1
      <3> HIDE DEF now, old
      <3> QED
        BY <1>5, <2>7, FS_AddElement
    <2>9. Marked(t.words) = Marked(bitmap) \cup Run(pgnum, n + 1)
      <3> HIDE DEF v, t
      <3> QED
        BY <1>2, <1>4, <2>3, <2>4
    <2>10. t.nr_set = Cardinality(now)
      <3> HIDE DEF now, old, t
      <3> QED
        BY <1>2, <2>4, <2>8
    <2> QED
      BY <2>4, <2>5, <2>9, <2>10
  <1> QED
    BY <1>6, <1>7

LEMMA NextMaskReaches ==
    ASSUME NEW bitmap \in Words, NEW pgnum \in Nat, NEW n \in Nat, pgnum + n \in Page,
           NEW s, Reached(bitmap, pgnum, n, s)
    PROVE  Reached(bitmap, pgnum, n + 1, NextMask(SetBit(s)))
  <1> DEFINE pg == pgnum + n
             i == pg \div EntSize
             b == pg % EntSize
             t == SetBit(s)
             u == NextMask(t)
             m == (t.mask * 2) % Modulus
  <1>0. EntSize \in Nat /\ EntSize \in 0 .. EntSize
    BY FragBitmapAssumption
  <1>1. i \in Nat /\ b \in 0 .. EntSize - 1 /\ pg \in Nat
    BY PageBit
  <1>2. /\ t \in [i : Nat, mask : Nat, words : Words, nr_set : Nat]
        /\ t.i = i /\ t.mask = Pow2[b]
        /\ Marked(t.words) = Marked(bitmap) \cup Run(pgnum, n + 1)
        /\ t.nr_set = Cardinality(Run(pgnum, n + 1) \ Marked(bitmap))
    <2>1. s.i = i /\ s.mask = Pow2[b]
      BY DEF Reached
    <2>2. /\ t \in [i : Nat, mask : Nat, words : Words, nr_set : Nat]
          /\ t.i = s.i /\ t.mask = s.mask
          /\ Marked(t.words) = Marked(bitmap) \cup Run(pgnum, n + 1)
          /\ t.nr_set = Cardinality(Run(pgnum, n + 1) \ Marked(bitmap))
      BY SetBitReaches
    <2> HIDE DEF t, i, b
    <2> QED
      BY <2>1, <2>2
  <1>3. (pgnum + (n + 1)) = pg + 1
    BY <1>1
  <1>4. Pow2[b + 1] = 2 * Pow2[b] /\ b + 1 \in 0 .. EntSize /\ b \in 0 .. EntSize
    <2> HIDE DEF b
    <2>1. b + 1 \in 0 .. EntSize /\ b \in 0 .. EntSize /\ b + 1 # 0 /\ (b + 1) - 1 = b
      BY <1>0, <1>1
    <2> QED
      BY <2>1, Pow2Def
  <1>5. Modulus \in Nat \ {0} /\ Pow2[b] \in Nat \ {0} /\ Pow2[b + 1] \in Nat \ {0}
    <2> HIDE DEF b
    <2> QED
      BY <1>0, <1>4, Pow2Pos DEF Modulus
  <1>6. CASE b + 1 = EntSize
    <2>1. m = 0
      <3>1. t.mask * 2 = Modulus
        <4> HIDE DEF b, t
        <4> QED
          BY <1>2, <1>4, <1>5, <1>6 DEF Modulus
      <3>2. (Modulus % Modulus) = 0
        BY <1>5
      <3> QED
        BY <3>1, <3>2
    <2>2. u = [t EXCEPT !.i = @ + 1, !.mask = 1]
      BY <2>1 DEF NextMask
    <2>3. (pg + 1) \div EntSize = i + 1 /\ ((pg + 1) % EntSize) = 0
      BY <1>1, <1>6, NextPageBit
    <2>4. Pow2[0] = 1
      BY <1>0, Pow2Def
    <2> HIDE DEF pg, i, b, t, u
    <2>5. /\ u \in [i : Nat, mask : Nat, words : Words, nr_set : Nat]
          /\ u.i = i + 1 /\ u.mask = 1 /\ u.words = t.words /\ u.nr_set = t.nr_set
      <3>1. /\ u.i = i + 1 /\ u.mask = 1 /\ u.words = t.words /\ u.nr_set = t.nr_set
            /\ u = [i |-> u.i, mask |-> u.mask, words |-> u.words, nr_set |-> u.nr_set]
        BY <1>2, <2>2
      <3>2. i + 1 \in Nat /\ 1 \in Nat /\ t.words \in Words /\ t.nr_set \in Nat
        BY <1>1, <1>2
      <3> QED
        BY <3>1, <3>2
    <2>6. Reached(bitmap, pgnum, n + 1, u)
      BY <1>2, <1>3, <2>3, <2>4, <2>5 DEF Reached
    <2> QED
      BY <2>6 DEF u, t
  <1>7. CASE b + 1 # EntSize
    <2>1. m = Pow2[b + 1] /\ m # 0
      <3> HIDE DEF b, t
      <3>1. t.mask * 2 = Pow2[b + 1]
        BY <1>2, <1>4, <1>5
      <3>2. Pow2[b + 1] < Modulus
        <4>1. b + 1 \in 0 .. EntSize - 1 /\ 0 \in 0 .. EntSize - (b + 1)
          BY <1>0, <1>1, <1>7
        <4> DEFINE k == EntSize - (b + 1)
        <4>2. k \in Nat /\ b + 1 \in Nat /\ (b + 1) + k = EntSize /\ (b + 1) + k <= EntSize
              /\ k # 0 /\ k \in 0 .. EntSize /\ k - 1 \in 0 .. EntSize
          BY <1>0, <1>1, <4>1
        <4>3. Modulus = Pow2[k] * Pow2[b + 1]
          <5>1. Pow2[(b + 1) + k] = Pow2[k] * Pow2[b + 1]
            <6> HIDE DEF k
            <6> QED
              BY <4>2, Pow2Add
          <5> QED
            BY <4>2, <5>1 DEF Modulus
        <4>4. Pow2[k] = 2 * Pow2[k - 1] /\ Pow2[k - 1] \in Nat \ {0}
          BY <4>2, Pow2Def, Pow2Pos
        <4> DEFINE x == Pow2[k - 1]
                   y == Pow2[b + 1]
        <4>5. x \in Nat \ {0} /\ y \in Nat \ {0} /\ Modulus = (2 * x) * y
          BY <1>5, <4>3, <4>4
        <4>6. y < (2 * x) * y
          <5> HIDE DEF x, y, k
          <5>1. x * y >= y
            BY <4>5
          <5>2. (2 * x) * y = x * y + x * y /\ x * y \in Nat
            BY <4>5
          <5> QED
            BY <4>5, <5>1, <5>2
        <4> QED
          BY <4>5, <4>6
      <3>3. (Pow2[b + 1] % Modulus) = Pow2[b + 1]
        BY <1>5, <3>2
      <3> QED
        BY <1>5, <3>1, <3>3
    <2>2. u = [t EXCEPT !.mask = Pow2[b + 1]]
      BY <2>1 DEF NextMask
    <2>3. (pg + 1) \div EntSize = i /\ ((pg + 1) % EntSize) = b + 1
      BY <1>1, <1>7, NextPageBit
    <2> HIDE DEF pg, i, b, t, u
    <2>4. /\ u \in [i : Nat, mask : Nat, words : Words, nr_set : Nat]
          /\ u.i = i /\ u.mask = Pow2[b + 1] /\ u.words = t.words /\ u.nr_set = t.nr_set
      BY <1>1, <1>2, <1>5, <2>2
    <2>5. Reached(bitmap, pgnum, n + 1, u)
      BY <1>2, <1>3, <2>3, <2>4 DEF Reached
    <2> QED
      BY <2>5 DEF u, t
  <1> QED
    BY <1>6, <1>7

\* _set_bitmap marks the pages of its range, in words, across words and
\* whatever is marked already, and counts those it has newly marked.
LEMMA SetBitmapMarks ==
    ASSUME NEW bitmap \in Words, NEW pgnum \in Nat, NEW pgcnt \in Nat, pgnum + pgcnt <= PagePerFrag
    PROVE  LET r == SetBitmap(bitmap, pgnum, pgcnt)
           IN  /\ r.words \in Words
               /\ Marked(r.words) = Marked(bitmap) \cup Run(pgnum, pgcnt)
               /\ r.nr_set = Cardinality(Run(pgnum, pgcnt) \ Marked(bitmap))
  <1> DEFINE St == [i : Nat, mask : Nat, words : Words, nr_set : Nat]
             J == {x \in St \X (0 .. pgcnt) : Reached(bitmap, pgnum, x[2], x[1])}
             F == [x \in J |-> NextMask(SetBit(x[1]))]
             s0 == [i |-> pgnum \div EntSize, mask |-> Pow2[pgnum % EntSize],
                    words |-> bitmap, nr_set |-> 0]
             Eq(f) == f = [n \in 0 .. pgcnt |-> IF n = 0 THEN s0 ELSE NextMask(SetBit(f[n - 1]))]
             S == CHOOSE f : Eq(f)
  <1>0. EntSize \in Nat \ {0} /\ PagePerFrag \in Nat
    BY FragBitmapAssumption
  <1>1. SetBitmap(bitmap, pgnum, pgcnt) = S[pgcnt]
    BY DEF SetBitmap
  <1>2. \A s, n : <<s, n>> \in J <=> n \in 0 .. pgcnt /\ Reached(bitmap, pgnum, n, s)
    BY DEF Reached
  <1>3. <<s0, 0>> \in J
    <2>1. pgnum \div EntSize \in Nat /\ (pgnum % EntSize) \in 0 .. EntSize
      <3>1. (pgnum % EntSize) \in 0 .. EntSize - 1 /\ pgnum \div EntSize \in Nat
        BY <1>0, DivMod
      <3> QED
        BY <1>0, <3>1
    <2>2. s0 \in St
      BY <2>1, Pow2Def
    <2>3. Run(pgnum, 0) = {} /\ pgnum + 0 = pgnum
      BY DEF Run
    <2>4. Cardinality(Run(pgnum, 0) \ Marked(bitmap)) = 0
      BY <2>3, FS_EmptySet
    <2>5. Reached(bitmap, pgnum, 0, s0)
      BY <2>2, <2>3, <2>4 DEF Reached
    <2> QED
      BY <1>2, <2>5
  <1>4. ASSUME NEW s, NEW n \in 0 .. pgcnt - 1, <<s, n>> \in J
        PROVE  <<NextMask(SetBit(s)), n + 1>> \in J
    <2>1. n \in Nat /\ pgnum + n \in Page /\ n + 1 \in 0 .. pgcnt
      BY <1>0 DEF Page
    <2>2. Reached(bitmap, pgnum, n, s)
      BY <1>2, <1>4
    <2>3. Reached(bitmap, pgnum, n + 1, NextMask(SetBit(s)))
      BY <2>1, <2>2, NextMaskReaches
    <2> QED
      BY <1>2, <2>1, <2>3
  <1>5. \A x \in J : F[x] = NextMask(SetBit(x[1]))
    OBVIOUS
  <1> HIDE DEF J, F, s0
  <1>6. PICK f : /\ f = [n \in 0 .. pgcnt |-> f[n]]
                 /\ Follows(f, pgcnt, s0, F)
                 /\ \A n \in 0 .. pgcnt : <<f[n], n>> \in J
    <2>1. \A s : \A n \in 0 .. pgcnt - 1 : <<s, n>> \in J => <<F[<<s, n>>], n + 1>> \in J
      BY <1>4, <1>5
    <2> QED
      BY <1>3, <2>1, LoopRuns
  <1>7. Eq(f)
    <2>1. ASSUME NEW n \in 0 .. pgcnt
          PROVE  f[n] = IF n = 0 THEN s0 ELSE NextMask(SetBit(f[n - 1]))
      <3>1. n # 0 => n - 1 \in 0 .. pgcnt
        OBVIOUS
      <3>2. n # 0 => F[<<f[n - 1], n - 1>>] = NextMask(SetBit(f[n - 1]))
        BY <1>5, <1>6, <3>1
      <3> QED
        BY <1>6, <3>2 DEF Follows
    <2> QED
      BY <1>6, <2>1
  <1>8. Eq(S)
    <2> HIDE DEF Eq
    <2> QED
      BY <1>7
  <1> HIDE DEF S
  <1> DEFINE T == {n \in 0 .. pgcnt : <<S[n], n>> \notin J}
  <1>9. ASSUME T # {} PROVE FALSE
    <2>1. T \subseteq Nat
      OBVIOUS
    <2>2. PICK n \in T : \A k \in T : n <= k
      <3> HIDE DEF T
      <3> QED
        BY <1>9, <2>1, Least
    <2>3. n \in 0 .. pgcnt /\ <<S[n], n>> \notin J
      OBVIOUS
    <2>4. S[n] = IF n = 0 THEN s0 ELSE NextMask(SetBit(S[n - 1]))
      BY <1>8, <2>3
    <2>5. n # 0
      BY <1>3, <2>3, <2>4
    <2>6. n - 1 \in 0 .. pgcnt /\ n - 1 \in 0 .. pgcnt - 1 /\ ~(n <= n - 1) /\ (n - 1) + 1 = n
      BY <2>3, <2>5
    <2>7. <<S[n - 1], n - 1>> \in J
      BY <2>2, <2>6
    <2>8. <<NextMask(SetBit(S[n - 1])), (n - 1) + 1>> \in J
      BY <1>4, <2>6, <2>7
    <2> QED
      BY <2>3, <2>4, <2>5, <2>6, <2>8
  <1>10. Reached(bitmap, pgnum, pgcnt, S[pgcnt])
    <2>1. pgcnt \in 0 .. pgcnt
      OBVIOUS
    <2> QED
      BY <1>2, <1>9, <2>1
  <1> QED
    BY <1>1, <1>10 DEF Reached

-----------------------------------------------------------------------------
(* _check_bitmap. *)

\* No page of the range is marked.
Clear(w, pgnum, n) == Run(pgnum, n) \cap Marked(w) = {}

\* What one word says, and what is left for the following words.
LEMMA WordChecks ==
    ASSUME NEW w \in Words, NEW page \in Page, NEW c \in Nat \ {0}, page + c <= PagePerFrag
    PROVE  LET offset == page % EntSize
               nr_check == IF c < EntSize - offset THEN c ELSE EntSize - offset
           IN  /\ nr_check \in 1 .. c
               /\ Clear(w, page, c) <=> /\ ~Meets(w[page \div EntSize], Mask(offset, c))
                                       /\ Clear(w, page + nr_check, c - nr_check)
  <1> DEFINE i == page \div EntSize
             offset == page % EntSize
             nr == IF c < EntSize - offset THEN c ELSE EntSize - offset
  <1>0. EntSize \in Nat \ {0} /\ PagePerFrag \in Nat
    BY FragBitmapAssumption
  <1>1. /\ i \in Nat /\ offset \in 0 .. EntSize - 1 /\ page \in Nat /\ i \in WordIdx
        /\ page = i * EntSize + offset
    BY PageBit
  <1>2. nr \in 1 .. c /\ nr <= EntSize - offset /\ (nr = c \/ nr = EntSize - offset)
    <2> HIDE DEF offset
    <2> QED
      BY <1>0, <1>1
  <1>3. \A b \in 0 .. EntSize - 1 :
           Bit(Mask(offset, c), b) = IF offset <= b /\ b < offset + c THEN 1 ELSE 0
    <2> HIDE DEF offset
    <2> QED
      BY <1>1, MaskBits
  <1>4. ASSUME Meets(w[i], Mask(offset, c))
        PROVE  \E pg \in Run(page, nr) : pg \in Marked(w)
    <2>1. PICK b \in 0 .. EntSize - 1 : Bit(w[i], b) = 1 /\ Bit(Mask(offset, c), b) = 1
      BY <1>4 DEF Meets
    <2>2. offset <= b /\ b < offset + c
      BY <1>3, <2>1
    <2> DEFINE pg == i * EntSize + b
    <2>3. pg \in Nat /\ pg \in Run(page, nr) /\ pg \in Page
      <3> HIDE DEF i, offset, nr
      <3>1. i * EntSize \in Nat
        BY <1>0, <1>1
      <3>2. b < offset + nr
        BY <1>0, <1>1, <1>2, <2>2
      <3> QED
        BY <1>0, <1>1, <1>2, <2>2, <3>1, <3>2 DEF Run, Page
    <2>4. pg \div EntSize = i /\ (pg % EntSize) = b
      <3> HIDE DEF i
      <3> QED
        BY <1>1, BitOfPage
    <2> HIDE DEF pg
    <2> QED
      BY <2>1, <2>3, <2>4 DEF Marked
  <1>5. ASSUME NEW pg \in Run(page, nr), pg \in Marked(w)
        PROVE  Meets(w[i], Mask(offset, c))
    <2> DEFINE b == pg - i * EntSize
    <2>1. i * EntSize \in Nat /\ pg \in Nat /\ pg \in page .. page + nr - 1
      BY <1>0, <1>1 DEF Run
    <2>2. b \in 0 .. EntSize - 1 /\ offset <= b /\ b < offset + c /\ pg = i * EntSize + b
      <3> HIDE DEF i, offset, nr
      <3> QED
        BY <1>0, <1>1, <1>2, <2>1
    <2>3. pg \div EntSize = i /\ (pg % EntSize) = b
      <3> HIDE DEF i, b
      <3>1. (i * EntSize + b) \div EntSize = i /\ ((i * EntSize + b) % EntSize) = b
        BY <1>1, <2>2, BitOfPage
      <3> QED
        BY <2>2, <3>1
    <2>4. Bit(w[i], b) = 1
      <3> HIDE DEF i, b
      <3> QED
        BY <1>5, <2>3 DEF Marked
    <2>5. Bit(Mask(offset, c), b) = 1
      <3> HIDE DEF b, offset
      <3> QED
        BY <1>3, <2>2
    <2> HIDE DEF b, offset, i
    <2> QED
      BY <2>2, <2>4, <2>5 DEF Meets
  <1>6. Run(page, c) = Run(page, nr) \cup Run(page + nr, c - nr)
    <2> HIDE DEF nr
    <2> QED
      BY <1>1, <1>2 DEF Run
  <1> HIDE DEF nr, i, offset
  <1>7. Clear(w, page, c) <=> ~Meets(w[i], Mask(offset, c)) /\ Clear(w, page + nr, c - nr)
    BY <1>4, <1>5, <1>6 DEF Clear
  <1> QED
    BY <1>2, <1>7 DEF nr, i, offset

\* _check_bitmap says whether the range has no marked page.
LEMMA CheckBitmapClear ==
    ASSUME words \in Words, NEW pgnum \in Page, NEW pgcnt \in 1 .. PagePerFrag, pgnum + pgcnt <= PagePerFrag
    PROVE  CheckBitmap(pgnum, pgcnt) <=> Clear(words, pgnum, pgcnt)
  <1> DEFINE end == pgnum + pgcnt
             Body(f, c) ==
                IF c = 0 THEN TRUE
                ELSE LET page == end - c
                         offset == page % EntSize
                         nr_check == IF c < EntSize - offset THEN c ELSE EntSize - offset
                     IN  /\ ~Meets(words[page \div EntSize], Mask(offset, c))
                         /\ f[c - nr_check]
             Eq(f) == f = [c \in 0 .. pgcnt |-> Body(f, c)]
             Check == CHOOSE f : Eq(f)
             g == [c \in 0 .. pgcnt |-> Clear(words, end - c, c)]
  <1>0. PagePerFrag \in Nat /\ pgnum \in Nat /\ end \in Nat /\ pgcnt \in Nat
    BY FragBitmapAssumption DEF Page
  <1>1. CheckBitmap(pgnum, pgcnt) <=> IF pgcnt = 1 THEN Bit(words[pgnum \div EntSize], pgnum % EntSize) = 0
                                      ELSE Check[pgcnt]
    BY DEF CheckBitmap
  <1>2. ASSUME NEW c \in 0 .. pgcnt, c # 0
        PROVE  LET page == end - c
                   offset == page % EntSize
                   nr_check == IF c < EntSize - offset THEN c ELSE EntSize - offset
               IN  /\ c - nr_check \in 0 .. pgcnt /\ c - nr_check < c
                   /\ Clear(words, end - c, c) <=>
                        /\ ~Meets(words[page \div EntSize], Mask(offset, c))
                        /\ Clear(words, end - (c - nr_check), c - nr_check)
    <2> DEFINE page == end - c
               offset == page % EntSize
               nr == IF c < EntSize - offset THEN c ELSE EntSize - offset
    <2>1. page \in Page /\ c \in Nat \ {0} /\ page + c <= PagePerFrag
      BY <1>0, <1>2 DEF Page
    <2>2. /\ nr \in 1 .. c
          /\ Clear(words, page, c) <=> /\ ~Meets(words[page \div EntSize], Mask(offset, c))
                                      /\ Clear(words, page + nr, c - nr)
      <3> HIDE DEF page
      <3> QED
        BY <2>1, WordChecks
    <2>3. page + nr = end - (c - nr) /\ c - nr \in 0 .. pgcnt /\ c - nr < c
      <3>1. nr \in 1 .. c
        BY <2>2
      <3> HIDE DEF nr
      <3> QED
        BY <1>0, <1>2, <3>1
    <2> HIDE DEF nr
    <2> QED
      BY <2>2, <2>3 DEF nr
  <1>3. ASSUME NEW c \in 0 .. pgcnt
        PROVE  g[c] = Body(g, c)
    <2>1. CASE c = 0
      <3>1. Run(end - 0, 0) = {}
        BY <1>0 DEF Run
      <3> QED
        BY <2>1, <3>1 DEF Clear
    <2>2. CASE c # 0
      <3> DEFINE page == end - c
                 offset == page % EntSize
                 nr == IF c < EntSize - offset THEN c ELSE EntSize - offset
                 d == c - nr
                 met == Meets(words[page \div EntSize], Mask(offset, c))
      <3>1. d \in 0 .. pgcnt /\ (Clear(words, end - c, c) <=> ~met /\ Clear(words, end - d, d))
        BY <1>2, <2>2
      <3>2. g[c] = Clear(words, end - c, c) /\ g[d] = Clear(words, end - d, d)
        <4> HIDE DEF d
        <4> QED
          BY <3>1
      <3>3. Body(g, c) = (~met /\ g[d])
        BY <2>2
      <3> HIDE DEF g, d, met, Body, end
      <3> QED
        BY <3>1, <3>2, <3>3 DEF Clear
    <2> QED
      BY <2>1, <2>2
  <1> DEFINE Rhs == [c \in 0 .. pgcnt |-> Body(Check, c)]
  <1>4. Eq(g)
    <2> HIDE DEF Body
    <2> QED
      BY <1>3
  <1>5. Eq(Check)
    <2> HIDE DEF Eq, g
    <2> QED
      BY <1>4
  <1> HIDE DEF Check
  <1>6. \A c \in 0 .. pgcnt : Check[c] = Body(Check, c)
    <2> HIDE DEF Body
    <2> QED
      BY <1>5
  <1> DEFINE T == {c \in 0 .. pgcnt : Check[c] # g[c]}
  <1>7. ASSUME T # {} PROVE FALSE
    <2>1. T \subseteq Nat
      OBVIOUS
    <2>2. PICK c \in T : \A d \in T : c <= d
      <3> HIDE DEF T
      <3> QED
        BY <1>7, <2>1, Least
    <2>3. c \in 0 .. pgcnt /\ Check[c] # g[c]
      OBVIOUS
    <2>4. Check[c] = Body(Check, c) /\ g[c] = Body(g, c)
      <3> HIDE DEF Body, g
      <3> QED
        BY <1>3, <1>6, <2>3
    <2>5. CASE c = 0
      BY <2>3, <2>4, <2>5
    <2>6. CASE c # 0
      <3> DEFINE page == end - c
                 offset == page % EntSize
                 nr == IF c < EntSize - offset THEN c ELSE EntSize - offset
                 d == c - nr
                 met == Meets(words[page \div EntSize], Mask(offset, c))
      <3>1. d \in 0 .. pgcnt /\ d < c
        BY <1>2, <2>3, <2>6
      <3>2. Body(Check, c) = (~met /\ Check[d]) /\ Body(g, c) = (~met /\ g[d])
        BY <2>6
      <3>3. Check[d] = g[d]
        <4> HIDE DEF d, g
        <4>1. ~(c <= d)
          BY <2>3, <3>1
        <4>2. d \notin T
          BY <2>2, <4>1
        <4> QED
          BY <3>1, <4>2
      <3> HIDE DEF Body, g, d, met
      <3> QED
        BY <2>3, <2>4, <3>2, <3>3
    <2> QED
      BY <2>5, <2>6
  <1>8. CASE pgcnt = 1
    <2>1. Run(pgnum, 1) = {pgnum}
      BY <1>0 DEF Run
    <2>2. Clear(words, pgnum, 1) <=> Bit(words[pgnum \div EntSize], pgnum % EntSize) # 1
      BY <2>1 DEF Clear, Marked
    <2>3. Bit(words[pgnum \div EntSize], pgnum % EntSize) \in {0, 1}
      <3> DEFINE i == pgnum \div EntSize
                 b == pgnum % EntSize
      <3>1. i \in WordIdx /\ b \in 0 .. EntSize
        BY PageBit, FragBitmapAssumption
      <3>2. words[i] \in Nat
        <4> HIDE DEF i
        <4> QED
          BY <3>1 DEF Words
      <3> HIDE DEF i, b
      <3>3. Bit(words[i], b) \in {0, 1}
        BY <3>1, <3>2, BitIsBinary
      <3> QED
        BY <3>3 DEF i, b
    <2> QED
      BY <1>1, <1>8, <2>2, <2>3
  <1>9. CASE pgcnt # 1
    <2>1. pgcnt \in 0 .. pgcnt /\ end - pgcnt = pgnum
      BY <1>0
    <2>2. Check[pgcnt] = g[pgcnt]
      <3> HIDE DEF g
      <3> QED
        BY <1>7, <2>1
    <2>3. g[pgcnt] = Clear(words, pgnum, pgcnt)
      BY <2>1
    <2> QED
      BY <1>1, <1>9, <2>2, <2>3
  <1> QED
    BY <1>8, <1>9

-----------------------------------------------------------------------------
(* The inductive invariant. *)

\* The words mark the pages invalidated, and nr_valid counts the others.
BitmapOK ==
    /\ words \in Words
    /\ invalid \subseteq Page
    /\ Marked(words) = invalid
    /\ nrValid = PagePerFrag - Cardinality(invalid)

\* What is mapped, what has been copied, and the pages behind the target's end.
CopyOK ==
    /\ size \in TargetSize
    /\ lfrag # None => lfrag \in 0 .. NrFrag - 1 /\ cfrag \in CacheFrags
    /\ lfrag # None => Run(PagePerFrag - Padding(lfrag), Padding(lfrag)) \subseteq invalid
    /\ ready => lfrag # None /\ ssd = [at |-> WriteStart(cfrag), data |-> FragBuf(lfrag)]

IInv == BitmapOK /\ CopyOK

LEMMA PageFinite ==
    /\ IsFiniteSet(Page) /\ Cardinality(Page) = PagePerFrag
    /\ \A s \in SUBSET Page : IsFiniteSet(s) /\ Cardinality(s) \in 0 .. PagePerFrag
  <1>1. PagePerFrag \in Nat \ {0}
    BY FragBitmapAssumption
  <1>2. IsFiniteSet(Page) /\ Cardinality(Page) = PagePerFrag
    BY <1>1, FS_Interval DEF Page
  <1>3. ASSUME NEW s \in SUBSET Page
        PROVE  IsFiniteSet(s) /\ Cardinality(s) \in 0 .. PagePerFrag
    <2>1. IsFiniteSet(s) /\ Cardinality(s) <= Cardinality(Page)
      BY <1>2, FS_Subset
    <2>2. Cardinality(s) \in Nat
      BY <2>1, FS_CardinalityType
    <2> QED
      BY <1>1, <1>2, <2>1, <2>2
  <1> QED
    BY <1>2, <1>3

LEMMA NothingMarked ==
    NoBits \in Words /\ Marked(NoBits) = {}
  <1>1. Modulus \in Nat \ {0}
    <2>1. EntSize \in 0 .. EntSize
      BY FragBitmapAssumption
    <2> QED
      BY <2>1, Pow2Pos DEF Modulus
  <1>2. 0 \in 0 .. Modulus - 1
    BY <1>1
  <1>3. NoBits \in Words
    BY <1>2 DEF NoBits, Words
  <1>4. ASSUME NEW pg \in Page PROVE Bit(NoBits[pg \div EntSize], pg % EntSize) = 0
    <2> DEFINE i == pg \div EntSize
               b == pg % EntSize
    <2>1. i \in WordIdx /\ b \in 0 .. EntSize - 1
      BY PageBit
    <2> HIDE DEF i, b
    <2>2. NoBits[i] = 0
      BY <2>1 DEF NoBits
    <2>3. Bit(NoBits[i], b) = 0
      BY <2>1, <2>2, OneBit
    <2> QED
      BY <2>3 DEF i, b
  <1> QED
    BY <1>3, <1>4 DEF Marked

\* What the invariant says of the bitmap is what the properties state.
LEMMA BitmapCounts == BitmapOK => TypeOK /\ CountsValid
  <1> SUFFICES ASSUME BitmapOK PROVE TypeOK /\ CountsValid
    OBVIOUS
  <1> DEFINE m == Cardinality(invalid)
             n == Cardinality(Page \ invalid)
  <1>1. invalid \in SUBSET Page /\ IsFiniteSet(Page) /\ Cardinality(Page) = PagePerFrag
    BY PageFinite DEF BitmapOK
  <1>2. IsFiniteSet(invalid) /\ m \in 0 .. PagePerFrag
    BY <1>1, PageFinite
  <1>3. n = PagePerFrag - m
    <2>1. Page \cap invalid = invalid
      BY <1>1
    <2>2. n = Cardinality(Page) - Cardinality(Page \cap invalid)
      BY <1>1, FS_Difference
    <2> QED
      BY <1>1, <2>1, <2>2
  <1>4. nrValid = PagePerFrag - m
    BY DEF BitmapOK
  <1>5. PagePerFrag \in Nat
    BY FragBitmapAssumption
  <1> HIDE DEF m, n
  <1>6. nrValid \in 0 .. PagePerFrag /\ nrValid = n
    BY <1>2, <1>3, <1>4, <1>5
  <1> QED
    BY <1>6 DEF TypeOK, CountsValid, BitmapOK, Words, n

LEMMA BitmapChecks == BitmapOK => ChecksRange
  <1> SUFFICES ASSUME BitmapOK, NEW r \in Ranges
               PROVE  CheckBitmap(r[1], r[2]) <=> (r[1] .. r[1] + r[2] - 1) \cap invalid = {}
    BY DEF ChecksRange
  <1>1. r[1] \in Page /\ r[2] \in 1 .. PagePerFrag /\ r[1] + r[2] <= PagePerFrag
    BY DEF Ranges
  <1>2. words \in Words /\ Marked(words) = invalid
    BY DEF BitmapOK
  <1>3. CheckBitmap(r[1], r[2]) <=> Clear(words, r[1], r[2])
    BY <1>1, <1>2, CheckBitmapClear
  <1> QED
    BY <1>2, <1>3 DEF Clear, Run

\* The number of padded pages is at most a fragment's, also when lun->nr_frag
\* * SCE_SCTRPERFRAG wraps; and they cover what the target does not fill.
LEMMA PaddingFits ==
    ASSUME size \in TargetSize, NEW f \in 0 .. NrFrag - 1
    PROVE  /\ Padding(f) \in 0 .. PagePerFrag
           /\ f = NrFrag - 1 /\ size < LunEnd =>
                 f * SctrPerFrag + (PagePerFrag - Padding(f)) * SctrPerPage <= size
  <1> DEFINE S == SctrPerFrag
             N == NrFrag
             e == LunEnd
             q == (N * S) \div Word
             k == Word \div S
             P == (e - size + SctrPerPage - 1) \div SctrPerPage
  <1>1. /\ SctrPerPage \in Nat \ {0} /\ PagePerFrag \in Nat \ {0} /\ Word \in Nat \ {0}
        /\ size \in Nat \ {0} /\ S = SctrPerPage * PagePerFrag
    BY FragBitmapAssumption, FragCopyAssumption DEF SctrPerFrag
  <1>2. S \in Nat \ {0}
    <2> HIDE DEF S
    <2> QED
      BY <1>1
  <1>3. N \in Nat /\ N * S \in Nat /\ N * S <= size + S - 1 /\ size <= N * S
    <2> DEFINE x == size + S - 1
               u == x % S
    <2>1. x \in Nat /\ N = x \div S
      <3> HIDE DEF S
      <3> QED
        BY <1>1, <1>2 DEF NrFrag, S
    <2>2. x = N * S + u /\ u \in 0 .. S - 1 /\ N \in Nat
      <3> HIDE DEF x, S, N
      <3>1. x = (x \div S) * S + (x % S) /\ (x % S) \in 0 .. S - 1 /\ x \div S \in Nat
        BY <1>2, <2>1, DivMod
      <3> QED
        BY <2>1, <3>1
    <2>3. x = size + S - 1
      OBVIOUS
    <2> HIDE DEF x, u, S, N
    <2>4. N * S \in Nat
      BY <1>2, <2>2
    <2> QED
      BY <1>1, <1>2, <2>2, <2>3, <2>4
  <1>4. N * S = q * Word + e /\ e \in 0 .. Word - 1 /\ q \in Nat
    <2> DEFINE x == N * S
    <2>1. x \in Nat /\ e = x % Word
      BY <1>3 DEF LunEnd
    <2> HIDE DEF x, e
    <2>2. x = (x \div Word) * Word + (x % Word) /\ (x % Word) \in 0 .. Word - 1 /\ x \div Word \in Nat
      BY <1>1, <2>1, DivMod
    <2> QED
      BY <2>1, <2>2 DEF x
  <1>5. S <= Word
    <2>1. (Word % S) = 0
      BY FragCopyAssumption
    <2> HIDE DEF S
    <2>2. Word = k * S + (Word % S) /\ k \in Nat
      BY <1>1, <1>2, DivMod
    <2> HIDE DEF k
    <2>3. Word = k * S /\ k # 0
      BY <1>1, <1>2, <2>1, <2>2
    <2>4. S <= k * S
      BY <1>2, <2>2, <2>3
    <2> QED
      BY <2>3, <2>4
  <1>6. CASE size < e
    <2>1. q = 0
      <3> HIDE DEF q, S, N, e
      <3>1. q # 0 => Word <= q * Word
        BY <1>1, <1>4
      <3>2. q * Word \in Nat
        BY <1>1, <1>4
      <3> QED
        BY <1>1, <1>2, <1>3, <1>4, <1>5, <1>6, <3>1, <3>2
    <2>2. e = N * S /\ e - size \in 0 .. S - 1
      <3> HIDE DEF q, S, N, e
      <3>1. q * Word = 0
        BY <1>1, <2>1
      <3> QED
        BY <1>1, <1>2, <1>3, <1>4, <1>6, <3>1
    <2> DEFINE d == e - size
               y == d + SctrPerPage - 1
               v == y % SctrPerPage
    <2>3. y \in Nat /\ y = P * SctrPerPage + v /\ v \in 0 .. SctrPerPage - 1 /\ P \in Nat
          /\ d \in 0 .. S - 1 /\ y = d + SctrPerPage - 1
      <3>1. d \in 0 .. S - 1
        BY <2>2
      <3> HIDE DEF d, S
      <3>2. y \in Nat
        BY <1>1, <1>2, <3>1
      <3>3. y = d + SctrPerPage - 1
        OBVIOUS
      <3>4. P = y \div SctrPerPage
        BY DEF d
      <3> HIDE DEF y, P
      <3>5. y = (y \div SctrPerPage) * SctrPerPage + (y % SctrPerPage) /\ (y % SctrPerPage) \in 0 .. SctrPerPage - 1
            /\ y \div SctrPerPage \in Nat
        BY <1>1, <3>2, DivMod
      <3> QED
        BY <3>1, <3>2, <3>3, <3>4, <3>5
    <2>4. P <= PagePerFrag /\ d <= P * SctrPerPage
      <3> HIDE DEF P, d, y, v, S
      <3>1. PagePerFrag < P => (PagePerFrag + 1) * SctrPerPage <= P * SctrPerPage
        BY <1>1, <2>3
      <3>2. (PagePerFrag + 1) * SctrPerPage = S + SctrPerPage /\ P * SctrPerPage \in Nat
        <4>1. (PagePerFrag + 1) * SctrPerPage = PagePerFrag * SctrPerPage + SctrPerPage
          BY <1>1
        <4>2. PagePerFrag * SctrPerPage = S
          BY <1>1
        <4> QED
          BY <1>1, <2>3, <4>1, <4>2
      <3> QED
        BY <1>1, <1>2, <2>3, <3>1, <3>2
    <2>5. Padding(f) = IF f = N - 1 THEN P ELSE 0
      BY <1>6 DEF Padding
    <2>6. CASE f = N - 1
      <3>1. f * S + (PagePerFrag - P) * SctrPerPage <= size
        <4>1. f * S = N * S - S
          <5>1. f = N - 1
            BY <2>6
          <5> HIDE DEF N, S
          <5> QED
            BY <1>2, <1>3, <5>1
        <4>2. d = N * S - size
          BY <2>2
        <4> HIDE DEF P, d, S, N, y, v
        <4>3. (PagePerFrag - P) * SctrPerPage = PagePerFrag * SctrPerPage - P * SctrPerPage
          BY <1>1, <2>3
        <4>4. PagePerFrag * SctrPerPage = S
          BY <1>1
        <4>5. P * SctrPerPage \in Nat
          BY <1>1, <2>3
        <4> QED
          BY <1>1, <1>2, <1>3, <2>4, <4>1, <4>2, <4>3, <4>4, <4>5
      <3> HIDE DEF P
      <3> QED
        BY <1>1, <2>3, <2>4, <2>5, <2>6, <3>1
    <2>7. CASE f # N - 1
      <3> HIDE DEF P
      <3> QED
        BY <1>1, <2>5, <2>7
    <2> QED
      BY <2>6, <2>7
  <1>7. CASE ~(size < e)
    <2>1. Padding(f) = 0
      BY <1>7 DEF Padding
    <2>2. 0 \in 0 .. PagePerFrag
      BY <1>1
    <2> QED
      BY <1>7, <2>1, <2>2
  <1> QED
    BY <1>6, <1>7

LEMMA CInitIInv == CInit => IInv
  <1> SUFFICES ASSUME CInit PROVE IInv
    OBVIOUS
  <1>1. BitmapOK
    <2>1. Cardinality({}) = 0
      BY FS_EmptySet
    <2>2. PagePerFrag = PagePerFrag - 0
      BY FragBitmapAssumption
    <2> QED
      BY <2>1, <2>2, NothingMarked DEF CInit, Init, BitmapOK
  <1>2. CopyOK
    BY DEF CInit, CopyOK
  <1> QED
    BY <1>1, <1>2 DEF IInv

LEMMA MapFragStep ==
    ASSUME IInv, NEW f \in 0 .. NrFrag - 1, NEW c \in CacheFrags, MapFrag(f, c)
    PROVE  IInv'
  <1> DEFINE P == Padding(f)
             n == PagePerFrag - P
             padded == SetBitmap(NoBits, n, P)
  <1>1. PagePerFrag \in Nat /\ size \in TargetSize
    BY FragBitmapAssumption DEF IInv, CopyOK
  <1>2. P \in 0 .. PagePerFrag
    BY <1>1, PaddingFits
  <1>3. n \in Nat /\ P \in Nat /\ n + P <= PagePerFrag /\ Run(n, P) = n .. PagePerFrag - 1
        /\ Run(n, P) \in SUBSET Page
    <2> HIDE DEF P
    <2> QED
      BY <1>1, <1>2 DEF Run, Page
  <1>4. words' = padded.words /\ nrValid' = PagePerFrag - padded.nr_set /\ invalid' = n .. PagePerFrag - 1
        /\ size' = size /\ ready' = ready /\ ssd' = ssd /\ lfrag' = f /\ cfrag' = c /\ lfrag = None
    BY DEF MapFrag
  <1>5. /\ padded.words \in Words
        /\ Marked(padded.words) = Marked(NoBits) \cup Run(n, P)
        /\ padded.nr_set = Cardinality(Run(n, P) \ Marked(NoBits))
    <2> HIDE DEF P, n
    <2> QED
      BY <1>3, NothingMarked, SetBitmapMarks
  <1>6. BitmapOK'
    <2> HIDE DEF padded, n, P
    <2>1. Marked(NoBits) = {}
      BY NothingMarked
    <2>2. Run(n, P) \ {} = Run(n, P) /\ {} \cup Run(n, P) = Run(n, P)
      OBVIOUS
    <2>3. Marked(words') = invalid' /\ nrValid' = PagePerFrag - Cardinality(invalid')
      BY <1>3, <1>4, <1>5, <2>1, <2>2
    <2>4. words' \in Words /\ invalid' \subseteq Page
      BY <1>3, <1>4, <1>5
    <2>5. Marked(words)' = Marked(words')
      BY DEF Marked, Bit
    <2> QED
      BY <2>3, <2>4, <2>5 DEF BitmapOK
  <1>7. CopyOK'
    <2>1. ~ready
      BY <1>4 DEF IInv, CopyOK
    <2>2. NrFrag' = NrFrag /\ Padding(f)' = Padding(f)
      BY <1>4 DEF NrFrag, Padding, LunEnd
    <2>3. Run(n, P) = invalid'
      BY <1>3, <1>4
    <2>4. (Run(PagePerFrag - Padding(lfrag), Padding(lfrag)) \subseteq invalid)'
      <3>1. Padding(lfrag)' = P
        BY <1>4 DEF Padding, LunEnd, NrFrag
      <3>2. (Run(PagePerFrag - Padding(lfrag), Padding(lfrag)) \subseteq invalid)'
            <=> Run(PagePerFrag - Padding(lfrag)', Padding(lfrag)') \subseteq invalid'
        BY DEF Run
      <3> HIDE DEF P
      <3> QED
        BY <2>3, <3>1, <3>2
    <2>5. (lfrag # None => lfrag \in 0 .. NrFrag - 1 /\ cfrag \in CacheFrags)'
      BY <1>4, <2>2
    <2>6. size' \in TargetSize /\ ~ready'
      BY <1>1, <1>4, <2>1
    <2> QED
      BY <2>4, <2>5, <2>6 DEF CopyOK
  <1> QED
    BY <1>6, <1>7 DEF IInv

LEMMA FillStep == IInv /\ Fill => IInv'
  <1> SUFFICES ASSUME IInv, Fill PROVE IInv'
    OBVIOUS
  <1>1. BitmapOK'
    BY DEF IInv, BitmapOK, Fill, vars, Marked, Bit
  <1>2. UNCHANGED <<size, lfrag, cfrag, invalid>> /\ lfrag # None
        /\ ssd' = [at |-> WriteStart(cfrag), data |-> FragBuf(lfrag)]
    BY DEF Fill, vars
  <1>3. WriteStart(cfrag)' = WriteStart(cfrag) /\ FragBuf(lfrag)' = FragBuf(lfrag)
    BY <1>2 DEF WriteStart, FragBuf, ReadStart, ReadCount
  <1>4. NrFrag' = NrFrag /\ Padding(lfrag)' = Padding(lfrag)
    BY <1>2 DEF NrFrag, Padding, LunEnd
  <1>5. CopyOK'
    BY <1>2, <1>3, <1>4 DEF IInv, CopyOK, Run
  <1> QED
    BY <1>1, <1>5 DEF IInv

LEMMA WriteStep ==
    ASSUME IInv, NEW r \in Ranges, Write(r[1], r[2])
    PROVE  IInv'
  <1> DEFINE p == r[1]
             n == r[2]
             set == SetBitmap(words, p, n)
             new == Run(p, n) \ invalid
  <1>1. p \in Nat /\ n \in Nat /\ p + n <= PagePerFrag /\ PagePerFrag \in Nat
    BY FragBitmapAssumption DEF Ranges, Page
  <1>2. words \in Words /\ invalid \in SUBSET Page /\ Marked(words) = invalid
        /\ nrValid = PagePerFrag - Cardinality(invalid)
    BY DEF IInv, BitmapOK
  <1>3. words' = set.words /\ nrValid' = nrValid - set.nr_set /\ invalid' = invalid \cup Run(p, n)
        /\ UNCHANGED <<size, lfrag, cfrag, ready, ssd>>
    BY DEF Write, Invalidate, Run
  <1>4. set.words \in Words /\ Marked(set.words) = Marked(words) \cup Run(p, n)
        /\ set.nr_set = Cardinality(Run(p, n) \ Marked(words))
    <2> HIDE DEF p, n
    <2> QED
      BY <1>1, <1>2, SetBitmapMarks
  <1>5. Run(p, n) \in SUBSET Page
    <2> HIDE DEF p, n
    <2> QED
      BY <1>1 DEF Run, Page
  <1>6. Cardinality(invalid \cup Run(p, n)) = Cardinality(invalid) + Cardinality(new)
        /\ Cardinality(invalid) \in Nat /\ Cardinality(new) \in Nat
    <2>1. new \in SUBSET Page /\ invalid \cup Run(p, n) = invalid \cup new /\ invalid \cap new = {}
      BY <1>5
    <2> HIDE DEF new
    <2>2. IsFiniteSet(invalid) /\ IsFiniteSet(new) /\ Cardinality(invalid) \in Nat /\ Cardinality(new) \in Nat
      BY <1>2, <2>1, PageFinite
    <2>3. Cardinality(invalid \cup new)
            = Cardinality(invalid) + Cardinality(new) - Cardinality(invalid \cap new)
      BY <2>2, FS_Union
    <2>4. Cardinality(invalid \cap new) = 0
      BY <2>1, FS_EmptySet
    <2>5. Cardinality(invalid \cup new) = Cardinality(invalid) + Cardinality(new)
      BY ONLY <2>2, <2>3, <2>4
    <2>6. Cardinality(invalid \cup Run(p, n)) = Cardinality(invalid \cup new)
      BY ONLY <2>1
    <2> QED
      BY <2>2, <2>5, <2>6 DEF new
  <1>7. BitmapOK'
    <2> HIDE DEF set, p, n
    <2>1. set.nr_set = Cardinality(new)
      BY <1>2, <1>4
    <2>2. nrValid' = PagePerFrag - Cardinality(invalid')
      <3> HIDE DEF new
      <3> QED
        BY <1>1, <1>2, <1>3, <1>6, <2>1
    <2>3. Marked(words') = invalid' /\ words' \in Words /\ invalid' \subseteq Page
      BY <1>2, <1>3, <1>4, <1>5
    <2>4. Marked(words)' = Marked(words')
      BY DEF Marked, Bit
    <2> QED
      BY <2>2, <2>3, <2>4 DEF BitmapOK
  <1>8. CopyOK'
    <2>1. NrFrag' = NrFrag /\ Padding(lfrag)' = Padding(lfrag)
          /\ WriteStart(cfrag)' = WriteStart(cfrag) /\ FragBuf(lfrag)' = FragBuf(lfrag)
      BY <1>3 DEF NrFrag, Padding, LunEnd, WriteStart, FragBuf, ReadStart, ReadCount
    <2>2. invalid \subseteq invalid'
      BY <1>3
    <2> QED
      BY <1>3, <2>1, <2>2 DEF IInv, CopyOK, Run
  <1> QED
    BY <1>7, <1>8 DEF IInv

LEMMA UnmapStep == IInv /\ Unmap => IInv'
  <1> SUFFICES ASSUME IInv, Unmap PROVE IInv'
    OBVIOUS
  <1>1. words' = NoBits /\ nrValid' = PagePerFrag /\ invalid' = {} /\ lfrag' = None /\ ready' = FALSE
        /\ size' = size
    BY DEF Unmap
  <1>2. BitmapOK'
    <2>1. Cardinality({}) = 0
      BY FS_EmptySet
    <2>2. PagePerFrag = PagePerFrag - 0
      BY FragBitmapAssumption
    <2>3. Marked(words)' = Marked(words')
      BY DEF Marked, Bit
    <2> QED
      BY <1>1, <2>1, <2>2, <2>3, NothingMarked DEF BitmapOK
  <1>3. CopyOK'
    BY <1>1 DEF IInv, CopyOK
  <1> QED
    BY <1>2, <1>3 DEF IInv

LEMMA CNextIInv == IInv /\ [CNext]_cvars => IInv'
  <1> SUFFICES ASSUME IInv, [CNext]_cvars PROVE IInv'
    OBVIOUS
  <1>1. ASSUME NEW f \in 0 .. NrFrag - 1, NEW c \in CacheFrags, MapFrag(f, c) PROVE IInv'
    BY <1>1, MapFragStep
  <1>2. CASE Fill
    BY <1>2, FillStep
  <1>3. CASE Unmap
    BY <1>3, UnmapStep
  <1>4. ASSUME NEW r \in Ranges, Write(r[1], r[2]) PROVE IInv'
    BY <1>4, WriteStep
  <1>5. CASE UNCHANGED cvars
    <2>1. UNCHANGED <<words, nrValid, invalid, size, lfrag, cfrag, ready, ssd>>
      BY <1>5 DEF cvars, vars
    <2>2. BitmapOK'
      BY <2>1 DEF IInv, BitmapOK, Marked, Bit
    <2>3. CopyOK'
      BY <2>1 DEF IInv, CopyOK, NrFrag, Padding, LunEnd, WriteStart, FragBuf, ReadStart, ReadCount, Run
    <2> QED
      BY <2>2, <2>3 DEF IInv
  <1> QED
    BY <1>1, <1>2, <1>3, <1>4, <1>5 DEF CNext

THEOREM Invariance == CSpec => []IInv
  BY CInitIInv, CNextIInv, PTL DEF CSpec

\* The words of the bitmap stay words, and nr_valid never leaves its range:
\* the BUG_ON of _frag_invalidate on it cannot fire.
THEOREM TypeCorrect == CSpec => []TypeOK
  <1>1. IInv => TypeOK
    BY BitmapCounts DEF IInv
  <1> QED
    BY <1>1, Invariance, PTL

\* nr_valid is the number of valid pages however invalidations overlap each
\* other and the padding of the last fragment.
THEOREM ValidCounted == CSpec => []CountsValid
  <1>1. IInv => CountsValid
    BY BitmapCounts DEF IInv
  <1> QED
    BY <1>1, Invariance, PTL

\* The test by words and shifted masks is exact: _frag_isvalid is true of the
\* ranges without an invalid page and of no other.
THEOREM RangeChecked == CSpec => []ChecksRange
  <1>1. IInv => ChecksRange
    BY BitmapChecks DEF IInv
  <1> QED
    BY <1>1, Invariance, PTL

-----------------------------------------------------------------------------
(* Addresses. *)

LEMMA SizesAreNatural ==
    /\ SctrPerFrag \in Nat \ {0} /\ SctrPerPage \in Nat \ {0} /\ PagePerFrag \in Nat \ {0}
    /\ SctrPerFrag = PagePerFrag * SctrPerPage
    /\ Word \in Nat \ {0} /\ HeaderSctr \in Nat
  BY FragBitmapAssumption, FragCopyAssumption DEF SctrPerFrag

LEMMA NrFragIsNatural ==
    ASSUME size \in TargetSize
    PROVE  NrFrag \in Nat /\ size \in Nat
  <1>1. size \in Nat \ {0}
    BY FragCopyAssumption
  <1> DEFINE S == SctrPerFrag
  <1>2. S \in Nat \ {0}
    BY SizesAreNatural
  <1> HIDE DEF S
  <1>3. size + S - 1 \in Nat
    BY <1>1, <1>2
  <1>4. (size + S - 1) \div S \in Nat
    BY <1>2, <1>3, DivMod
  <1> QED
    BY <1>1, <1>4 DEF NrFrag, S

\* A population and a hit agree on every address below the wrap.
LEMMA AddressesAgree == IInv => HitReadsDisk
  <1> DEFINE S == SctrPerFrag
             first == lfrag * S
             end == IF first + S < size THEN first + S ELSE size
             place == cfrag * S
  <1> SUFFICES ASSUME IInv, ready, Fits
               PROVE  /\ ssd.at = HeaderSctr + cfrag * S
                      /\ \A psn \in first .. end - 1 : \A last \in psn .. end - 1 :
                           Hit(psn, last) =>
                              \A k \in 0 .. last - psn : Data(CloneStart(psn) + k) = psn + k
    BY DEF HitReadsDisk
  <1>1. /\ lfrag \in 0 .. NrFrag - 1 /\ cfrag \in CacheFrags /\ size \in TargetSize
        /\ ssd = [at |-> WriteStart(cfrag), data |-> FragBuf(lfrag)]
    BY DEF IInv, CopyOK
  <1>2. S \in Nat \ {0} /\ Word \in Nat \ {0} /\ HeaderSctr \in Nat
    BY SizesAreNatural
  <1>3. lfrag \in Nat /\ cfrag \in Nat /\ size \in Nat
    BY <1>1, NrFragIsNatural, FragCopyAssumption
  <1>4. first \in Nat /\ place \in Nat
    <2> HIDE DEF S
    <2> QED
      BY <1>2, <1>3
  <1>5. first < Word /\ place + HeaderSctr < Word
    BY DEF Fits
  <1>6. /\ ReadStart(lfrag) = first /\ WriteStart(cfrag) = place + HeaderSctr
        /\ (place % Word) = place
    <2> HIDE DEF first, place
    <2>1. (first % Word) = first /\ ((place + HeaderSctr) % Word) = place + HeaderSctr /\ (place % Word) = place
      BY <1>2, <1>4, <1>5
    <2> QED
      BY <2>1 DEF ReadStart, WriteStart, first, place
  <1>7. ssd.at = HeaderSctr + place
    <2> HIDE DEF place
    <2> QED
      BY <1>1, <1>2, <1>4, <1>6
  <1>8. ASSUME NEW psn \in first .. end - 1, NEW last \in psn .. end - 1, NEW k \in 0 .. last - psn
        PROVE  Data(CloneStart(psn) + k) = psn + k
    <2> DEFINE d == psn - first
               o == d + k
    <2>1. end \in Nat /\ end <= first + S /\ end <= size
      <3> HIDE DEF first, S
      <3> QED
        BY <1>2, <1>3, <1>4
    <2>2. psn \in Nat /\ k \in Nat /\ d \in 0 .. S - 1 /\ o \in 0 .. S - 1 /\ psn = first + d
          /\ first + o = psn + k /\ psn + k < size
      <3> HIDE DEF first, S, end
      <3> QED
        BY <1>2, <1>3, <1>4, <2>1
    <2>3. (psn % S) = d
      <3>1. psn = lfrag * S + d
        BY <2>2
      <3> HIDE DEF S, d
      <3>2. \A x : x = lfrag * S + d => (x % S) = d
        BY ONLY <1>2, <1>3, <2>2, DivUnique
      <3> QED
        BY <3>1, <3>2
    <2>4. CloneStart(psn) + k = ssd.at + o
      <3>1. CloneStart(psn) = (place % Word) + (psn % S) + HeaderSctr
        BY DEF CloneStart
      <3>2. o = d + k /\ d \in Nat /\ o \in Nat
        BY <2>2
      <3> HIDE DEF place, S, d, o
      <3> QED
        BY <1>2, <1>4, <1>6, <1>7, <2>2, <2>3, <3>1, <3>2
    <2>5. (ssd.at + o) - ssd.at = o
      <3> HIDE DEF place, o
      <3> QED
        BY <1>2, <1>4, <1>7, <2>2
    <2>6. Data(CloneStart(psn) + k) = ssd.data[o]
      <3> HIDE DEF o
      <3> QED
        BY <2>2, <2>4, <2>5 DEF Data
    <2>7. ssd.data[o] = IF o < ReadCount(lfrag) THEN ReadStart(lfrag) + o ELSE None
      <3> HIDE DEF o
      <3> QED
        BY <1>1, <2>2 DEF FragBuf
    <2>8. o < ReadCount(lfrag)
      <3>1. ReadCount(lfrag) = IF first + S >= size THEN size - first ELSE S
        BY <1>6 DEF ReadCount
      <3> HIDE DEF o, first, S, end
      <3> QED
        BY <1>2, <1>3, <1>4, <2>2, <3>1
    <2> QED
      BY <1>6, <2>2, <2>6, <2>7, <2>8
  <1> HIDE DEF first, end
  <1> QED
    BY <1>7, <1>8

\* Population and hit compute the same places: what a hit reads from the SSD
\* is what the target holds at the address asked for, for every size of pages,
\* fragments and targets, as long as the products do not wrap.
THEOREM HitsReadDisk == CSpec => []HitReadsDisk
  BY AddressesAgree, Invariance, PTL

\* Of the last fragment of a target, a hit never covers a sector behind the
\* target's end: unless lun->nr_frag * SCE_SCTRPERFRAG wraps.
HitWithinTarget ==
    ready /\ lfrag = NrFrag - 1 /\ size < LunEnd =>
        LET first == lfrag * SctrPerFrag
        IN  \A psn \in first .. first + SctrPerFrag - 1 :
              \A last \in psn .. first + SctrPerFrag - 1 : Hit(psn, last) => last < size

\* The page of a sector: its number on the target, and in the fragment.
LEMMA SectorPage ==
    ASSUME NEW f \in Nat, NEW x \in f * SctrPerFrag .. f * SctrPerFrag + SctrPerFrag - 1
    PROVE  LET a == (x \div SctrPerPage) % PagePerFrag
           IN  /\ a \in Page
               /\ x \div SctrPerPage = f * PagePerFrag + a
               /\ f * SctrPerFrag + a * SctrPerPage <= x
               /\ x < f * SctrPerFrag + (a + 1) * SctrPerPage
  <1> DEFINE S == SctrPerFrag
             first == f * S
             y == x - first
             a == y \div SctrPerPage
             v == y % SctrPerPage
  <1>1. /\ S \in Nat \ {0} /\ SctrPerPage \in Nat \ {0} /\ PagePerFrag \in Nat \ {0}
        /\ S = PagePerFrag * SctrPerPage
    BY SizesAreNatural
  <1>2. first \in Nat
    <2> HIDE DEF S
    <2> QED
      BY <1>1
  <1>3. y \in 0 .. S - 1 /\ x = first + y
    <2> HIDE DEF first, S
    <2>1. x \in first .. first + S - 1
      BY DEF first, S
    <2> QED
      BY <1>1, <1>2, <2>1
  <1>4. y = a * SctrPerPage + v /\ v \in 0 .. SctrPerPage - 1 /\ a \in Nat
    <2> HIDE DEF S, first, y
    <2>1. y \in Nat
      BY <1>1, <1>3
    <2> QED
      BY ONLY <1>1, <2>1, DivMod
  <1> HIDE DEF a, v, y
  <1>5. a * SctrPerPage \in Nat /\ (a + 1) * SctrPerPage = a * SctrPerPage + SctrPerPage
    BY <1>1, <1>4
  <1>6. a \in 0 .. PagePerFrag - 1
    <2>1. PagePerFrag <= a => PagePerFrag * SctrPerPage <= a * SctrPerPage
      BY <1>1, <1>4
    <2> HIDE DEF S
    <2> QED
      BY <1>1, <1>3, <1>4, <1>5, <2>1
  <1>7. x = (f * PagePerFrag + a) * SctrPerPage + v /\ f * PagePerFrag + a \in Nat
    <2>1. (f * PagePerFrag + a) * SctrPerPage = (f * PagePerFrag) * SctrPerPage + a * SctrPerPage
      BY <1>1, <1>4
    <2>2. (f * PagePerFrag) * SctrPerPage = f * (PagePerFrag * SctrPerPage)
      BY <1>1
    <2>3. first = (f * PagePerFrag) * SctrPerPage
      BY <1>1, <2>2
    <2>4. f * PagePerFrag \in Nat
      BY <1>1
    <2> HIDE DEF first
    <2> QED
      BY <1>2, <1>3, <1>4, <1>5, <2>1, <2>3, <2>4
  <1> DEFINE q == f * PagePerFrag + a
  <1>8. x \div SctrPerPage = q
    <2>1. q \in Nat /\ x = q * SctrPerPage + v
      BY <1>7
    <2> HIDE DEF q
    <2>2. \A z : z = q * SctrPerPage + v => z \div SctrPerPage = q
      BY ONLY <1>1, <1>4, <2>1, DivUnique
    <2> QED
      BY <2>1, <2>2
  <1>9. (q % PagePerFrag) = a
    <2>1. \A z : z = f * PagePerFrag + a => (z % PagePerFrag) = a
      BY ONLY <1>1, <1>6, DivUnique
    <2> QED
      BY <2>1
  <1>10. first + a * SctrPerPage <= x /\ x < first + (a + 1) * SctrPerPage
    <2> HIDE DEF first
    <2> QED
      BY <1>1, <1>2, <1>3, <1>4, <1>5
  <1>11. (x \div SctrPerPage) % PagePerFrag = a
    BY <1>8, <1>9
  <1> QED
    BY <1>6, <1>8, <1>10, <1>11 DEF Page

LEMMA HitsStayWithin == IInv => HitWithinTarget
  <1> DEFINE S == SctrPerFrag
             first == lfrag * S
             P == Padding(lfrag)
  <1> SUFFICES ASSUME IInv, ready, lfrag = NrFrag - 1, size < LunEnd,
                      NEW psn \in first .. first + S - 1, NEW last \in psn .. first + S - 1,
                      Hit(psn, last)
               PROVE  last < size
    BY DEF HitWithinTarget
  <1> DEFINE a == (psn \div SctrPerPage) % PagePerFrag
             b == (last \div SctrPerPage) % PagePerFrag
             n == (last \div SctrPerPage) - (psn \div SctrPerPage) + 1
  <1>1. /\ S \in Nat \ {0} /\ SctrPerPage \in Nat \ {0} /\ PagePerFrag \in Nat \ {0}
    BY SizesAreNatural
  <1>2. /\ lfrag \in 0 .. NrFrag - 1 /\ size \in TargetSize /\ BitmapOK
        /\ Run(PagePerFrag - P, P) \subseteq invalid
    BY DEF IInv, CopyOK
  <1>3. lfrag \in Nat /\ size \in Nat
    BY <1>2, NrFragIsNatural
  <1>4. first \in Nat
    <2> HIDE DEF S
    <2> QED
      BY <1>1, <1>3
  <1>5. last \in first .. first + S - 1 /\ psn <= last
    <2> HIDE DEF first, S
    <2> QED
      BY <1>1, <1>4
  <1>6. /\ a \in Page /\ psn \div SctrPerPage = lfrag * PagePerFrag + a
        /\ first + a * SctrPerPage <= psn
    BY <1>3, SectorPage
  <1>7. /\ b \in Page /\ last \div SctrPerPage = lfrag * PagePerFrag + b
        /\ last < first + (b + 1) * SctrPerPage
    BY <1>3, <1>5, SectorPage
  <1>8. n = b - a + 1
    <2> DEFINE m == lfrag * PagePerFrag
    <2>1. m \in Nat
      BY <1>1, <1>3
    <2>2. psn \div SctrPerPage = m + a /\ last \div SctrPerPage = m + b
      BY <1>6, <1>7
    <2>3. n = (m + b) - (m + a) + 1
      BY <2>2
    <2> HIDE DEF m, a, b, n
    <2> QED
      BY <1>6, <1>7, <2>1, <2>3 DEF Page
  <1>9. a <= b
    <2> HIDE DEF a, b, first, S
    <2>1. a \in Nat /\ b \in Nat
      BY <1>6, <1>7 DEF Page
    <2>2. b < a => (b + 1) * SctrPerPage <= a * SctrPerPage
      BY <1>1, <2>1
    <2>3. a * SctrPerPage \in Nat /\ (b + 1) * SctrPerPage \in Nat
      BY <1>1, <2>1
    <2>4. psn \in Nat /\ last \in Nat
      BY <1>4, <1>5
    <2> QED
      BY <1>4, <1>5, <1>6, <1>7, <2>1, <2>2, <2>3, <2>4
  <1>10. <<a, n>> \in Ranges
    <2> HIDE DEF a, b, n
    <2>1. n \in 1 .. PagePerFrag /\ a + n <= PagePerFrag
      BY <1>1, <1>6, <1>7, <1>8, <1>9 DEF Page
    <2> QED
      BY <1>6, <2>1 DEF Ranges
  <1>11. CheckBitmap(a, n)
    BY DEF Hit
  <1>12. (a .. a + n - 1) \cap invalid = {}
    <2> HIDE DEF a, n
    <2>1. ChecksRange
      BY <1>2, BitmapChecks
    <2>2. CheckBitmap(<<a, n>>[1], <<a, n>>[2])
            <=> (<<a, n>>[1] .. <<a, n>>[1] + <<a, n>>[2] - 1) \cap invalid = {}
      BY <1>10, <2>1 DEF ChecksRange
    <2> QED
      BY <1>11, <2>2
  <1>13. b \notin invalid
    <2> HIDE DEF a, b, n
    <2>1. b \in a .. a + n - 1
      BY <1>6, <1>7, <1>8, <1>9 DEF Page
    <2> QED
      BY <1>12, <2>1
  <1>14. /\ P \in 0 .. PagePerFrag
         /\ first + (PagePerFrag - P) * SctrPerPage <= size
    BY <1>2, PaddingFits
  <1>15. b + 1 <= PagePerFrag - P
    <2> HIDE DEF b, P
    <2>1. b \notin Run(PagePerFrag - P, P)
      BY <1>2, <1>13
    <2> QED
      BY <1>1, <1>7, <1>14, <2>1 DEF Run, Page
  <1> DEFINE c == PagePerFrag - P
  <1>16. (b + 1) * SctrPerPage <= c * SctrPerPage
    <2>1. c \in Nat /\ b + 1 \in Nat /\ b + 1 <= c
      <3> HIDE DEF b, P
      <3> QED
        BY <1>1, <1>7, <1>14, <1>15 DEF Page
    <2> HIDE DEF b, c
    <2> QED
      BY <1>1, <2>1
  <1>17. (b + 1) * SctrPerPage \in Nat /\ c * SctrPerPage \in Nat /\ last \in Nat
    <2>1. c \in Nat /\ b + 1 \in Nat
      <3> HIDE DEF b, P
      <3> QED
        BY <1>1, <1>7, <1>14 DEF Page
    <2>2. last \in Nat
      <3> HIDE DEF first, S
      <3> QED
        BY <1>4, <1>5
    <2> HIDE DEF b, c
    <2> QED
      BY <1>1, <2>1, <2>2
  <1>18. first + c * SctrPerPage <= size
    BY <1>14
  <1> HIDE DEF b, c, first
  <1> QED
    BY <1>3, <1>4, <1>7, <1>16, <1>17, <1>18

\* The pages that the target does not fill are invalid from the mapping on and
\* stay so: no hit serves what an earlier population left behind in the buffer.
THEOREM HitsWithinTarget == CSpec => []HitWithinTarget
  BY HitsStayWithin, Invariance, PTL
=============================================================================
