------------------------ MODULE ExecutorCodecProofs ------------------------
(***************************************************************************)
(* Proofs about ExecutorCodec, for fields and buffers of any size.         *)
(***************************************************************************)
EXTENDS ExecutorCodec, Sums, FiniteSetTheorems, SequenceTheorems,
        TLAPS

-----------------------------------------------------------------------------
(* Counting up, a property being given as the set G of those that have it.  *)

\* What holds of zero and of each number after one it holds of, holds up to n.
LEMMA CountUp ==
  ASSUME NEW n \in Nat, NEW G, 0 \in G,
         \A k \in 1..n : k - 1 \in G => k \in G
  PROVE  \A k \in 0..n : k \in G
<1> DEFINE H == {T \in SUBSET (1..n) : \A k \in 0..n : T = 1..k => k \in G}
<1>1. ASSUME NEW T \in SUBSET (1..n), \A U \in SUBSET T : U # T => U \in H
      PROVE  T \in H
  <2> SUFFICES ASSUME NEW k \in 0..n, T = 1..k PROVE k \in G
    OBVIOUS
  <2>1. CASE k = 0
    BY <2>1
  <2>2. CASE k # 0
    <3>1. k - 1 \in 0..n /\ k \in 1..n
      BY <2>2
    <3>2. 1..(k - 1) \in SUBSET T /\ 1..(k - 1) # T
      BY <2>2
    <3>3. 1..(k - 1) \in H
      BY <1>1, <3>2
    <3>4. QED
      BY <3>1, <3>3
  <2>3. QED
    BY <2>1, <2>2
<1>2. IsFiniteSet(1..n)
  BY FS_Interval
<1> HIDE DEF H
<1>3. \A T \in SUBSET (1..n) : T \in H
  BY <1>1, <1>2, FiniteInduction
<1>4. ASSUME NEW k \in 0..n PROVE k \in G
  <2>1. 1..k \in SUBSET (1..n)
    OBVIOUS
  <2>2. QED
    BY <1>3, <2>1 DEF H
<1>5. QED
  BY <1>4

\* A loop of n rounds, each a step from values to values, can be run.
Runs(f, n, base, step) ==
  f[0] = base /\ \A k \in 1..n : f[k] = step[f[k - 1]][k]

\* A step that stays in V can be made n times.
LEMMA LoopRuns ==
  ASSUME NEW n \in Nat, NEW V, NEW base \in V, NEW step,
         \A v \in V, k \in 1..n : step[v][k] \in V
  PROVE  \E f \in [0..n -> V] : Runs(f, n, base, step)
<1> DEFINE G == {m \in 0..n : \E f \in [0..m -> V] : Runs(f, m, base, step)}
<1>1. 0 \in G
  <2>1. Runs([k \in 0..0 |-> base], 0, base, step)
    BY DEF Runs
  <2>2. QED
    BY <2>1
<1>2. ASSUME NEW m \in 1..n, m - 1 \in G PROVE m \in G
  <2>1. PICK f \in [0..(m - 1) -> V] : Runs(f, m - 1, base, step)
    BY <1>2
  <2> DEFINE last == step[f[m - 1]][m]
             g == [k \in 0..m |-> IF k = m THEN last ELSE f[k]]
  <2>2. last \in V
    BY <2>1
  <2>3. g \in [0..m -> V]
    BY <2>1, <2>2
  <2>4. g[0] = base /\ g[m] = last /\ \A k \in 0..(m - 1) : g[k] = f[k]
    BY <2>1 DEF Runs
  <2> HIDE DEF g
  <2>5. ASSUME NEW k \in 1..m PROVE g[k] = step[g[k - 1]][k]
    <3>1. CASE k = m
      BY <2>4, <3>1
    <3>2. CASE k # m
      BY <2>1, <2>4, <3>2 DEF Runs
    <3>3. QED
      BY <3>1, <3>2
  <2>6. QED
    BY <2>3, <2>4, <2>5 DEF Runs
<1> HIDE DEF G
<1>3. n \in G
  BY <1>1, <1>2, CountUp
<1>4. QED
  BY <1>3 DEF G

-----------------------------------------------------------------------------
(* Numbers and their bytes.                                                 *)

\* Bytes are naturals below 256.
LEMMA BytesAre ==
  ASSUME NEW bytes \in Seq(Byte)
  PROVE  /\ Len(bytes) \in Nat
         /\ \A k \in 1..Len(bytes) : bytes[k] \in 0..255 /\ bytes[k] \in Nat
<1>1. Len(bytes) \in Nat
  BY LenProperties
<1>2. ASSUME NEW k \in 1..Len(bytes)
      PROVE  bytes[k] \in 0..255 /\ bytes[k] \in Nat
  <2>1. bytes[k] \in Byte
    BY ElementOfSeq
  <2>2. \A x \in Byte : x \in 0..255 /\ x \in Nat
    BY DEF Byte
  <2>3. QED
    BY <2>1, <2>2
<1>3. QED
  BY <1>1, <1>2

IsBig(f, bytes) ==
  f = [k \in 0..Len(bytes) |-> IF k = 0 THEN 0 ELSE 256 * f[k - 1] + bytes[k]]

\* The recursive function in Big is the one chosen by its equation.
LEMMA BigIs ==
  ASSUME NEW bytes
  PROVE  Big(bytes) = (CHOOSE f : IsBig(f, bytes))[Len(bytes)]
BY DEF Big, IsBig

\* A number is read byte by byte, each after what is before it times 256.
LEMMA BigReads ==
  ASSUME NEW bytes \in Seq(Byte)
  PROVE  \E f \in [0..Len(bytes) -> Nat] :
           /\ f[0] = 0 /\ Big(bytes) = f[Len(bytes)]
           /\ \A k \in 1..Len(bytes) : f[k] = 256 * f[k - 1] + bytes[k]
<1> DEFINE n == Len(bytes)
           step == [v \in Nat |-> [k \in 1..n |-> 256 * v + bytes[k]]]
           chosen == CHOOSE f : IsBig(f, bytes)
<1>1. n \in Nat /\ \A k \in 1..n : bytes[k] \in Nat
  BY BytesAre
<1>2. \A v \in Nat, k \in 1..n : step[v][k] = 256 * v + bytes[k]
  OBVIOUS
<1>3. \A v \in Nat, k \in 1..n : step[v][k] \in Nat
  BY <1>1, <1>2
<1> HIDE DEF step
<1>4. PICK f \in [0..n -> Nat] : Runs(f, n, 0, step)
  <2> HIDE DEF n
  <2> QED BY <1>1, <1>3, LoopRuns
<1>5. f = [k \in 0..n |-> IF k = 0 THEN 0 ELSE 256 * f[k - 1] + bytes[k]]
  <2>1. ASSUME NEW k \in 0..n
        PROVE  f[k] = IF k = 0 THEN 0 ELSE 256 * f[k - 1] + bytes[k]
    <3>1. CASE k = 0
      BY <1>4, <3>1 DEF Runs
    <3>2. CASE k # 0
      <4>1. k \in 1..n /\ k - 1 \in 0..n /\ f[k - 1] \in Nat
        BY <1>1, <1>4, <3>2, SMTT(40)
      <4>2. f[k] = step[f[k - 1]][k]
        BY <1>4, <4>1, Zenon DEF Runs
      <4>3. QED
        BY <1>2, <3>2, <4>1, <4>2, ZenonT(60)
    <3>3. QED
      BY <3>1, <3>2
  <2>2. QED
    BY <1>4, <2>1
<1>6. IsBig(f, bytes)
  BY <1>5 DEF IsBig
<1>7. IsBig(chosen, bytes)
  BY <1>6
<1> HIDE DEF chosen
<1>8. /\ chosen[0] = 0
      /\ \A k \in 1..n : chosen[k] = 256 * chosen[k - 1] + bytes[k]
      /\ DOMAIN chosen = 0..n
  BY <1>7 DEF IsBig
<1> DEFINE G == {k \in 0..n : chosen[k] \in Nat}
<1>9. 0 \in G /\ \A k \in 1..n : k - 1 \in G => k \in G
  BY <1>1, <1>8
<1>10. \A k \in 0..n : k \in G
  <2> HIDE DEF G, n
  <2> QED BY <1>1, <1>9, CountUp
<1>11. chosen \in [0..n -> Nat]
  BY <1>7, <1>10 DEF IsBig
<1>12. Big(bytes) = chosen[n]
  BY BigIs DEF chosen
<1>13. QED
  BY <1>8, <1>11, <1>12

\* A quotient is known by its remainder.
LEMMA DivideOnce ==
  ASSUME NEW n \in Nat, NEW d \in Nat, d > 0,
         NEW a \in Nat, NEW e \in 0..(d - 1),
         n = d * a + e
  PROVE  n \div d = a
OBVIOUS

Over(n, d) == n \div d

\* Dividing by 256 times p is dividing by p, then by 256.
LEMMA DivideTwice ==
  ASSUME NEW n \in Nat, NEW p \in Nat, p > 0
  PROVE  Over(n, 256 * p) = Over(Over(n, p), 256)
<1>1. PICK q \in Nat, r \in 0..(p - 1) : q = n \div p /\ n = p * q + r
  OBVIOUS
<1>2. PICK a \in Nat, b \in 0..255 : a = q \div 256 /\ q = 256 * a + b
  OBVIOUS
<1>3. PICK e \in Nat : e = p * b + r /\ e < 256 * p
  OBVIOUS
<1>4. n = 256 * (p * a) + e
  BY <1>1, <1>2, <1>3
<1>5. QED
  <2>1. n \div (256 * p) = a
    BY <1>3, <1>4, DivideOnce
  <2>2. QED
    BY <1>1, <1>2, <2>1 DEF Over

IsPow256(f) == f = [k \in 0..U128 |-> IF k = 0 THEN 1 ELSE 256 * f[k - 1]]

\* There are powers of 256.
LEMMA PowersAre == IsPow256(Pow256)
<1> DEFINE step == [v \in Nat |-> [k \in 1..U128 |-> 256 * v]]
<1>1. U128 \in Nat
  BY CodecAssumption
<1>2. \A v \in Nat, k \in 1..U128 : step[v][k] = 256 * v
  OBVIOUS
<1>3. \A v \in Nat, k \in 1..U128 : step[v][k] \in Nat
  BY <1>2
<1> HIDE DEF step
<1>4. PICK f \in [0..U128 -> Nat] : Runs(f, U128, 1, step)
  <2>1. PICK one \in Nat : one = 1
    OBVIOUS
  <2>2. \E f \in [0..U128 -> Nat] : Runs(f, U128, one, step)
    BY <1>1, <1>3, LoopRuns
  <2>3. QED
    BY <2>1, <2>2
<1>5. ASSUME NEW k \in 0..U128
      PROVE  f[k] = IF k = 0 THEN 1 ELSE 256 * f[k - 1]
  <2>1. CASE k = 0
    BY <1>4, <2>1 DEF Runs
  <2>2. CASE k # 0
    <3>1. k \in 1..U128 /\ k - 1 \in 0..U128
      BY <1>1, <2>2
    <3>2. f[k - 1] \in Nat /\ f[k] = step[f[k - 1]][k]
      BY <1>4, <3>1 DEF Runs
    <3>3. QED
      BY <1>2, <2>2, <3>1, <3>2, ZenonT(60)
  <2>3. QED
    BY <2>1, <2>2
<1>6. IsPow256(f)
  BY <1>4, <1>5 DEF IsPow256
<1>7. Pow256 = CHOOSE g : IsPow256(g)
  BY DEF Pow256, IsPow256
<1>8. QED
  BY <1>6, <1>7

\* What they are for a field.
LEMMA Powers ==
  ASSUME NEW width \in Widths
  PROVE  /\ width \in Nat \ {0} /\ Pow256[0] = 1
         /\ \A k \in 0..width : Pow256[k] \in Nat /\ Pow256[k] > 0
         /\ \A k \in 1..width : Pow256[k] = 256 * Pow256[k - 1]
<1> DEFINE G == {k \in 0..width : Pow256[k] \in Nat /\ Pow256[k] > 0}
<1>1. width \in Nat \ {0} /\ U128 \in Nat /\ width <= U128
  BY CodecAssumption
<1>2. \A k \in 0..U128 : Pow256[k] = IF k = 0 THEN 1 ELSE 256 * Pow256[k - 1]
  BY PowersAre DEF IsPow256
<1>3. Pow256[0] = 1 /\ \A k \in 1..width : Pow256[k] = 256 * Pow256[k - 1]
  BY <1>1, <1>2
<1>4. 0 \in G /\ \A k \in 1..width : k - 1 \in G => k \in G
  BY <1>1, <1>3
<1>5. \A k \in 0..width : k \in G
  <2> HIDE DEF G
  <2> QED BY <1>1, <1>4, CountUp
<1>6. QED
  BY <1>1, <1>3, <1>5

\* A number's bytes, each by its place.
LEMMA BytesType ==
  ASSUME NEW n \in Nat, NEW width \in Widths
  PROVE  /\ Bytes(n, width) \in Seq(Byte) /\ Len(Bytes(n, width)) = width
         /\ \A i \in 1..width :
              Bytes(n, width)[i] = (n \div Pow256[width - i]) % 256
<1>1. width \in Nat
  BY Powers
<1>2. ASSUME NEW i \in 1..width
      PROVE  (n \div Pow256[width - i]) % 256 \in Byte
  <2>1. width - i \in 0..width
    BY <1>1
  <2>2. PICK p \in Nat : p = Pow256[width - i] /\ p > 0
    BY <2>1, Powers
  <2>3. (n \div p) % 256 \in 0..255
    BY <2>2
  <2>4. QED
    BY <2>2, <2>3 DEF Byte
<1>3. QED
  BY <1>1, <1>2 DEF Bytes

\* A number that fits a field is read back from it.
LEMMA BigOfBytes ==
  ASSUME NEW n \in Nat, NEW width \in Widths, n < Pow256[width]
  PROVE  Big(Bytes(n, width)) = n
<1> DEFINE s == Bytes(n, width)
<1>1. s \in Seq(Byte) /\ Len(s) = width /\ width \in Nat
  BY BytesType, Powers
<1>2. PICK f \in [0..width -> Nat] :
        /\ f[0] = 0 /\ Big(s) = f[width]
        /\ \A k \in 1..width : f[k] = 256 * f[k - 1] + s[k]
  <2> HIDE DEF s
  <2>1. PICK f \in [0..Len(s) -> Nat] :
          /\ f[0] = 0 /\ Big(s) = f[Len(s)]
          /\ \A k \in 1..Len(s) : f[k] = 256 * f[k - 1] + s[k]
    BY <1>1, BigReads
  <2>2. 0..Len(s) = 0..width /\ f[Len(s)] = f[width]
    BY <1>1, Zenon
  <2>3. f \in [0..width -> Nat] /\ Big(s) = f[width]
    BY <2>1, <2>2
  <2>4. \A k \in 1..width : f[k] = 256 * f[k - 1] + s[k]
    BY <1>1, <2>1
  <2>5. QED
    BY <2>1, <2>3, <2>4
<1> DEFINE G == {k \in 0..width : f[k] = n \div Pow256[width - k]}
<1>3. 0 \in G
  <2>1. PICK p \in Nat : p = Pow256[width] /\ p > 0
    BY <1>1, Powers
  <2>2. n \div p = 0
    BY <2>1
  <2>3. QED
    BY <1>1, <1>2, <2>1, <2>2
<1>4. ASSUME NEW k \in 1..width, k - 1 \in G PROVE k \in G
  <2>1. width - k \in 0..width /\ width - (k - 1) \in 1..width
    BY <1>1
  <2>2. PICK p \in Nat : p = Pow256[width - k] /\ p > 0
    BY <2>1, Powers, SMTT(40)
  <2>3. Pow256[width - (k - 1)] = 256 * p
    <3>1. \A j \in 1..width : Pow256[j] = 256 * Pow256[j - 1]
      BY Powers
    <3>2. width - (k - 1) - 1 = width - k
      BY <1>1
    <3>3. QED
      BY <2>1, <2>2, <3>1, <3>2
  <2>4. PICK q \in Nat : q = n \div p /\ n \div (256 * p) = q \div 256
    <3>1. p > 0
      BY <2>2
    <3>2. n \div p \in Nat
      BY <3>1
    <3>3. Over(n, 256 * p) = Over(Over(n, p), 256)
      BY <3>1, DivideTwice
    <3>4. QED
      BY <3>2, <3>3, ZenonT(60) DEF Over
  <2>5. f[k - 1] = q \div 256
    BY <1>4, <2>3, <2>4
  <2>6. s[k] = q % 256
    BY <2>2, <2>4, BytesType
  <2>7. f[k] = 256 * (q \div 256) + (q % 256)
    BY <1>2, <2>5, <2>6
  <2>8. f[k] = q
    BY <2>7
  <2>9. QED
    BY <1>1, <2>2, <2>4, <2>8
<1>5. width \in G
  <2>1. \A k \in 0..width : k \in G
    <3> HIDE DEF G
    <3> QED BY <1>1, <1>3, <1>4, CountUp
  <2>2. QED
    BY <1>1, <2>1
<1>6. n \div 1 = n
  OBVIOUS
<1>7. Pow256[width - width] = 1
  BY <1>1, Powers
<1>8. QED
  BY <1>2, <1>5, <1>6, <1>7

AddedUp(f, s, width) ==
  /\ f[0] = 0
  /\ \A k \in 1..width : s[k] \in 0..255 /\ f[k] = 256 * f[k - 1] + s[k]

\* What is added up byte by byte has these bytes for its digits.
LEMMA DigitsOfNumber ==
  ASSUME NEW width \in Widths, NEW f \in [0..width -> Nat], NEW s,
         AddedUp(f, s, width)
  PROVE  /\ f[width] < Pow256[width]
         /\ \A i \in 1..width :
              (f[width] \div Pow256[width - i]) % 256 = s[i]
<1>1. width \in Nat
  BY Powers
<1>2. ASSUME NEW k \in 1..width
      PROVE  \E a \in Nat, b \in 0..255 :
               a = f[k - 1] /\ b = s[k] /\ f[k] = 256 * a + b
  <2>1. k - 1 \in 0..width
    BY <1>1
  <2>2. f[k - 1] \in Nat
    BY <2>1
  <2>3. s[k] \in 0..255 /\ f[k] = 256 * f[k - 1] + s[k]
    BY DEF AddedUp
  <2>4. PICK a \in Nat : a = f[k - 1]
    BY <2>2
  <2>5. PICK b \in 0..255 : b = s[k]
    BY <2>3
  <2>6. f[k] = 256 * a + b
    BY <2>3, <2>4, <2>5
  <2>7. QED
    BY <2>4, <2>5, <2>6, ZenonT(60)
<1>3. /\ Pow256[0] = 1
      /\ \A k \in 0..width : Pow256[k] \in Nat /\ Pow256[k] > 0
      /\ \A k \in 1..width : Pow256[k] = 256 * Pow256[k - 1]
  BY Powers
<1> DEFINE F == {k \in 0..width : f[k] < Pow256[k]}
           N == f[width]
           G == {k \in 0..width : N \div Pow256[k] = f[width - k]}
<1>4. width \in F
  <2>1. 0 \in F
    BY <1>1, <1>3 DEF AddedUp
  <2>2. ASSUME NEW k \in 1..width, k - 1 \in F PROVE k \in F
    <3>1. PICK p \in Nat : p = Pow256[k - 1] /\ Pow256[k] = 256 * p
      <4>1. k - 1 \in 0..width
        BY <1>1
      <4>2. QED
        BY <1>3, <4>1, SMTT(40)
    <3>2. PICK a \in Nat, b \in 0..255 :
            a = f[k - 1] /\ b = s[k] /\ f[k] = 256 * a + b
      BY <1>2, ZenonT(60)
    <3>3. a < p
      BY <2>2, <3>1, <3>2
    <3>4. 256 * a + b < 256 * p
      BY <3>3
    <3>5. QED
      BY <3>1, <3>2, <3>4
  <2>3. \A k \in 0..width : k \in F
    <3> HIDE DEF F
    <3> QED BY <1>1, <2>1, <2>2, CountUp
  <2>4. QED
    BY <1>1, <2>3
<1>5. \A k \in 0..width : k \in G
  <2>1. 0 \in G
    <3>1. N \in Nat /\ N \div 1 = N
      BY <1>1
    <3>2. QED
      BY <1>1, <1>3, <3>1
  <2>2. ASSUME NEW k \in 1..width, k - 1 \in G PROVE k \in G
    <3>1. PICK p \in Nat : p = Pow256[k - 1] /\ p > 0 /\ Pow256[k] = 256 * p
      <4>1. k - 1 \in 0..width
        BY <1>1
      <4>2. QED
        BY <1>3, <4>1
    <3>2. N \in Nat
      BY <1>1
    <3>3. PICK j \in 1..width : j = width - (k - 1) /\ width - k = j - 1
      BY <1>1, SMTT(40)
    <3>4. PICK a \in Nat, b \in 0..255 :
            a = f[j - 1] /\ b = s[j] /\ f[j] = 256 * a + b
      BY <1>2, ZenonT(60)
    <3> HIDE DEF N
    <3>5. Over(N, p) = 256 * a + b
      BY <2>2, <3>1, <3>3, <3>4 DEF Over
    <3>6. Over(N, 256 * p) = a
      <4>1. p > 0
        BY <3>1
      <4>2. Over(N, 256 * p) = Over(Over(N, p), 256)
        BY <3>2, <4>1, DivideTwice
      <4>3. Over(256 * a + b, 256) = a
        BY DEF Over
      <4>4. QED
        BY <3>5, <4>2, <4>3
    <3>7. QED
      BY <3>1, <3>3, <3>4, <3>6 DEF Over
  <2>3. QED
    <3> HIDE DEF G
    <3> QED BY <1>1, <2>1, <2>2, CountUp
<1>6. ASSUME NEW i \in 1..width PROVE (N \div Pow256[width - i]) % 256 = s[i]
  <2>1. width - i \in 0..width /\ width - (width - i) = i
    BY <1>1
  <2>2. N \div Pow256[width - i] = f[i]
    BY <1>5, <2>1
  <2>3. PICK a \in Nat, b \in 0..255 :
          a = f[i - 1] /\ b = s[i] /\ f[i] = 256 * a + b
    BY <1>2, ZenonT(60)
  <2>4. (256 * a + b) % 256 = b
    OBVIOUS
  <2>5. QED
    BY <2>2, <2>3, <2>4
<1>7. QED
  BY <1>1, <1>3, <1>4, <1>6

\* Bytes are written back from the number they are read as, which fits.
LEMMA BytesOfBig ==
  ASSUME NEW s \in Seq(Byte), NEW width \in Widths, Len(s) = width
  PROVE  /\ Big(s) \in Nat /\ Big(s) < Pow256[width]
         /\ Bytes(Big(s), width) = s
<1>1. width \in Nat
  BY Powers
<1>2. \A k \in 1..width : s[k] \in 0..255
  BY BytesAre
<1>3. PICK f \in [0..width -> Nat] :
        /\ f[0] = 0 /\ Big(s) = f[width]
        /\ \A k \in 1..width : f[k] = 256 * f[k - 1] + s[k]
  BY BigReads, SMTT(40)
<1>4. PICK N \in Nat : N = f[width]
  BY <1>1
<1>5. /\ f[width] < Pow256[width]
      /\ \A i \in 1..width :
           (f[width] \div Pow256[width - i]) % 256 = s[i]
  <2>1. AddedUp(f, s, width)
    BY <1>2, <1>3 DEF AddedUp
  <2>2. QED
    BY <2>1, DigitsOfNumber
<1>6. Bytes(N, width) = s
  <2>1. /\ Bytes(N, width) \in Seq(Byte) /\ Len(Bytes(N, width)) = width
        /\ \A i \in 1..width :
             Bytes(N, width)[i] = (N \div Pow256[width - i]) % 256
    BY BytesType
  <2>2. \A i \in 1..width : Bytes(N, width)[i] = s[i]
    BY <1>4, <1>5, <2>1
  <2>3. QED
    BY <2>1, <2>2, SeqEqual
<1>7. QED
  BY <1>3, <1>4, <1>5, <1>6

-----------------------------------------------------------------------------
(* Hex.                                                                    *)

\* No buffer and no text is an exception, nor Nothing.
LEMMA NotThrows ==
  /\ \A s \in Seq(Byte) : s # Throws /\ s # Nothing
  /\ \A s \in Seq(Digit) : s # Throws /\ s # Nothing
<1>1. /\ Byte \subseteq Nat /\ Digit \subseteq Nat
      /\ Throws \notin Seq(Nat) /\ Nothing \notin Seq(Nat)
  BY ValueAssumption DEF Byte, Digit
<1>2. QED
  BY <1>1, SeqMonotonic

\* Digits are naturals below 16.
LEMMA DigitsAre ==
  ASSUME NEW digits \in Seq(Digit)
  PROVE  /\ Len(digits) \in Nat
         /\ \A k \in 1..Len(digits) : digits[k] \in 0..15
<1>1. Len(digits) \in Nat
  BY LenProperties
<1>2. ASSUME NEW k \in 1..Len(digits) PROVE digits[k] \in 0..15
  <2>1. digits[k] \in Digit
    BY ElementOfSeq
  <2>2. QED
    BY <2>1 DEF Digit
<1>3. QED
  BY <1>1, <1>2

\* Digits make bytes two by two.
LEMMA BufferOf ==
  ASSUME NEW digits \in Seq(Digit), digits # <<>>
  PROVE  /\ hexToBuffer(digits) \in Seq(Byte)
         /\ Len(hexToBuffer(digits)) = Len(digits) \div 2
         /\ \A i \in 1..(Len(digits) \div 2) :
              hexToBuffer(digits)[i] = 16 * digits[2 * i - 1] + digits[2 * i]
<1>1. PICK n \in Nat : n = Len(digits) \div 2 /\ 2 * n <= Len(digits)
  BY DigitsAre
<1>2. ASSUME NEW i \in 1..n
      PROVE  16 * digits[2 * i - 1] + digits[2 * i] \in Byte
  <2>1. 2 * i - 1 \in 1..Len(digits) /\ 2 * i \in 1..Len(digits)
    BY <1>1, DigitsAre
  <2>2. digits[2 * i - 1] \in 0..15 /\ digits[2 * i] \in 0..15
    BY <2>1, DigitsAre
  <2>3. \A a, b \in 0..15 : 16 * a + b \in 0..255
    OBVIOUS
  <2>4. QED
    BY <2>2, <2>3 DEF Byte
<1>3. hexToBuffer(digits) =
        [i \in 1..n |-> 16 * digits[2 * i - 1] + digits[2 * i]]
  BY <1>1 DEF hexToBuffer
<1>4. QED
  BY <1>1, <1>2, <1>3

\* The text of a buffer holds two digits for every byte.
LEMMA HexOf ==
  ASSUME NEW bytes \in Seq(Byte)
  PROVE  /\ uint8ArrayToHex(bytes) \in Seq(Digit)
         /\ Len(uint8ArrayToHex(bytes)) = 2 * Len(bytes)
         /\ \A i \in 1..Len(bytes) :
              /\ uint8ArrayToHex(bytes)[2 * i - 1] = bytes[i] \div 16
              /\ uint8ArrayToHex(bytes)[2 * i] = bytes[i] % 16
<1> DEFINE n == Len(bytes)
           digit(k) == IF k % 2 = 1 THEN bytes[(k + 1) \div 2] \div 16
                                    ELSE bytes[k \div 2] % 16
           h == [k \in 1..(2 * n) |-> digit(k)]
<1>1. n \in Nat /\ \A k \in 1..n : bytes[k] \in 0..255
  BY BytesAre
<1>2. ASSUME NEW i \in 1..n
      PROVE  /\ digit(2 * i - 1) = bytes[i] \div 16
             /\ digit(2 * i) = bytes[i] % 16
  <2>1. /\ (2 * i - 1) % 2 = 1 /\ (2 * i) % 2 = 0
        /\ (2 * i - 1 + 1) \div 2 = i /\ (2 * i) \div 2 = i
    OBVIOUS
  <2>2. QED
    BY <2>1
<1>3. ASSUME NEW k \in 1..(2 * n) PROVE digit(k) \in Digit
  <2>1. \A b \in 0..255 : b \div 16 \in 0..15 /\ b % 16 \in 0..15
    OBVIOUS
  <2>2. PICK i \in 1..n : k = 2 * i - 1 \/ k = 2 * i
    <3>1. CASE k % 2 = 1
      <4>1. (k + 1) \div 2 \in 1..n /\ k = 2 * ((k + 1) \div 2) - 1
        BY <1>1, <3>1
      <4>2. QED
        BY <4>1
    <3>2. CASE k % 2 # 1
      <4>1. k \div 2 \in 1..n /\ k = 2 * (k \div 2)
        BY <1>1, <3>2
      <4>2. QED
        BY <4>1
    <3>3. QED
      BY <3>1, <3>2
  <2>3. digit(k) = bytes[i] \div 16 \/ digit(k) = bytes[i] % 16
    <3> HIDE DEF digit
    <3> QED BY <1>2, <2>2
  <2>4. bytes[i] \in 0..255
    BY <1>1
  <2>5. bytes[i] \div 16 \in Digit /\ bytes[i] % 16 \in Digit
    BY <2>1, <2>4 DEF Digit
  <2> HIDE DEF digit
  <2>6. QED
    BY <2>3, <2>5
<1>4. uint8ArrayToHex(bytes) = h
  BY DEF uint8ArrayToHex
<1> HIDE DEF digit, n
<1>5. h \in Seq(Digit) /\ Len(h) = 2 * n
  BY <1>1, <1>3
<1>6. \A i \in 1..n : 2 * i - 1 \in 1..(2 * n) /\ 2 * i \in 1..(2 * n)
  BY <1>1
<1>7. QED
  BY <1>2, <1>4, <1>5, <1>6 DEF n

\* Hex is read back.
LEMMA BufferOfHex ==
  ASSUME NEW bytes \in Seq(Byte), bytes # <<>>
  PROVE  hexToBuffer(uint8ArrayToHex(bytes)) = bytes
<1>1. PICK h \in Seq(Digit), n \in Nat \ {0} :
        /\ h = uint8ArrayToHex(bytes) /\ n = Len(bytes) /\ Len(h) = 2 * n
        /\ \A i \in 1..n : /\ h[2 * i - 1] = bytes[i] \div 16
                           /\ h[2 * i] = bytes[i] % 16
  BY HexOf, EmptySeq
<1>2. h # <<>> /\ Len(h) \div 2 = n
  BY <1>1
<1>3. /\ hexToBuffer(h) \in Seq(Byte) /\ Len(hexToBuffer(h)) = n
      /\ \A i \in 1..n : hexToBuffer(h)[i] = 16 * h[2 * i - 1] + h[2 * i]
  BY <1>2, BufferOf
<1>4. ASSUME NEW i \in 1..n PROVE hexToBuffer(h)[i] = bytes[i]
  <2>1. bytes[i] \in 0..255
    BY <1>1, BytesAre
  <2>2. \A b \in 0..255 : 16 * (b \div 16) + (b % 16) = b
    OBVIOUS
  <2>3. hexToBuffer(h)[i] = 16 * (bytes[i] \div 16) + (bytes[i] % 16)
    BY <1>1, <1>3
  <2>4. QED
    BY <2>1, <2>2, <2>3, Zenon
<1>5. QED
  BY <1>1, <1>3, <1>4, SeqEqual

\* A byte's digits.
LEMMA HexDigits ==
  ASSUME NEW a \in Nat, NEW c \in 0..15
  PROVE  (16 * a + c) % 16 = c
OBVIOUS

\* Digits are written back, but for an odd one at the end.
LEMMA HexOfBuffer ==
  ASSUME NEW digits \in Seq(Digit), digits # <<>>
  PROVE  uint8ArrayToHex(hexToBuffer(digits))
           = SubSeq(digits, 1, 2 * (Len(digits) \div 2))
<1>1. PICK b \in Seq(Byte), n \in Nat :
        /\ b = hexToBuffer(digits) /\ n = Len(digits) \div 2 /\ Len(b) = n
        /\ \A i \in 1..n : b[i] = 16 * digits[2 * i - 1] + digits[2 * i]
  BY BufferOf, DigitsAre
<1>2. Len(digits) \in Nat /\ 2 * n <= Len(digits)
  BY <1>1, DigitsAre
<1>3. PICK h \in Seq(Digit) :
        /\ h = uint8ArrayToHex(b) /\ Len(h) = 2 * n
        /\ \A i \in 1..n : /\ h[2 * i - 1] = b[i] \div 16
                           /\ h[2 * i] = b[i] % 16
  BY <1>1, HexOf
<1>4. PICK s \in Seq(Digit) :
        /\ s = SubSeq(digits, 1, 2 * n) /\ Len(s) = 2 * n
        /\ \A k \in 1..(2 * n) : s[k] = digits[k]
  <2>1. \A k \in 1..(2 * n) : digits[k] \in Digit
    BY <1>2, ElementOfSeq
  <2>2. /\ SubSeq(digits, 1, 2 * n) \in Seq(Digit)
        /\ Len(SubSeq(digits, 1, 2 * n)) = 2 * n
        /\ \A k \in 1..(2 * n) : SubSeq(digits, 1, 2 * n)[k] = digits[k]
    BY <2>1, SubSeqProperties
  <2>3. QED
    BY <2>2
<1>5. ASSUME NEW i \in 1..n
      PROVE  h[2 * i - 1] = digits[2 * i - 1] /\ h[2 * i] = digits[2 * i]
  <2>1. 2 * i - 1 \in 1..Len(digits) /\ 2 * i \in 1..Len(digits)
    BY <1>2
  <2>2. PICK x \in 0..15, y \in 0..15 :
          x = digits[2 * i - 1] /\ y = digits[2 * i]
    BY <2>1, DigitsAre
  <2>3. b[i] = 16 * x + y
    BY <1>1, <2>2
  <2>4. (16 * x + y) \div 16 = x
    OBVIOUS
  <2>5. (16 * x + y) % 16 = y
    <3>1. x \in Nat
      OBVIOUS
    <3>2. QED
      BY <3>1, HexDigits
  <2>6. h[2 * i - 1] = (16 * x + y) \div 16 /\ h[2 * i] = (16 * x + y) % 16
    BY <1>3, <2>3
  <2>7. QED
    BY <2>2, <2>4, <2>5, <2>6
<1>6. ASSUME NEW k \in 1..(2 * n) PROVE h[k] = s[k]
  <2>1. PICK i \in 1..n : k = 2 * i - 1 \/ k = 2 * i
    <3>1. CASE k % 2 = 1
      <4>1. (k + 1) \div 2 \in 1..n /\ k = 2 * ((k + 1) \div 2) - 1
        BY <3>1, SMTT(40)
      <4>2. QED
        BY <4>1
    <3>2. CASE k % 2 # 1
      <4>1. k \div 2 \in 1..n /\ k = 2 * (k \div 2)
        BY <3>2
      <4>2. QED
        BY <4>1
    <3>3. QED
      BY <3>1, <3>2
  <2>2. QED
    BY <1>4, <1>5, <2>1
<1>7. QED
  BY <1>1, <1>3, <1>4, <1>6, SeqEqual

-----------------------------------------------------------------------------
(* Writers: the buffer is always large enough for what is written.          *)

Writer == {w \in [capacity : Nat, data : Seq(Byte)] : Len(w.data) <= w.capacity}

\* A writer is no exception.
LEMMA WriterNotThrows == \A w \in Writer : w # Throws
BY ValueAssumption DEF Writer

\* A grown buffer has room for what made it grow.
LEMMA Written ==
  ASSUME NEW w \in Writer, NEW bytes \in Seq(Byte)
  PROVE  /\ writeUint8Array(w, bytes) \in Writer
         /\ writeUint8Array(w, bytes).data = w.data \o bytes
<1>1. PICK c \in Nat, d \in Seq(Byte) :
        c = w.capacity /\ d = w.data /\ Len(d) <= c
  BY DEF Writer
<1>2. /\ Len(d) \in Nat /\ Len(bytes) \in Nat
      /\ d \o bytes \in Seq(Byte) /\ Len(d \o bytes) = Len(d) + Len(bytes)
  BY LenProperties, ConcatProperties
<1>3. PICK e \in Nat : e = Ensured(w, Len(bytes)) /\ Len(d) + Len(bytes) <= e
  <2>1. PICK m \in Nat, n \in Nat : m = Len(d) /\ n = Len(bytes)
    BY <1>2
  <2>2. Ensured(w, n) = IF c - m < n THEN 2 * c + n ELSE c
    BY <1>1, <2>1 DEF Ensured
  <2>3. m <= c
    BY <1>1, <2>1
  <2>4. Ensured(w, n) \in Nat /\ m + n <= Ensured(w, n)
    BY <2>2, <2>3
  <2>5. QED
    BY <2>1, <2>4
<1>4. w # Throws /\ bytes # Throws
  BY WriterNotThrows, NotThrows
<1>5. ~(Len(w.data) + Len(bytes) > Ensured(w, Len(bytes)))
  BY <1>1, <1>2, <1>3
<1>6. writeUint8Array(w, bytes) = [capacity |-> e, data |-> d \o bytes]
  BY <1>1, <1>3, <1>4, <1>5 DEF writeUint8Array
<1>7. QED
  BY <1>1, <1>2, <1>3, <1>6 DEF Writer

\* A number that fits is appended.
LEMMA WrittenUint ==
  ASSUME NEW w \in Writer, NEW n \in Nat, NEW width \in Widths,
         n < Pow256[width]
  PROVE  /\ writeUint(w, n, width) \in Writer
         /\ writeUint(w, n, width).data = w.data \o Bytes(n, width)
<1>1. PICK p \in Nat : p = Pow256[width]
  BY Powers
<1>2. n \in 0..(Pow256[width] - 1)
  BY <1>1
<1>3. Bytes(n, width) \in Seq(Byte)
  BY BytesType
<1>4. QED
  BY <1>2, <1>3, Written DEF writeUint

\* The bytes of a text that has digits are appended.
LEMMA WrittenHex ==
  ASSUME NEW w \in Writer, NEW digits \in Seq(Digit), digits # <<>>
  PROVE  /\ writeHex(w, digits) \in Writer
         /\ writeHex(w, digits).data = w.data \o hexToBuffer(digits)
BY Written, BufferOf DEF writeHex

\* The text of a writer is that of its data.
LEMMA HexWritten ==
  ASSUME NEW w \in Writer
  PROVE  toHex(w) = uint8ArrayToHex(w.data) /\ w.data \in Seq(Byte)
BY WriterNotThrows DEF toHex, Writer

\* What cannot be written throws.
LEMMA WrittenOrNot ==
  ASSUME NEW w \in Writer \cup {Throws}
  PROVE  /\ \A bytes \in Seq(Byte) \cup {Throws} :
              writeUint8Array(w, bytes) \in Writer \cup {Throws}
         /\ \A digits \in Seq(Digit) :
              writeHex(w, digits) \in Writer \cup {Throws}
         /\ \A n \in Nat, width \in Widths :
              writeUint(w, n, width) \in Writer \cup {Throws}
         /\ toHex(w) \in Seq(Digit) \cup {Throws}
<1>1. ASSUME NEW bytes \in Seq(Byte) \cup {Throws}
      PROVE  writeUint8Array(w, bytes) \in Writer \cup {Throws}
  <2>1. CASE w = Throws \/ bytes = Throws
    BY <2>1 DEF writeUint8Array
  <2>2. CASE ~(w = Throws \/ bytes = Throws)
    BY <2>2, Written
  <2>3. QED
    BY <2>1, <2>2
<1>2. ASSUME NEW digits \in Seq(Digit)
      PROVE  writeHex(w, digits) \in Writer \cup {Throws}
  <2>1. hexToBuffer(digits) \in Seq(Byte) \cup {Throws}
    <3>1. CASE digits = <<>>
      BY <3>1 DEF hexToBuffer
    <3>2. CASE digits # <<>>
      BY <3>2, BufferOf
    <3>3. QED
      BY <3>1, <3>2
  <2>2. QED
    BY <1>1, <2>1 DEF writeHex
<1>3. ASSUME NEW n \in Nat, NEW width \in Widths
      PROVE  writeUint(w, n, width) \in Writer \cup {Throws}
  BY <1>1, BytesType DEF writeUint
<1>4. toHex(w) \in Seq(Digit) \cup {Throws}
  <2>1. CASE w = Throws
    BY <2>1 DEF toHex
  <2>2. CASE w # Throws
    BY <2>2, HexWritten, HexOf
  <2>3. QED
    BY <2>1, <2>2
<1>5. QED
  BY <1>1, <1>2, <1>3, <1>4

-----------------------------------------------------------------------------
(* Pieces of a buffer.                                                      *)

\* What is read within the buffer is as long as it should be.
LEMMA Subarrays ==
  ASSUME NEW b \in Seq(Byte), NEW o \in Nat, NEW l \in Nat
  PROVE  /\ subarray(b, o, l) \in Seq(Byte)
         /\ o + l <= Len(b) =>
              /\ Len(subarray(b, o, l)) = l
              /\ \A i \in 1..l : subarray(b, o, l)[i] = b[o + i]
<1>1. PICK n \in Nat : n = Len(b)
  BY BytesAre
<1>2. PICK e \in Nat : e = (IF o + l > n THEN n ELSE o + l) /\ e <= n
  OBVIOUS
<1>3. subarray(b, o, l) = SubSeq(b, o + 1, e)
  BY <1>1, <1>2 DEF subarray
<1>4. \A i \in (o + 1)..e : b[i] \in Byte
  BY <1>1, <1>2, ElementOfSeq
<1>5. /\ SubSeq(b, o + 1, e) \in Seq(Byte)
      /\ Len(SubSeq(b, o + 1, e)) = IF o + 1 <= e THEN e - (o + 1) + 1 ELSE 0
      /\ \A i \in 1..(e - (o + 1) + 1) :
           SubSeq(b, o + 1, e)[i] = b[(o + 1) + i - 1]
  <2>1. o + 1 \in Int /\ e \in Int
    OBVIOUS
  <2>2. QED
    BY <1>4, <2>1, SubSeqProperties
<1>6. ASSUME o + l <= n
      PROVE  /\ Len(subarray(b, o, l)) = l
             /\ \A i \in 1..l : subarray(b, o, l)[i] = b[o + i]
  <2>1. e = o + l
    BY <1>2, <1>6
  <2>2. (IF o + 1 <= e THEN e - (o + 1) + 1 ELSE 0) = l
    BY <2>1
  <2>3. e - (o + 1) + 1 = l /\ \A i \in 1..l : (o + 1) + i - 1 = o + i
    BY <2>1
  <2>4. QED
    BY <1>3, <1>5, <2>2, <2>3
<1>7. QED
  BY <1>1, <1>3, <1>5, <1>6

\* The buffer b starts with d.
StartsWith(b, d) == Len(d) <= Len(b) /\ \A i \in 1..Len(d) : b[i] = d[i]

\* What was appended to d is read after d.
LEMMA Piece ==
  ASSUME NEW b \in Seq(Byte), NEW d \in Seq(Byte), NEW p \in Seq(Byte),
         StartsWith(b, d \o p)
  PROVE  /\ StartsWith(b, d) /\ subarray(b, Len(d), Len(p)) = p
         /\ Len(d) + Len(p) <= Len(b)
<1>1. PICK m \in Nat, n \in Nat, t \in Nat :
        m = Len(d) /\ n = Len(p) /\ t = Len(b)
  BY LenProperties
<1>2. /\ Len(d \o p) = m + n
      /\ \A i \in 1..(m + n) :
           (d \o p)[i] = IF i <= m THEN d[i] ELSE p[i - m]
  BY <1>1, ConcatProperties
<1>3. m + n <= t /\ \A i \in 1..(m + n) : b[i] = (d \o p)[i]
  BY <1>1, <1>2 DEF StartsWith
<1>4. \A i \in 1..m : i \in 1..(m + n) /\ i <= m
  OBVIOUS
<1>5. \A i \in 1..m : b[i] = d[i]
  BY <1>2, <1>3, <1>4
<1>6. ASSUME NEW i \in 1..n PROVE b[m + i] = p[i]
  <2>1. m + i \in 1..(m + n) /\ ~(m + i <= m) /\ (m + i) - m = i
    OBVIOUS
  <2>2. QED
    BY <1>2, <1>3, <2>1
<1>7. /\ subarray(b, m, n) \in Seq(Byte) /\ Len(subarray(b, m, n)) = n
      /\ \A i \in 1..n : subarray(b, m, n)[i] = b[m + i]
  <2>1. m + n <= Len(b)
    BY <1>1, <1>3
  <2>2. QED
    BY <2>1, Subarrays
<1>8. subarray(b, m, n) = p
  BY <1>1, <1>6, <1>7, SeqEqual
<1>9. m <= t
  BY <1>3
<1>10. QED
  BY <1>1, <1>3, <1>5, <1>8, <1>9 DEF StartsWith

\* A buffer starts with itself.
LEMMA StartsWithItself ==
  ASSUME NEW b \in Seq(Byte)
  PROVE  StartsWith(b, b)
BY LenProperties DEF StartsWith

\* A buffer that starts with d goes on with what it holds there.
LEMMA Joined ==
  ASSUME NEW b \in Seq(Byte), NEW o \in Nat, NEW l \in Nat, o + l <= Len(b)
  PROVE  SubSeq(b, 1, o) \o subarray(b, o, l) = SubSeq(b, 1, o + l)
<1>1. PICK n \in Nat : n = Len(b)
  BY BytesAre
<1>2. subarray(b, o, l) = SubSeq(b, o + 1, o + l)
  BY <1>1 DEF subarray
<1>3. 1 \in 1..(Len(b) + 1) /\ o \in (1 - 1)..Len(b) /\ o + l \in o..Len(b)
  BY <1>1
<1>4. SubSeq(b, 1, o) \o SubSeq(b, o + 1, o + l) = SubSeq(b, 1, o + l)
  BY <1>3, ConcatAdjacentSubSeq
<1>5. QED
  BY <1>2, <1>4

\* A number written after d is read there.
LEMMA NumberPiece ==
  ASSUME NEW b \in Seq(Byte), NEW d \in Seq(Byte), NEW n \in Nat,
         NEW width \in Widths, n < Pow256[width],
         StartsWith(b, d \o Bytes(n, width))
  PROVE  /\ StartsWith(b, d) /\ Big(subarray(b, Len(d), width)) = n
         /\ Len(d) + width <= Len(b)
<1>1. Bytes(n, width) \in Seq(Byte) /\ Len(Bytes(n, width)) = width
  BY BytesType
<1>2. /\ StartsWith(b, d) /\ Len(d) + width <= Len(b)
      /\ subarray(b, Len(d), width) = Bytes(n, width)
  BY <1>1, Piece
<1>3. Big(Bytes(n, width)) = n
  BY BigOfBytes
<1>4. QED
  BY <1>2, <1>3

\* A text of an even number of digits is the text of its buffer.
LEMMA EvenHex ==
  ASSUME NEW digits \in Seq(Digit), NEW n \in Nat \ {0}, Len(digits) = 2 * n
  PROVE  /\ hexToBuffer(digits) \in Seq(Byte) /\ Len(hexToBuffer(digits)) = n
         /\ uint8ArrayToHex(hexToBuffer(digits)) = digits /\ digits # <<>>
<1>1. digits # <<>> /\ Len(digits) \div 2 = n
  OBVIOUS
<1>2. SubSeq(digits, 1, 2 * n) = digits
  BY SubSeqFull
<1>3. uint8ArrayToHex(hexToBuffer(digits)) = SubSeq(digits, 1, 2 * n)
  BY <1>1, HexOfBuffer
<1>4. QED
  BY <1>1, <1>2, <1>3, BufferOf

\* Digits written after d are read there.
LEMMA HexPiece ==
  ASSUME NEW b \in Seq(Byte), NEW d \in Seq(Byte), NEW digits \in Seq(Digit),
         NEW n \in Nat \ {0}, Len(digits) = 2 * n,
         StartsWith(b, d \o hexToBuffer(digits))
  PROVE  /\ StartsWith(b, d) /\ Len(d) + n <= Len(b)
         /\ uint8ArrayToHex(subarray(b, Len(d), n)) = digits
<1>1. /\ hexToBuffer(digits) \in Seq(Byte) /\ Len(hexToBuffer(digits)) = n
      /\ uint8ArrayToHex(hexToBuffer(digits)) = digits
  BY EvenHex
<1>2. /\ StartsWith(b, d) /\ Len(d) + n <= Len(b)
      /\ subarray(b, Len(d), n) = hexToBuffer(digits)
  BY <1>1, Piece
<1>3. QED
  BY <1>1, <1>2

-----------------------------------------------------------------------------
(* Requests.                                                               *)

HeadOf(kind, chain, address) ==
  writeHex(writeUint(writeUint8Array(NewWriter, Prefix[kind]), chain, 2),
           address)

HeadBytes(kind, chain, address) ==
  (Prefix[kind] \o Bytes(chain, 2)) \o hexToBuffer(address)

\* The prefixes take four bytes, the first of them an E.
LEMMA PrefixType ==
  /\ \A kind \in DOMAIN Prefix : /\ Prefix[kind] \in Seq(Byte)
                                 /\ Len(Prefix[kind]) = 4
                                 /\ Prefix[kind][1] = 69
  /\ \A kind, other \in DOMAIN Prefix :
       kind # other => Prefix[kind][3] # Prefix[other][3]
  /\ DOMAIN Prefix = {"ModularMessage", "VAAv1", "NTTv1"}
<1>1. /\ 69 \in Byte /\ 82 \in Byte /\ 77 \in Byte
      /\ 49 \in Byte /\ 86 \in Byte /\ 78 \in Byte
  BY DEF Byte
<1>2. /\ <<69, 82, 77, 49>> \in Seq(Byte) /\ <<69, 82, 86, 49>> \in Seq(Byte)
      /\ <<69, 82, 78, 49>> \in Seq(Byte)
  BY <1>1
<1>3. DOMAIN Prefix = {"ModularMessage", "VAAv1", "NTTv1"}
  BY DEF Prefix
<1>4. /\ Prefix["ModularMessage"] = <<69, 82, 77, 49>>
      /\ Prefix["VAAv1"] = <<69, 82, 86, 49>>
      /\ Prefix["NTTv1"] = <<69, 82, 78, 49>>
  BY DEF Prefix
<1>5. \A a, b, c, d \in Byte :
        <<a, b, c, d>> \in Seq(Byte) /\ Len(<<a, b, c, d>>) = 4
        /\ <<a, b, c, d>>[1] = a
  OBVIOUS
<1>6. ASSUME NEW kind \in DOMAIN Prefix
      PROVE  /\ Prefix[kind] \in Seq(Byte) /\ Len(Prefix[kind]) = 4
             /\ Prefix[kind][1] = 69
  <2>1. PICK c \in Byte : Prefix[kind] = <<69, 82, c, 49>>
    BY <1>1, <1>3, <1>4
  <2>2. QED
    BY <1>1, <1>5, <2>1
<1>7. /\ Prefix["ModularMessage"][3] = 77 /\ Prefix["VAAv1"][3] = 86
      /\ Prefix["NTTv1"][3] = 78
  BY <1>4
<1>8. QED
  BY <1>3, <1>6, <1>7

\* A new writer is empty.
LEMMA NewWriterType ==
  NewWriter \in Writer /\ NewWriter.data = <<>>
<1>1. <<>> \in Seq(Byte) /\ Len(<<>>) = 0
  OBVIOUS
<1>2. QED
  BY <1>1, CodecAssumption DEF NewWriter, Writer

\* Buffers are as long together as one after the other.
LEMMA Joins ==
  ASSUME NEW a \in Seq(Byte), NEW c \in Seq(Byte), NEW m \in Nat, NEW n \in Nat,
         Len(a) = m, Len(c) = n
  PROVE  a \o c \in Seq(Byte) /\ Len(a \o c) = m + n
BY ConcatProperties

\* The head of a request is written: prefix, chain, address.
LEMMA HeadWritten ==
  ASSUME NEW kind \in DOMAIN Prefix, NEW chain \in Nat,
         NEW address \in Seq(Digit),
         chain < Pow256[2], Len(address) = 2 * Bytes32
  PROVE  /\ HeadOf(kind, chain, address) \in Writer
         /\ HeadOf(kind, chain, address).data = HeadBytes(kind, chain, address)
         /\ HeadBytes(kind, chain, address) \in Seq(Byte)
         /\ Len(HeadBytes(kind, chain, address)) = Head4
<1> DEFINE w == writeUint8Array(NewWriter, Prefix[kind])
           v == writeUint(w, chain, 2)
           d == Prefix[kind]
           e == d \o Bytes(chain, 2)
<1>1. d \in Seq(Byte) /\ Len(d) = 4
  BY PrefixType
<1>2. w \in Writer /\ w.data = d
  BY <1>1, NewWriterType, Written, ConcatEmptySeq, ZenonT(60)
<1>3. 2 \in Widths
  BY DEF Widths
<1> HIDE DEF w, d
<1>4. v \in Writer /\ v.data = e
  BY <1>2, <1>3, WrittenUint
<1>5. /\ hexToBuffer(address) \in Seq(Byte)
      /\ Len(hexToBuffer(address)) = Bytes32 /\ address # <<>>
  BY CodecAssumption, EvenHex
<1> HIDE DEF v
<1>6. writeHex(v, address) \in Writer
      /\ writeHex(v, address).data = e \o hexToBuffer(address)
  BY <1>4, <1>5, WrittenHex, Zenon
<1>7. Bytes(chain, 2) \in Seq(Byte) /\ Len(Bytes(chain, 2)) = 2
  BY <1>3, BytesType, ZenonT(60)
<1>8. e \in Seq(Byte) /\ Len(e) = 4 + 2
  <2>1. /\ e \in Seq(Byte) /\ Len(e) = Len(d) + Len(Bytes(chain, 2))
    BY <1>1, <1>7, ConcatProperties
  <2>2. QED
    BY <1>1, <1>7, <2>1
<1> HIDE DEF e
<1>9. /\ e \o hexToBuffer(address) \in Seq(Byte)
      /\ Len(e \o hexToBuffer(address)) = (4 + 2) + Bytes32
  <2>1. 4 + 2 \in Nat /\ Bytes32 \in Nat
    BY CodecAssumption
  <2>2. QED
    BY <1>5, <1>8, <2>1, Joins, ZenonT(60)
<1>10. QED
  BY <1>6, <1>9 DEF HeadOf, HeadBytes, Head4, w, v, d, e

\* The head of a request is read where it was written.
LEMMA HeadRead ==
  ASSUME NEW kind \in DOMAIN Prefix, NEW chain \in Nat,
         NEW address \in Seq(Digit),
         chain < Pow256[2], Len(address) = 2 * Bytes32,
         NEW b \in Seq(Byte), StartsWith(b, HeadBytes(kind, chain, address))
  PROVE  /\ subarray(b, 0, 4) = Prefix[kind]
         /\ Big(subarray(b, 4, 2)) = chain
         /\ uint8ArrayToHex(subarray(b, 6, Bytes32)) = address
<1> DEFINE d == Prefix[kind]
           e == d \o Bytes(chain, 2)
<1>1. d \in Seq(Byte)
  BY PrefixType
<1>2. Len(d) = 4
  BY PrefixType
<1>3. 2 \in Widths
  BY DEF Widths
<1>4. Bytes(chain, 2) \in Seq(Byte) /\ Len(Bytes(chain, 2)) = 2
  BY <1>3, BytesType, ZenonT(60)
<1> HIDE DEF d
<1>5. e \in Seq(Byte)
  BY <1>1, <1>4, ConcatProperties
<1>6. Len(e) = 6
  <2>1. Len(e) = Len(d) + Len(Bytes(chain, 2))
    BY <1>1, <1>4, ConcatProperties
  <2>2. Len(Bytes(chain, 2)) = 2
    BY <1>4
  <2> HIDE DEF e
  <2>3. Len(e) = 4 + 2
    BY <1>2, <2>1, <2>2
  <2>4. QED
    BY <2>3
<1>7. StartsWith(b, e \o hexToBuffer(address))
  BY DEF HeadBytes, d
<1> HIDE DEF e
<1>8. StartsWith(b, e) /\ uint8ArrayToHex(subarray(b, 6, Bytes32)) = address
  <2>1. Bytes32 \in Nat \ {0}
    BY CodecAssumption
  <2>2. /\ StartsWith(b, e)
        /\ uint8ArrayToHex(subarray(b, Len(e), Bytes32)) = address
    BY <1>5, <1>7, <2>1, HexPiece
  <2>3. QED
    BY <1>6, <2>2
<1>9. StartsWith(b, d) /\ Big(subarray(b, 4, 2)) = chain
  <2>1. StartsWith(b, d \o Bytes(chain, 2))
    BY <1>8 DEF e
  <2>2. StartsWith(b, d) /\ Big(subarray(b, Len(d), 2)) = chain
    BY <1>1, <1>3, <2>1, NumberPiece
  <2>3. QED
    BY <1>2, <2>2
<1>10. subarray(b, 0, 4) = d
  <2>1. StartsWith(b, <<>> \o d)
    BY <1>1, <1>9, ConcatEmptySeq
  <2>2. <<>> \in Seq(Byte) /\ Len(<<>>) = 0
    OBVIOUS
  <2>3. subarray(b, Len(<<>>), Len(d)) = d
    BY <1>1, <2>1, <2>2, Piece, ZenonT(60)
  <2>4. QED
    BY <1>2, <2>2, <2>3
<1>11. QED
  BY <1>8, <1>9, <1>10 DEF d

\* What is read of a buffer of requests, kind by kind.
LEMMA FromVAAv1 ==
  ASSUME NEW digits, NEW b \in Seq(Byte), hexToBuffer(digits) = b
  PROVE  from("VAAv1", digits) =
           IF Len(b) # Head4 + U64 \/ subarray(b, 0, 4) # Prefix["VAAv1"]
             THEN Throws
             ELSE [kind |-> "VAAv1", chain |-> Big(subarray(b, 4, 2)),
                   address |-> uint8ArrayToHex(subarray(b, 6, Bytes32)),
                   sequence |-> Big(subarray(b, Head4, U64))]
<1>1. b # Throws /\ Len(b) \in Nat
  BY NotThrows, BytesAre
<1>2. byteLength["VAAv1"] = Head4 + U64 /\ Head4 + U64 \in Nat
  BY CodecAssumption DEF byteLength, Head4
<1>3. Len(b) < Head4 + U64 => Len(b) # Head4 + U64
  BY <1>1, <1>2
<1>4. Head4 + U64 + 0 = Head4 + U64
  BY <1>2
<1>5. QED
  BY <1>1, <1>2, <1>3, <1>4, Zenon DEF from, LengthAgrees

\* What from does with a text of this kind.
LEMMA FromNTTv1 ==
  ASSUME NEW digits, NEW b \in Seq(Byte), hexToBuffer(digits) = b
  PROVE  from("NTTv1", digits) =
           IF Len(b) # Head4 + Bytes32 \/ subarray(b, 0, 4) # Prefix["NTTv1"]
             THEN Throws
             ELSE [kind |-> "NTTv1", chain |-> Big(subarray(b, 4, 2)),
                   address |-> uint8ArrayToHex(subarray(b, 6, Bytes32)),
                   messageId |-> uint8ArrayToHex(subarray(b, Head4, Bytes32))]
<1>1. b # Throws /\ Len(b) \in Nat
  BY NotThrows, BytesAre
<1>2. byteLength["NTTv1"] = Head4 + Bytes32 /\ Head4 + Bytes32 \in Nat
  BY CodecAssumption DEF byteLength, Head4
<1>3. Len(b) < Head4 + Bytes32 => Len(b) # Head4 + Bytes32
  BY <1>1, <1>2
<1>4. Head4 + Bytes32 + 0 = Head4 + Bytes32
  BY <1>2
<1>5. QED
  BY <1>1, <1>2, <1>3, <1>4, Zenon DEF from, LengthAgrees

Head5 == Head4 + U64 + U32

\* What from does with a text of this kind.
LEMMA FromModularMessage ==
  ASSUME NEW digits, NEW b \in Seq(Byte), hexToBuffer(digits) = b,
         NEW n, n = Big(subarray(b, Head4 + U64, U32))
  PROVE  from("ModularMessage", digits) =
           IF \/ Len(b) < Head5 \/ Len(b) # Head5 + n
              \/ subarray(b, 0, 4) # Prefix["ModularMessage"]
             THEN Throws
             ELSE [kind |-> "ModularMessage", chain |-> Big(subarray(b, 4, 2)),
                   address |-> uint8ArrayToHex(subarray(b, 6, Bytes32)),
                   sequence |-> Big(subarray(b, Head4, U64)),
                   payload |-> uint8ArrayToHex(subarray(b, Head5, n))]
<1>1. b # Throws
  BY NotThrows
<1>2. byteLength["ModularMessage"] = Head5
  BY DEF byteLength, Head5
<1>3. QED
  BY <1>1, <1>2, Zenon DEF from, LengthAgrees

\* The widths and sizes that are used.
LEMMA Sizes ==
  /\ U32 \in Nat \ {0} /\ U64 \in Nat \ {0} /\ U128 \in Nat \ {0}
  /\ Bytes32 \in Nat \ {0} /\ Head4 \in Nat /\ Head5 \in Nat /\ Head4 >= 6
  /\ 1 \in Widths /\ 2 \in Widths /\ U32 \in Widths /\ U64 \in Widths
  /\ U128 \in Widths
<1>1. /\ U32 \in Nat \ {0} /\ U64 \in Nat \ {0} /\ U128 \in Nat \ {0}
      /\ Bytes32 \in Nat \ {0}
  BY CodecAssumption
<1>2. /\ 1 \in Widths /\ 2 \in Widths /\ U32 \in Widths /\ U64 \in Widths
      /\ U128 \in Widths
  BY DEF Widths
<1>3. QED
  BY <1>1, <1>2 DEF Head4, Head5

\* A request is one buffer, which starts with its prefix and is read back.
Travels(r) ==
  \E b \in Seq(Byte) :
    /\ b # <<>> /\ serialize(r) = uint8ArrayToHex(b)
    /\ subarray(b, 0, 4) = Prefix[r.kind]
    /\ from(r.kind, serialize(r)) = r

\* A request of this kind is written and read back.
LEMMA VAAv1Travels ==
  ASSUME NEW chain \in Nat, NEW address \in Seq(Digit), NEW sequence \in Nat,
         chain < Pow256[2], Len(address) = 2 * Bytes32,
         sequence < Pow256[U64]
  PROVE  Travels([kind |-> "VAAv1", chain |-> chain, address |-> address,
                  sequence |-> sequence])
<1> DEFINE r == [kind |-> "VAAv1", chain |-> chain, address |-> address,
                 sequence |-> sequence]
           w == HeadOf("VAAv1", chain, address)
           h == HeadBytes("VAAv1", chain, address)
           v == writeUint(w, sequence, U64)
           b == h \o Bytes(sequence, U64)
<1>1. "VAAv1" \in DOMAIN Prefix
  BY PrefixType
<1>2. w \in Writer /\ w.data = h /\ h \in Seq(Byte)
  BY <1>1, HeadWritten
<1>3. Len(h) = Head4
  BY <1>1, HeadWritten
<1>4. Bytes(sequence, U64) \in Seq(Byte) /\ Len(Bytes(sequence, U64)) = U64
  BY Sizes, BytesType
<1> HIDE DEF w, h
<1>5. v \in Writer /\ v.data = b
  BY <1>2, Sizes, WrittenUint
<1>6. b \in Seq(Byte) /\ Len(b) = Head4 + U64
  BY <1>2, <1>3, <1>4, Sizes, Joins
<1>7. serialize(r) = toHex(v)
  BY DEF serialize, Constructed, HeadOf, w
<1> HIDE DEF v
<1>8. serialize(r) = uint8ArrayToHex(b)
  BY <1>5, <1>7, HexWritten
<1>9. b # <<>>
  BY <1>6, Sizes
<1>10. hexToBuffer(uint8ArrayToHex(b)) = b
  BY <1>6, <1>9, BufferOfHex
<1>11. StartsWith(b, h) /\ Big(subarray(b, Head4, U64)) = sequence
  <2>1. PICK c \in Seq(Byte) : c = b
    BY <1>6
  <2>2. StartsWith(c, h \o Bytes(sequence, U64))
    BY <2>1, StartsWithItself
  <2>3. StartsWith(c, h) /\ Big(subarray(c, Len(h), U64)) = sequence
    <3> HIDE DEF b
    <3> QED BY <1>2, <2>2, Sizes, NumberPiece
  <2>4. QED
    BY <1>3, <2>1, <2>3
<1> HIDE DEF b
<1>12. /\ subarray(b, 0, 4) = Prefix["VAAv1"] /\ Big(subarray(b, 4, 2)) = chain
       /\ uint8ArrayToHex(subarray(b, 6, Bytes32)) = address
  BY <1>1, <1>6, <1>11, HeadRead DEF h
<1>13. from("VAAv1", uint8ArrayToHex(b)) =
         [kind |-> "VAAv1", chain |-> Big(subarray(b, 4, 2)),
          address |-> uint8ArrayToHex(subarray(b, 6, Bytes32)),
          sequence |-> Big(subarray(b, Head4, U64))]
  BY <1>6, <1>10, <1>12, FromVAAv1
<1>14. from("VAAv1", uint8ArrayToHex(b)) = r
  BY <1>11, <1>12, <1>13
<1>15. QED
  BY <1>6, <1>8, <1>9, <1>12, <1>14 DEF Travels

\* A request of this kind is written and read back.
LEMMA NTTv1Travels ==
  ASSUME NEW chain \in Nat, NEW address \in Seq(Digit),
         NEW messageId \in Seq(Digit), chain < Pow256[2],
         Len(address) = 2 * Bytes32, Len(messageId) = 2 * Bytes32
  PROVE  Travels([kind |-> "NTTv1", chain |-> chain, address |-> address,
                  messageId |-> messageId])
<1> DEFINE r == [kind |-> "NTTv1", chain |-> chain, address |-> address,
                 messageId |-> messageId]
           w == HeadOf("NTTv1", chain, address)
           h == HeadBytes("NTTv1", chain, address)
           m == hexToBuffer(messageId)
           v == writeHex(w, messageId)
           b == h \o m
<1>1. "NTTv1" \in DOMAIN Prefix
  BY PrefixType
<1>2. w \in Writer /\ w.data = h /\ h \in Seq(Byte)
  BY <1>1, HeadWritten
<1>3. Len(h) = Head4
  BY <1>1, HeadWritten
<1>4. m \in Seq(Byte) /\ Len(m) = Bytes32 /\ messageId # <<>>
  BY Sizes, EvenHex
<1> HIDE DEF w, h
<1>5. v \in Writer /\ v.data = b
  BY <1>2, <1>4, WrittenHex
<1> HIDE DEF m
<1>6. b \in Seq(Byte) /\ Len(b) = Head4 + Bytes32
  BY <1>2, <1>3, <1>4, Sizes, Joins
<1>7. serialize(r) = toHex(v)
  BY DEF serialize, Constructed, HeadOf, w
<1> HIDE DEF v
<1>8. serialize(r) = uint8ArrayToHex(b)
  BY <1>5, <1>7, HexWritten
<1>9. b # <<>>
  BY <1>6, Sizes
<1>10. hexToBuffer(uint8ArrayToHex(b)) = b
  BY <1>6, <1>9, BufferOfHex
<1>11. /\ StartsWith(b, h)
       /\ uint8ArrayToHex(subarray(b, Head4, Bytes32)) = messageId
  <2>1. PICK c \in Seq(Byte) : c = b
    BY <1>6
  <2>2. StartsWith(c, h \o hexToBuffer(messageId))
    BY <2>1, StartsWithItself DEF m
  <2>3. /\ StartsWith(c, h)
        /\ uint8ArrayToHex(subarray(c, Len(h), Bytes32)) = messageId
    <3> HIDE DEF b
    <3> QED BY <1>2, <2>2, Sizes, HexPiece
  <2>4. QED
    BY <1>3, <2>1, <2>3
<1> HIDE DEF b
<1>12. /\ subarray(b, 0, 4) = Prefix["NTTv1"] /\ Big(subarray(b, 4, 2)) = chain
       /\ uint8ArrayToHex(subarray(b, 6, Bytes32)) = address
  BY <1>1, <1>6, <1>11, HeadRead DEF h
<1>13. from("NTTv1", uint8ArrayToHex(b)) =
         [kind |-> "NTTv1", chain |-> Big(subarray(b, 4, 2)),
          address |-> uint8ArrayToHex(subarray(b, 6, Bytes32)),
          messageId |-> uint8ArrayToHex(subarray(b, Head4, Bytes32))]
  BY <1>6, <1>10, <1>12, FromNTTv1
<1>14. from("NTTv1", uint8ArrayToHex(b)) = r
  BY <1>11, <1>12, <1>13
<1>15. QED
  BY <1>6, <1>8, <1>9, <1>12, <1>14 DEF Travels

\* A request of this kind is written and read back.
LEMMA ModularMessageTravels ==
  ASSUME NEW chain \in Nat, NEW address \in Seq(Digit), NEW sequence \in Nat,
         NEW payload \in Seq(Digit), chain < Pow256[2],
         Len(address) = 2 * Bytes32, sequence < Pow256[U64],
         NEW n \in Nat \ {0}, Len(payload) = 2 * n, n < Pow256[U32]
  PROVE  Travels([kind |-> "ModularMessage", chain |-> chain,
                  address |-> address, sequence |-> sequence,
                  payload |-> payload])
<1> DEFINE r == [kind |-> "ModularMessage", chain |-> chain,
                 address |-> address, sequence |-> sequence,
                 payload |-> payload]
           w == HeadOf("ModularMessage", chain, address)
           h == HeadBytes("ModularMessage", chain, address)
           p == hexToBuffer(payload)
           v1 == writeUint(w, sequence, U64)
           v2 == writeUint(v1, n, U32)
           v == writeUint8Array(v2, p)
           d1 == h \o Bytes(sequence, U64)
           d2 == d1 \o Bytes(n, U32)
           b == d2 \o p
<1>1. "ModularMessage" \in DOMAIN Prefix
  BY PrefixType
<1>2. w \in Writer /\ w.data = h /\ h \in Seq(Byte)
  BY <1>1, HeadWritten
<1>3. Len(h) = Head4
  BY <1>1, HeadWritten
<1>4. p \in Seq(Byte) /\ payload # <<>> /\ uint8ArrayToHex(p) = payload
  BY EvenHex
<1>5. Len(p) = n
  BY EvenHex
<1>6. /\ Bytes(sequence, U64) \in Seq(Byte) /\ Bytes(n, U32) \in Seq(Byte)
       /\ Len(Bytes(sequence, U64)) = U64 /\ Len(Bytes(n, U32)) = U32
  BY Sizes, BytesType, SMTT(40)
<1> HIDE DEF w, h
<1>7. v1 \in Writer /\ v1.data = d1
  BY <1>2, Sizes, WrittenUint
<1>8. d1 \in Seq(Byte) /\ Len(d1) = Head4 + U64
  BY <1>2, <1>3, <1>6, Sizes, Joins
<1> HIDE DEF v1, d1, p
<1>9. v2 \in Writer /\ v2.data = d2
  BY <1>7, Sizes, WrittenUint
<1>10. d2 \in Seq(Byte) /\ Len(d2) = (Head4 + U64) + U32
  BY <1>6, <1>8, Sizes, Joins, SMTT(40)
<1> HIDE DEF v2, d2
<1>11. v \in Writer /\ v.data = b
  BY <1>4, <1>9, Written
<1>12. b \in Seq(Byte) /\ Len(b) = ((Head4 + U64) + U32) + n
  BY <1>4, <1>5, <1>10, Sizes, Joins
<1>13. serialize(r) = toHex(v)
  <2>1. p # Throws
    BY <1>4, NotThrows
  <2>2. QED
    BY <1>5, <2>1 DEF serialize, Constructed, HeadOf, w, v1, v2, p
<1> HIDE DEF v
<1>14. serialize(r) = uint8ArrayToHex(b)
  BY <1>11, <1>13, HexWritten
<1>15. b # <<>>
  BY <1>12, Sizes
<1>16. hexToBuffer(uint8ArrayToHex(b)) = b
  BY <1>12, <1>15, BufferOfHex
<1>17. PICK c \in Seq(Byte) : c = b
  BY <1>12
<1>18. StartsWith(c, d2 \o p)
  BY <1>17, StartsWithItself
<1> HIDE DEF b
<1>19. StartsWith(c, d2) /\ subarray(c, Len(d2), Len(p)) = p
  BY <1>4, <1>10, <1>18, Piece
<1>20. StartsWith(c, d1) /\ Big(subarray(c, Len(d1), U32)) = n
  <2>1. StartsWith(c, d1 \o Bytes(n, U32))
    BY <1>19 DEF d2
  <2>2. d1 \in Seq(Byte)
    BY <1>8
  <2>3. QED
    BY <2>1, <2>2, Sizes, NumberPiece
<1>21. StartsWith(c, h) /\ Big(subarray(c, Len(h), U64)) = sequence
  <2>1. StartsWith(c, h \o Bytes(sequence, U64))
    BY <1>20 DEF d1
  <2>2. QED
    BY <1>2, <2>1, Sizes, NumberPiece
<1>22. /\ StartsWith(b, h) /\ Big(subarray(b, Head4, U64)) = sequence
       /\ Big(subarray(b, Head4 + U64, U32)) = n
       /\ uint8ArrayToHex(subarray(b, Head5, n)) = payload
  BY <1>3, <1>4, <1>5, <1>8, <1>10, <1>17, <1>19, <1>20, <1>21 DEF Head5
<1>23. /\ subarray(b, 0, 4) = Prefix["ModularMessage"]
       /\ Big(subarray(b, 4, 2)) = chain
       /\ uint8ArrayToHex(subarray(b, 6, Bytes32)) = address
  BY <1>1, <1>12, <1>22, HeadRead DEF h
<1>24. from("ModularMessage", uint8ArrayToHex(b)) =
         [kind |-> "ModularMessage", chain |-> Big(subarray(b, 4, 2)),
          address |-> uint8ArrayToHex(subarray(b, 6, Bytes32)),
          sequence |-> Big(subarray(b, Head4, U64)),
          payload |-> uint8ArrayToHex(subarray(b, Head5, n))]
  <2>1. Len(b) = Head5 + n /\ ~(Len(b) < Head5)
    BY <1>12, Sizes DEF Head5
  <2>2. QED
    BY <1>12, <1>16, <1>22, <1>23, <2>1, FromModularMessage
<1>25. from("ModularMessage", uint8ArrayToHex(b)) = r
  BY <1>22, <1>23, <1>24
<1>26. QED
  BY <1>12, <1>14, <1>15, <1>23, <1>25 DEF Travels

Request ==
  [kind : {"VAAv1"}, chain : Nat, address : Seq(Digit), sequence : Nat] \cup
  [kind : {"NTTv1"}, chain : Nat, address : Seq(Digit),
   messageId : Seq(Digit)] \cup
  [kind : {"ModularMessage"}, chain : Nat, address : Seq(Digit),
   sequence : Nat, payload : Seq(Digit)]

\* A request is made of its fields.
LEMMA RequestFields ==
  ASSUME NEW r \in Request
  PROVE  /\ r.kind \in {"VAAv1", "NTTv1", "ModularMessage"}
         /\ r.chain \in Nat /\ r.address \in Seq(Digit)
         /\ r.kind = "VAAv1" =>
              /\ r.sequence \in Nat
              /\ r = [kind |-> "VAAv1", chain |-> r.chain,
                      address |-> r.address, sequence |-> r.sequence]
         /\ r.kind = "NTTv1" =>
              /\ r.messageId \in Seq(Digit)
              /\ r = [kind |-> "NTTv1", chain |-> r.chain,
                      address |-> r.address, messageId |-> r.messageId]
         /\ r.kind = "ModularMessage" =>
              /\ r.sequence \in Nat /\ r.payload \in Seq(Digit)
              /\ r = [kind |-> "ModularMessage", chain |-> r.chain,
                      address |-> r.address, sequence |-> r.sequence,
                      payload |-> r.payload]
<1>1. CASE r \in [kind : {"VAAv1"}, chain : Nat, address : Seq(Digit),
                  sequence : Nat]
  BY <1>1
<1>2. CASE r \in [kind : {"NTTv1"}, chain : Nat, address : Seq(Digit),
                  messageId : Seq(Digit)]
  BY <1>2
<1>3. CASE r \in [kind : {"ModularMessage"}, chain : Nat,
                  address : Seq(Digit), sequence : Nat, payload : Seq(Digit)]
  BY <1>3
<1>4. QED
  BY <1>1, <1>2, <1>3 DEF Request

\* A request that fits travels.
LEMMA RequestTravels ==
  ASSUME NEW r \in Request, Fits(r)
  PROVE  Travels(r)
<1>1. /\ Constructed(r) /\ r.chain < Pow256[2]
      /\ r.kind # "NTTv1" => r.sequence < Pow256[U64]
      /\ r.kind = "ModularMessage" =>
           /\ r.payload # <<>> /\ Len(r.payload) % 2 = 0
           /\ Len(r.payload) \div 2 < Pow256[U32]
  BY RequestFields DEF Fits
<1>2. /\ Len(r.address) = 2 * Bytes32
      /\ r.kind = "NTTv1" => Len(r.messageId) = 2 * Bytes32
  BY <1>1 DEF Constructed
<1>3. CASE r.kind = "VAAv1"
  <2>1. PICK c \in Nat, a \in Seq(Digit), s \in Nat :
          /\ c = r.chain /\ a = r.address /\ s = r.sequence
          /\ r = [kind |-> "VAAv1", chain |-> c, address |-> a,
                  sequence |-> s]
    BY <1>3, RequestFields
  <2>2. c < Pow256[2] /\ Len(a) = 2 * Bytes32 /\ s < Pow256[U64]
    BY <1>1, <1>2, <1>3, <2>1
  <2>3. Travels([kind |-> "VAAv1", chain |-> c, address |-> a,
                 sequence |-> s])
    BY <2>2, VAAv1Travels
  <2>4. QED
    BY <2>1, <2>3
<1>4. CASE r.kind = "NTTv1"
  <2>1. PICK c \in Nat, a \in Seq(Digit), m \in Seq(Digit) :
          /\ c = r.chain /\ a = r.address /\ m = r.messageId
          /\ r = [kind |-> "NTTv1", chain |-> c, address |-> a,
                  messageId |-> m]
    BY <1>4, RequestFields
  <2>2. c < Pow256[2] /\ Len(a) = 2 * Bytes32 /\ Len(m) = 2 * Bytes32
    BY <1>1, <1>2, <1>4, <2>1
  <2>3. Travels([kind |-> "NTTv1", chain |-> c, address |-> a,
                 messageId |-> m])
    BY <2>2, NTTv1Travels
  <2>4. QED
    BY <2>1, <2>3
<1>5. CASE r.kind = "ModularMessage"
  <2>1. PICK c \in Nat, a \in Seq(Digit), s \in Nat, p \in Seq(Digit) :
          /\ c = r.chain /\ a = r.address /\ s = r.sequence /\ p = r.payload
          /\ r = [kind |-> "ModularMessage", chain |-> c, address |-> a,
                  sequence |-> s, payload |-> p]
    BY <1>5, RequestFields
  <2>2. /\ c < Pow256[2] /\ Len(a) = 2 * Bytes32 /\ s < Pow256[U64]
        /\ p # <<>> /\ Len(p) % 2 = 0 /\ Len(p) \div 2 < Pow256[U32]
    BY <1>1, <1>2, <1>5, <2>1
  <2>3. PICK n \in Nat \ {0} : Len(p) = 2 * n /\ n < Pow256[U32]
    <3>1. PICK l \in Nat : l = Len(p) /\ l # 0
      BY <2>2, DigitsAre, EmptySeq
    <3>2. PICK n \in Nat : n = l \div 2 /\ l = 2 * n /\ n # 0
      BY <2>2, <3>1
    <3>3. QED
      BY <2>2, <3>1, <3>2
  <2>4. Travels([kind |-> "ModularMessage", chain |-> c, address |-> a,
                 sequence |-> s, payload |-> p])
    BY <2>2, <2>3, ModularMessageTravels
  <2>5. QED
    BY <2>1, <2>4
<1>6. QED
  BY <1>3, <1>4, <1>5, RequestFields

\* A buffer that starts with the prefix of one kind is refused by the others.
LEMMA OthersRefuse ==
  ASSUME NEW b \in Seq(Byte), b # <<>>, NEW kind \in DOMAIN Prefix,
         subarray(b, 0, 4) # Prefix[kind]
  PROVE  from(kind, uint8ArrayToHex(b)) = Throws
<1>1. hexToBuffer(uint8ArrayToHex(b)) = b
  BY BufferOfHex
<1>2. CASE kind = "VAAv1"
  BY <1>1, <1>2, FromVAAv1
<1>3. CASE kind = "NTTv1"
  BY <1>1, <1>3, FromNTTv1
<1>4. CASE kind = "ModularMessage"
  BY <1>1, <1>4, FromModularMessage
<1>5. QED
  BY <1>2, <1>3, <1>4, PrefixType

-----------------------------------------------------------------------------
(* Relay instructions, one by one.                                          *)

\* An instruction is made of its fields.
LEMMA InstructionFields ==
  ASSUME NEW i \in Instruction
  PROVE  /\ i.type \in {1, 2}
         /\ i.type = 1 =>
              /\ i.gasLimit \in Nat /\ i.msgValue \in Nat
              /\ i = [type |-> 1, gasLimit |-> i.gasLimit,
                      msgValue |-> i.msgValue]
         /\ i.type = 2 =>
              /\ i.dropOff \in Nat /\ i.recipient \in Seq(Digit)
              /\ i = [type |-> 2, dropOff |-> i.dropOff,
                      recipient |-> i.recipient]
<1>1. CASE i \in [type : {1}, gasLimit : Nat, msgValue : Nat]
  BY <1>1
<1>2. CASE i \in [type : {2}, dropOff : Nat, recipient : Seq(Digit)]
  BY <1>2
<1>3. QED
  BY <1>1, <1>2 DEF Instruction

\* The type is one byte.
LEMMA TypeByte ==
  ASSUME NEW type \in {1, 2}
  PROVE  /\ type \in Nat /\ type < Pow256[1]
         /\ Bytes(type, 1) \in Seq(Byte) /\ Len(Bytes(type, 1)) = 1
         /\ Bytes(type, 1)[1] = type
<1>1. type \in Nat
  OBVIOUS
<1>2. Pow256[0] = 1 /\ Pow256[1] = 256 * Pow256[1 - 1]
  BY Sizes, Powers
<1>3. Pow256[1] = 256
  BY <1>2
<1>4. /\ Bytes(type, 1) \in Seq(Byte) /\ Len(Bytes(type, 1)) = 1
      /\ Bytes(type, 1)[1] = (type \div Pow256[1 - 1]) % 256
  <2>1. \A w \in Widths :
          /\ Bytes(type, w) \in Seq(Byte) /\ Len(Bytes(type, w)) = w
          /\ \A i \in 1..w :
               Bytes(type, w)[i] = (type \div Pow256[w - i]) % 256
    BY <1>1, BytesType
  <2>2. 1 \in 1..1
    OBVIOUS
  <2>3. 1 \in Widths
    BY DEF Widths
  <2>4. /\ Bytes(type, 1) \in Seq(Byte) /\ Len(Bytes(type, 1)) = 1
        /\ \A i \in 1..1 : Bytes(type, 1)[i] = (type \div Pow256[1 - i]) % 256
    BY <2>1, <2>3, ZenonT(60)
  <2>5. QED
    BY <2>2, <2>4, Zenon
<1>5. Pow256[1 - 1] = 1
  BY <1>2
<1>6. (type \div 1) % 256 = type
  OBVIOUS
<1>7. QED
  BY <1>1, <1>3, <1>4, <1>5, <1>6

GasBytes(d, gasLimit, msgValue) ==
  ((d \o Bytes(1, 1)) \o Bytes(gasLimit, U128)) \o Bytes(msgValue, U128)

DropOffBytes(d, dropOff, recipient) ==
  ((d \o Bytes(2, 1)) \o Bytes(dropOff, U128)) \o hexToBuffer(recipient)

\* The type and the first number of an instruction are written.
LEMMA TagWritten ==
  ASSUME NEW w \in Writer, NEW type \in {1, 2}, NEW n \in Nat, n < Pow256[U128]
  PROVE  /\ writeUint(writeUint(w, type, 1), n, U128) \in Writer
         /\ writeUint(writeUint(w, type, 1), n, U128).data
              = (w.data \o Bytes(type, 1)) \o Bytes(n, U128)
<1>1. PICK v \in Writer :
        v = writeUint(w, type, 1) /\ v.data = w.data \o Bytes(type, 1)
  BY TypeByte, Sizes, WrittenUint, ZenonT(60)
<1>2. /\ writeUint(v, n, U128) \in Writer
      /\ writeUint(v, n, U128).data = v.data \o Bytes(n, U128)
  BY Sizes, WrittenUint
<1>3. QED
  BY <1>1, <1>2

\* A gas instruction is written.
LEMMA GasWritten ==
  ASSUME NEW w \in Writer, NEW g \in Nat, NEW m \in Nat,
         g < Pow256[U128], m < Pow256[U128]
  PROVE  LET v == WriteInstruction(w, [type |-> 1, gasLimit |-> g,
                                       msgValue |-> m])
         IN v \in Writer /\ v.data = GasBytes(w.data, g, m)
<1>1. PICK u \in Writer :
        /\ u = writeUint(writeUint(w, 1, 1), g, U128)
        /\ u.data = (w.data \o Bytes(1, 1)) \o Bytes(g, U128)
  BY TagWritten
<1>2. /\ writeUint(u, m, U128) \in Writer
      /\ writeUint(u, m, U128).data = u.data \o Bytes(m, U128)
  BY Sizes, WrittenUint
<1>3. WriteInstruction(w, [type |-> 1, gasLimit |-> g, msgValue |-> m])
        = writeUint(u, m, U128)
  BY <1>1 DEF WriteInstruction, RECV_INST_TYPE_GAS
<1>4. QED
  BY <1>1, <1>2, <1>3 DEF GasBytes

\* A drop-off is written.
LEMMA DropOffWritten ==
  ASSUME NEW w \in Writer, NEW a \in Nat, NEW r \in Seq(Digit),
         a < Pow256[U128], r # <<>>
  PROVE  LET v == WriteInstruction(w, [type |-> 2, dropOff |-> a,
                                       recipient |-> r])
         IN v \in Writer /\ v.data = DropOffBytes(w.data, a, r)
<1>1. PICK u \in Writer :
        /\ u = writeUint(writeUint(w, 2, 1), a, U128)
        /\ u.data = (w.data \o Bytes(2, 1)) \o Bytes(a, U128)
  BY TagWritten
<1>2. /\ writeHex(u, r) \in Writer
      /\ writeHex(u, r).data = u.data \o hexToBuffer(r)
  BY WrittenHex
<1>3. WriteInstruction(w, [type |-> 2, dropOff |-> a, recipient |-> r])
        = writeHex(u, r)
  BY <1>1 DEF WriteInstruction, RECV_INST_TYPE_GAS
<1>4. QED
  BY <1>1, <1>2, <1>3 DEF DropOffBytes

\* Whatever an instruction is, it is written or it throws.
LEMMA InstructionWrittenOrNot ==
  ASSUME NEW w \in Writer \cup {Throws}, NEW i \in Instruction
  PROVE  WriteInstruction(w, i) \in Writer \cup {Throws}
<1>1. \A v \in Writer \cup {Throws}, n \in Nat, width \in Widths :
        writeUint(v, n, width) \in Writer \cup {Throws}
  BY WrittenOrNot
<1>2. \A v \in Writer \cup {Throws}, s \in Seq(Digit) :
        writeHex(v, s) \in Writer \cup {Throws}
  BY WrittenOrNot
<1>3. i.type \in Nat /\ 1 \in Widths /\ U128 \in Widths
  BY InstructionFields, Sizes
<1>4. PICK v \in Writer \cup {Throws} : v = writeUint(w, i.type, 1)
  BY <1>1, <1>3
<1>5. CASE i.type = 1
  <2>1. i.gasLimit \in Nat /\ i.msgValue \in Nat
    BY <1>5, InstructionFields
  <2>2. WriteInstruction(w, i) =
          writeUint(writeUint(v, i.gasLimit, U128), i.msgValue, U128)
    BY <1>4, <1>5 DEF WriteInstruction, RECV_INST_TYPE_GAS
  <2>3. QED
    BY <1>1, <1>3, <2>1, <2>2
<1>6. CASE i.type = 2
  <2>1. i.dropOff \in Nat /\ i.recipient \in Seq(Digit)
    BY <1>6, InstructionFields
  <2>2. WriteInstruction(w, i) =
          writeHex(writeUint(v, i.dropOff, U128), i.recipient)
    BY <1>4, <1>6 DEF WriteInstruction, RECV_INST_TYPE_GAS
  <2>3. QED
    BY <1>1, <1>2, <1>3, <2>1, <2>2
<1>7. QED
  BY <1>5, <1>6, InstructionFields

\* The type is read where it was written.
LEMMA TypeRead ==
  ASSUME NEW b \in Seq(Byte), NEW d \in Seq(Byte), NEW type \in {1, 2},
         StartsWith(b, d \o Bytes(type, 1))
  PROVE  StartsWith(b, d) /\ b[Len(d) + 1] = type
<1>1. PICK p \in Seq(Byte) : p = Bytes(type, 1) /\ p[1] = type
  BY TypeByte
<1>2. Len(p) = 1
  BY <1>1, TypeByte
<1>3. /\ StartsWith(b, d) /\ subarray(b, Len(d), Len(p)) = p
      /\ Len(d) + Len(p) <= Len(b)
  BY <1>1, Piece
<1>4. PICK o \in Nat : o = Len(d)
  BY LenProperties
<1>5. o + 1 <= Len(b) /\ subarray(b, o, 1) = p
  BY <1>2, <1>3, <1>4
<1>6. \A l \in Nat : o + l <= Len(b) =>
        \A i \in 1..l : subarray(b, o, l)[i] = b[o + i]
  BY Subarrays
<1>7. 1 \in Nat /\ 1 \in 1..1
  OBVIOUS
<1>8. subarray(b, o, 1)[1] = b[o + 1]
  BY <1>5, <1>6, <1>7, Zenon
<1>9. QED
  BY <1>1, <1>3, <1>4, <1>5, <1>8

\* The type adds one byte.
LEMMA TypeJoins ==
  ASSUME NEW d \in Seq(Byte), NEW type \in {1, 2}
  PROVE  /\ d \o Bytes(type, 1) \in Seq(Byte)
         /\ Len(d \o Bytes(type, 1)) = Len(d) + 1
<1>1. PICK p \in Seq(Byte) : p = Bytes(type, 1)
  BY TypeByte
<1>2. d \o p \in Seq(Byte) /\ Len(d \o p) = Len(d) + Len(p)
  BY ConcatProperties
<1>3. Len(p) = 1
  BY <1>1, TypeByte
<1>4. QED
  BY <1>1, <1>2, <1>3

\* A gas instruction is read where it was written.
LEMMA GasRead ==
  ASSUME NEW b \in Seq(Byte), NEW d \in Seq(Byte), NEW g \in Nat, NEW m \in Nat,
         g < Pow256[U128], m < Pow256[U128],
         StartsWith(b, GasBytes(d, g, m))
  PROVE  /\ StartsWith(b, d) /\ b[Len(d) + 1] = 1
         /\ GasBytes(d, g, m) \in Seq(Byte)
         /\ Len(GasBytes(d, g, m)) = Len(d) + Size(1)
         /\ ReadInstruction(b, Len(d)) =
              [type |-> 1, gasLimit |-> g, msgValue |-> m]
<1> DEFINE d1 == d \o Bytes(1, 1)
           d2 == d1 \o Bytes(g, U128)
           d3 == d2 \o Bytes(m, U128)
<1>1. PICK o \in Nat : o = Len(d)
  BY LenProperties
<1>2. d1 \in Seq(Byte) /\ Len(d1) = o + 1
  BY <1>1, TypeJoins
<1>3. /\ Bytes(g, U128) \in Seq(Byte) /\ Len(Bytes(g, U128)) = U128
      /\ Bytes(m, U128) \in Seq(Byte) /\ Len(Bytes(m, U128)) = U128
  BY Sizes, BytesType
<1> HIDE DEF d1
<1>4. d2 \in Seq(Byte) /\ Len(d2) = (o + 1) + U128
  BY <1>2, <1>3, Sizes, Joins
<1> HIDE DEF d2
<1>5. d3 \in Seq(Byte) /\ Len(d3) = ((o + 1) + U128) + U128
  BY <1>3, <1>4, Sizes, Joins
<1>6. StartsWith(b, d2) /\ Big(subarray(b, Len(d2), U128)) = m
  <2>1. StartsWith(b, d2 \o Bytes(m, U128))
    BY DEF GasBytes, d2, d1
  <2>2. d2 \in Seq(Byte)
    BY <1>4
  <2>3. QED
    BY <2>1, <2>2, Sizes, NumberPiece
<1>7. StartsWith(b, d1) /\ Big(subarray(b, Len(d1), U128)) = g
  <2>1. StartsWith(b, d1 \o Bytes(g, U128))
    BY <1>6 DEF d2
  <2>2. d1 \in Seq(Byte)
    BY <1>2
  <2>3. QED
    BY <2>1, <2>2, Sizes, NumberPiece
<1>8. StartsWith(b, d) /\ b[Len(d) + 1] = 1
  <2>1. StartsWith(b, d \o Bytes(1, 1))
    BY <1>7 DEF d1
  <2>2. QED
    BY <2>1, TypeRead
<1> HIDE DEF d3
<1>9. GasBytes(d, g, m) = d3
  BY DEF GasBytes, d3, d2, d1
<1>10. o + (1 + U128) = (o + 1) + U128 /\ Size(1) = 1 + 2 * U128
  BY Sizes DEF Size, RECV_INST_TYPE_GAS
<1>11. /\ Big(subarray(b, o + 1, U128)) = g
       /\ Big(subarray(b, o + (1 + U128), U128)) = m
  BY <1>2, <1>4, <1>6, <1>7, <1>10
<1>12. ReadInstruction(b, o) = [type |-> 1, gasLimit |-> g, msgValue |-> m]
  BY <1>1, <1>8, <1>11 DEF ReadInstruction, RECV_INST_TYPE_GAS
<1>13. ((o + 1) + U128) + U128 = o + Size(1)
  BY <1>10, Sizes
<1>14. QED
  BY <1>1, <1>5, <1>8, <1>9, <1>12, <1>13

\* A drop-off is read where it was written.
LEMMA DropOffRead ==
  ASSUME NEW b \in Seq(Byte), NEW d \in Seq(Byte), NEW a \in Nat,
         NEW r \in Seq(Digit), a < Pow256[U128], Len(r) = 2 * Bytes32,
         StartsWith(b, DropOffBytes(d, a, r))
  PROVE  /\ StartsWith(b, d) /\ b[Len(d) + 1] = 2
         /\ DropOffBytes(d, a, r) \in Seq(Byte)
         /\ Len(DropOffBytes(d, a, r)) = Len(d) + Size(2)
         /\ ReadInstruction(b, Len(d)) =
              [type |-> 2, dropOff |-> a, recipient |-> r]
<1> DEFINE d1 == d \o Bytes(2, 1)
           d2 == d1 \o Bytes(a, U128)
           d3 == d2 \o hexToBuffer(r)
<1>1. PICK o \in Nat : o = Len(d)
  BY LenProperties
<1>2. d1 \in Seq(Byte) /\ Len(d1) = o + 1
  BY <1>1, TypeJoins
<1>3. /\ Bytes(a, U128) \in Seq(Byte) /\ Len(Bytes(a, U128)) = U128
      /\ hexToBuffer(r) \in Seq(Byte) /\ Len(hexToBuffer(r)) = Bytes32
  BY Sizes, BytesType, EvenHex, SMTT(40)
<1> HIDE DEF d1
<1>4. d2 \in Seq(Byte) /\ Len(d2) = (o + 1) + U128
  BY <1>2, <1>3, Sizes, Joins, SMTT(40)
<1> HIDE DEF d2
<1>5. d3 \in Seq(Byte) /\ Len(d3) = ((o + 1) + U128) + Bytes32
  BY <1>3, <1>4, Sizes, Joins
<1>6. /\ StartsWith(b, d2)
      /\ uint8ArrayToHex(subarray(b, Len(d2), Bytes32)) = r
  <2>1. StartsWith(b, d2 \o hexToBuffer(r))
    BY DEF DropOffBytes, d2, d1
  <2>2. d2 \in Seq(Byte)
    BY <1>4
  <2>3. QED
    BY <2>1, <2>2, Sizes, HexPiece
<1>7. StartsWith(b, d1) /\ Big(subarray(b, Len(d1), U128)) = a
  <2>1. StartsWith(b, d1 \o Bytes(a, U128))
    BY <1>6 DEF d2
  <2>2. d1 \in Seq(Byte)
    BY <1>2
  <2>3. QED
    BY <2>1, <2>2, Sizes, NumberPiece
<1>8. StartsWith(b, d) /\ b[Len(d) + 1] = 2
  <2>1. StartsWith(b, d \o Bytes(2, 1))
    BY <1>7 DEF d1
  <2>2. QED
    BY <2>1, TypeRead
<1> HIDE DEF d3
<1>9. DropOffBytes(d, a, r) = d3
  BY DEF DropOffBytes, d3, d2, d1
<1>10. o + 1 + U128 = (o + 1) + U128 /\ Size(2) = 1 + U128 + Bytes32
  BY Sizes DEF Size, RECV_INST_TYPE_GAS
<1>11. /\ Big(subarray(b, o + 1, U128)) = a
       /\ uint8ArrayToHex(subarray(b, o + 1 + U128, Bytes32)) = r
  BY <1>2, <1>4, <1>6, <1>7, <1>10
<1>12. ReadInstruction(b, o) = [type |-> 2, dropOff |-> a, recipient |-> r]
  BY <1>1, <1>8, <1>11 DEF ReadInstruction, RECV_INST_TYPE_GAS
<1>13. ((o + 1) + U128) + Bytes32 = o + Size(2)
  BY <1>10, Sizes
<1>14. QED
  BY <1>1, <1>5, <1>8, <1>9, <1>12, <1>13

-----------------------------------------------------------------------------
(* Lists of instructions.                                                   *)

\* The writers f a list goes through.
Wrote(list, f) ==
  /\ f \in [0..Len(list) -> Writer \cup {Throws}] /\ f[0] = NewWriter
  /\ \A k \in 1..Len(list) : f[k] = WriteInstruction(f[k - 1], list[k])

IsEncoding(f, list) ==
  f = [k \in 0..Len(list) |->
         IF k = 0 THEN NewWriter ELSE WriteInstruction(f[k - 1], list[k])]

\* The recursive function of the encoder is the one chosen by its equation.
LEMMA EncodingIs ==
  ASSUME NEW list
  PROVE  encodeRelayInstructions(list)
           = toHex((CHOOSE f : IsEncoding(f, list))[Len(list)])
BY DEF encodeRelayInstructions, IsEncoding

\* The encoder's loop runs, over whatever list.
LEMMA ListWritten ==
  ASSUME NEW list \in Seq(Instruction)
  PROVE  \E f : /\ Wrote(list, f)
                /\ encodeRelayInstructions(list) = toHex(f[Len(list)])
<1> DEFINE n == Len(list)
           V == Writer \cup {Throws}
           step == [v \in V |-> [k \in 1..n |-> WriteInstruction(v, list[k])]]
           chosen == CHOOSE f : IsEncoding(f, list)
<1>1. n \in Nat /\ \A k \in 1..n : list[k] \in Instruction
  BY LenProperties, ElementOfSeq
<1>2. \A v \in V, k \in 1..n : step[v][k] = WriteInstruction(v, list[k])
  OBVIOUS
<1>3. \A v \in V, i \in Instruction : WriteInstruction(v, i) \in V
  BY InstructionWrittenOrNot
<1> HIDE DEF step, V
<1>4. \A v \in V, k \in 1..n : step[v][k] \in V
  BY <1>1, <1>2, <1>3
<1>5. NewWriter \in V
  BY NewWriterType DEF V
<1>6. PICK f \in [0..n -> V] : Runs(f, n, NewWriter, step)
  <2> HIDE DEF n
  <2> QED BY <1>1, <1>4, <1>5, LoopRuns
<1>7. f = [k \in 0..n |-> IF k = 0 THEN NewWriter
                           ELSE WriteInstruction(f[k - 1], list[k])]
  <2>1. ASSUME NEW k \in 0..n
        PROVE  f[k] = IF k = 0 THEN NewWriter
                        ELSE WriteInstruction(f[k - 1], list[k])
    <3>1. CASE k = 0
      BY <1>6, <3>1 DEF Runs
    <3>2. CASE k # 0
      <4>1. k \in 1..n /\ k - 1 \in 0..n
        BY <1>1, <3>2
      <4>2. f[k - 1] \in V /\ f[k] = step[f[k - 1]][k]
        BY <1>6, <4>1 DEF Runs
      <4>3. QED
        BY <1>2, <3>2, <4>1, <4>2
    <3>3. QED
      BY <3>1, <3>2
  <2>2. QED
    BY <1>6, <2>1
<1>8. IsEncoding(f, list)
  BY <1>7 DEF IsEncoding
<1>9. IsEncoding(chosen, list)
  BY <1>8
<1> HIDE DEF chosen
<1>10. /\ chosen[0] = NewWriter
       /\ \A k \in 1..n : chosen[k] = WriteInstruction(chosen[k - 1], list[k])
  BY <1>9, <1>1 DEF IsEncoding
<1> DEFINE G == {k \in 0..n : chosen[k] \in V}
<1>11. 0 \in G /\ \A k \in 1..n : k - 1 \in G => k \in G
  BY <1>1, <1>3, <1>5, <1>10, SMTT(40)
<1>12. \A k \in 0..n : k \in G
  <2> HIDE DEF G, n
  <2> QED BY <1>1, <1>11, CountUp
<1>13. chosen \in [0..n -> V]
  BY <1>9, <1>12 DEF IsEncoding
<1>14. encodeRelayInstructions(list) = toHex(chosen[n])
  BY EncodingIs DEF chosen
<1>15. QED
  BY <1>10, <1>13, <1>14 DEF Wrote, V

\* A list goes through the same writers whenever it is encoded.
LEMMA WrittenAs ==
  ASSUME NEW list \in Seq(Instruction), NEW f, Wrote(list, f)
  PROVE  encodeRelayInstructions(list) = toHex(f[Len(list)])
<1>1. PICK n \in Nat : n = Len(list)
  BY LenProperties
<1>2. PICK g : /\ Wrote(list, g)
               /\ encodeRelayInstructions(list) = toHex(g[n])
  BY <1>1, ListWritten
<1> DEFINE G == {k \in 0..n : f[k] = g[k]}
<1>3. 0 \in G /\ \A k \in 1..n : k - 1 \in G => k \in G
  BY <1>1, <1>2 DEF Wrote
<1>4. \A k \in 0..n : k \in G
  <2> HIDE DEF G
  <2> QED BY <1>3, CountUp
<1>5. f[n] = g[n]
  BY <1>4
<1>6. QED
  BY <1>1, <1>2, <1>5

\* An empty list leaves the new writer.
LEMMA WroteNothing ==
  Wrote(<<>>, [k \in 0..0 |-> NewWriter])
BY NewWriterType DEF Wrote

\* One more instruction is one more round of the encoder.
LEMMA WroteMore ==
  ASSUME NEW list \in Seq(Instruction), NEW i \in Instruction, NEW f,
         Wrote(list, f), NEW w, w = WriteInstruction(f[Len(list)], i)
  PROVE  \E g : Wrote(Append(list, i), g) /\ g[Len(list) + 1] = w
<1>1. PICK n \in Nat : n = Len(list)
  BY LenProperties
<1>2. PICK more \in Seq(Instruction) :
        /\ more = Append(list, i) /\ Len(more) = n + 1 /\ more[n + 1] = i
        /\ \A k \in 1..n : more[k] = list[k]
  <2>1. /\ Append(list, i) \in Seq(Instruction)
        /\ Len(Append(list, i)) = Len(list) + 1
        /\ \A k \in 1..Len(list) : Append(list, i)[k] = list[k]
        /\ Append(list, i)[Len(list) + 1] = i
    BY AppendProperties
  <2>2. QED
    BY <1>1, <2>1, Zenon
<1> DEFINE g == [k \in 0..(n + 1) |-> IF k = n + 1 THEN w ELSE f[k]]
           V == Writer \cup {Throws}
<1>3. /\ f \in [0..n -> V] /\ f[0] = NewWriter /\ f[n] \in V
      /\ \A k \in 1..n : f[k] = WriteInstruction(f[k - 1], list[k])
  BY <1>1 DEF Wrote
<1>4. w \in V
  BY <1>1, <1>3, InstructionWrittenOrNot
<1> HIDE DEF V
<1>5. g \in [0..(n + 1) -> V]
  BY <1>3, <1>4
<1>6. g[n + 1] = w /\ \A k \in 0..n : g[k] = f[k]
  OBVIOUS
<1> HIDE DEF g
<1>7. ASSUME NEW k \in 1..(n + 1)
      PROVE  g[k] = WriteInstruction(g[k - 1], more[k])
  <2>1. CASE k = n + 1
    <3>1. k - 1 = n
      BY <2>1
    <3>2. g[k - 1] = f[n] /\ more[k] = i
      BY <1>2, <1>6, <2>1, <3>1
    <3>3. QED
      BY <1>1, <1>6, <2>1, <3>2
  <2>2. CASE k # n + 1
    <3>1. k \in 1..n /\ k \in 0..n /\ k - 1 \in 0..n
      BY <2>2
    <3>2. QED
      BY <1>2, <1>3, <1>6, <3>1
  <2>3. QED
    BY <2>1, <2>2
<1>8. g[0] = NewWriter
  BY <1>3, <1>6
<1>9. Wrote(more, g)
  BY <1>2, <1>5, <1>7, <1>8 DEF Wrote, V
<1>10. QED
  BY <1>1, <1>2, <1>6, <1>9

\* What is read is an instruction, however short the buffer.
LEMMA ReadInstructionType ==
  ASSUME NEW b \in Seq(Byte), NEW o \in Nat, NEW type \in {1, 2},
         b[o + 1] = type
  PROVE  ReadInstruction(b, o) \in Instruction
<1>1. \A at, l \in Nat : /\ Big(subarray(b, at, l)) \in Nat
                         /\ uint8ArrayToHex(subarray(b, at, l)) \in Seq(Digit)
  <2>1. ASSUME NEW at \in Nat, NEW l \in Nat
        PROVE  /\ Big(subarray(b, at, l)) \in Nat
               /\ uint8ArrayToHex(subarray(b, at, l)) \in Seq(Digit)
    <3>1. PICK s \in Seq(Byte) : s = subarray(b, at, l)
      BY Subarrays
    <3>2. PICK f \in [0..Len(s) -> Nat] : Big(s) = f[Len(s)]
      BY BigReads
    <3>3. Len(s) \in 0..Len(s)
      BY LenProperties
    <3>4. QED
      BY <3>1, <3>2, <3>3, HexOf, ZenonT(60)
  <2>2. QED
    BY <2>1
<1>2. /\ o + 1 \in Nat /\ o + (1 + U128) \in Nat /\ o + 1 + U128 \in Nat
      /\ U128 \in Nat /\ Bytes32 \in Nat
  BY Sizes
<1>3. PICK g \in Nat, m \in Nat, r \in Seq(Digit) :
        /\ g = Big(subarray(b, o + 1, U128))
        /\ m = Big(subarray(b, o + (1 + U128), U128))
        /\ r = uint8ArrayToHex(subarray(b, o + 1 + U128, Bytes32))
  BY <1>1, <1>2
<1>4. CASE type = 1
  <2>1. ReadInstruction(b, o) = [type |-> 1, gasLimit |-> g, msgValue |-> m]
    BY <1>3, <1>4 DEF ReadInstruction, RECV_INST_TYPE_GAS
  <2>2. QED
    BY <2>1 DEF Instruction
<1>5. CASE type = 2
  <2>1. ReadInstruction(b, o) = [type |-> 2, dropOff |-> g, recipient |-> r]
    BY <1>3, <1>5 DEF ReadInstruction, RECV_INST_TYPE_GAS
  <2>2. QED
    BY <2>1 DEF Instruction
<1>6. QED
  BY <1>4, <1>5

LoopState == [offset : Nat, list : Seq(Instruction)]

\* A state of the decoder's loop is no exception.
LEMMA LoopStateNotThrows == \A s \in LoopState : s # Throws
BY ValueAssumption DEF LoopState

\* Every instruction takes at least its type byte.
LEMMA SizeType ==
  \A type \in {1, 2} : Size(type) \in Nat /\ Size(type) >= 1
BY Sizes DEF Size, RECV_INST_TYPE_GAS

\* The rounds of the loop, by what they start from.
LEMMA RoundIs ==
  ASSUME NEW b \in Seq(Byte), NEW o \in Nat, NEW list \in Seq(Instruction)
  PROVE  LET s == [offset |-> o, list |-> list]
         IN /\ o >= Len(b) => Round(b, s) = s
            /\ o < Len(b) =>
                 Round(b, s) =
                   IF b[o + 1] \notin {1, 2} THEN Throws
                     ELSE [offset |-> o + Size(b[o + 1]),
                           list |-> Append(list, ReadInstruction(b, o))]
<1> DEFINE s == [offset |-> o, list |-> list]
<1>1. s # Throws
  BY LoopStateNotThrows DEF LoopState
<1>2. o \in Nat /\ Len(b) \in Nat
  BY LenProperties
<1>3. o < Len(b) => ~(o >= Len(b))
  BY <1>2
<1>4. QED
  BY <1>1, <1>3, Zenon
     DEF Round, RECV_INST_TYPE_GAS, RECV_INST_TYPE_DROP_OFF

\* A round ends in a state of the loop or in an exception.
LEMMA RoundType ==
  ASSUME NEW b \in Seq(Byte), NEW s \in LoopState \cup {Throws}
  PROVE  Round(b, s) \in LoopState \cup {Throws}
<1>1. CASE s = Throws
  BY <1>1 DEF Round
<1>2. CASE s # Throws
  <2>1. PICK o \in Nat, list \in Seq(Instruction) :
          s = [offset |-> o, list |-> list]
    BY <1>2 DEF LoopState
  <2>2. Len(b) \in Nat
    BY LenProperties
  <2>3. CASE o >= Len(b)
    <3>1. Round(b, s) = s
      BY <2>1, <2>3, RoundIs
    <3>2. QED
      BY <3>1
  <2>4. CASE o < Len(b) /\ b[o + 1] \notin {1, 2}
    <3>1. Round(b, s) = Throws
      BY <2>1, <2>4, RoundIs
    <3>2. QED
      BY <3>1
  <2>5. CASE o < Len(b) /\ b[o + 1] \in {1, 2}
    <3>1. PICK type \in {1, 2} : type = b[o + 1]
      BY <2>5
    <3>2. PICK i \in Instruction : i = ReadInstruction(b, o)
      BY <3>1, ReadInstructionType
    <3>3. Round(b, s) = [offset |-> o + Size(type), list |-> Append(list, i)]
      BY <2>1, <2>5, <3>1, <3>2, RoundIs
    <3>4. o + Size(type) \in Nat
      BY SizeType
    <3>5. Append(list, i) \in Seq(Instruction)
      BY AppendProperties
    <3>6. QED
      BY <3>3, <3>4, <3>5 DEF LoopState
  <2>6. QED
    BY <2>2, <2>3, <2>4, <2>5
<1>3. QED
  BY <1>1, <1>2

\* The states f the loop goes through.
Read(b, f) ==
  /\ f \in [0..Len(b) -> LoopState \cup {Throws}]
  /\ f[0] = [offset |-> 0, list |-> <<>>]
  /\ \A k \in 1..Len(b) : f[k] = Round(b, f[k - 1])

IsDecoding(f, b) ==
  f = [k \in 0..Len(b) |-> IF k = 0 THEN [offset |-> 0, list |-> <<>>]
                             ELSE Round(b, f[k - 1])]

\* The recursive function of the decoder is the one chosen by its equation.
LEMMA DecodingIs ==
  ASSUME NEW digits
  PROVE  LET b == hexToBuffer(digits)
             last == (CHOOSE f : IsDecoding(f, b))[Len(b)]
         IN decodeRelayInstructions(digits) =
              IF b = Throws \/ last = Throws THEN Throws
                ELSE IF RanPast(last.offset, Len(b)) THEN Throws
                ELSE last.list
BY DEF decodeRelayInstructions, IsDecoding

\* The decoder's loop runs, over whatever bytes.
LEMMA ListRead ==
  ASSUME NEW digits, NEW b \in Seq(Byte), hexToBuffer(digits) = b
  PROVE  \E f : /\ Read(b, f)
                /\ decodeRelayInstructions(digits) =
                     IF f[Len(b)] = Throws THEN Throws
                       ELSE IF f[Len(b)].offset > Len(b) THEN Throws
                       ELSE f[Len(b)].list
<1> DEFINE n == Len(b)
           V == LoopState \cup {Throws}
           base == [offset |-> 0, list |-> <<>>]
           step == [v \in V |-> [k \in 1..n |-> Round(b, v)]]
           chosen == CHOOSE f : IsDecoding(f, b)
<1>1. n \in Nat
  BY LenProperties
<1>2. \A v \in V, k \in 1..n : step[v][k] = Round(b, v)
  OBVIOUS
<1>3. \A v \in V : Round(b, v) \in V
  BY RoundType
<1>4. base \in V
  BY DEF LoopState
<1> HIDE DEF step, V
<1>5. \A v \in V, k \in 1..n : step[v][k] \in V
  BY <1>2, <1>3
<1> HIDE DEF base
<1>6. PICK f \in [0..n -> V] : Runs(f, n, base, step)
  <2> HIDE DEF n
  <2> QED BY <1>1, <1>5, <1>4, LoopRuns
<1>7. f = [k \in 0..n |-> IF k = 0 THEN base ELSE Round(b, f[k - 1])]
  <2>1. ASSUME NEW k \in 0..n
        PROVE  f[k] = IF k = 0 THEN base ELSE Round(b, f[k - 1])
    <3>1. CASE k = 0
      BY <1>6, <3>1 DEF Runs
    <3>2. CASE k # 0
      <4>1. k \in 1..n /\ k - 1 \in 0..n
        BY <1>1, <3>2
      <4>2. f[k - 1] \in V /\ f[k] = step[f[k - 1]][k]
        BY <1>6, <4>1 DEF Runs
      <4>3. QED
        BY <1>2, <3>2, <4>1, <4>2
    <3>3. QED
      BY <3>1, <3>2
  <2>2. QED
    BY <1>6, <2>1
<1>8. IsDecoding(f, b)
  BY <1>7 DEF IsDecoding, base
<1>9. IsDecoding(chosen, b)
  BY <1>8
<1> HIDE DEF chosen
<1>10. /\ chosen[0] = base
       /\ \A k \in 1..n : chosen[k] = Round(b, chosen[k - 1])
  BY <1>9, <1>1 DEF IsDecoding, base
<1> DEFINE G == {k \in 0..n : chosen[k] \in V}
<1>11. 0 \in G /\ \A k \in 1..n : k - 1 \in G => k \in G
  BY <1>1, <1>3, <1>4, <1>10
<1>12. \A k \in 0..n : k \in G
  <2> HIDE DEF G, n
  <2> QED BY <1>1, <1>11, CountUp
<1>13. chosen \in [0..n -> V]
  BY <1>9, <1>12 DEF IsDecoding
<1>14. Read(b, chosen)
  BY <1>10, <1>13 DEF Read, V, base
<1>15. b # Throws
  BY NotThrows
<1>16. decodeRelayInstructions(digits) =
         IF chosen[n] = Throws THEN Throws
           ELSE IF chosen[n].offset > n THEN Throws
           ELSE chosen[n].list
  <2>1. decodeRelayInstructions(digits) =
          IF b = Throws \/ chosen[n] = Throws THEN Throws
            ELSE IF RanPast(chosen[n].offset, n) THEN Throws
            ELSE chosen[n].list
    BY DecodingIs DEF chosen
  <2>2. QED
    BY <1>15, <2>1 DEF RanPast
<1>17. QED
  BY <1>14, <1>16

\* What the fields of an instruction have room for.
FitsInstruction(i) ==
  IF i.type = RECV_INST_TYPE_GAS
    THEN {i.gasLimit, i.msgValue} \subseteq 0..(Pow256[U128] - 1)
    ELSE i.dropOff < Pow256[U128] /\ Len(i.recipient) = 2 * Bytes32

\* An instruction that fits is written, and read where it was written.
LEMMA InstructionReadsBack ==
  ASSUME NEW w \in Writer, NEW i \in Instruction, FitsInstruction(i)
  PROVE  LET v == WriteInstruction(w, i)
         IN /\ v \in Writer /\ Len(v.data) = Len(w.data) + Size(i.type)
            /\ \A b \in Seq(Byte) :
                 StartsWith(b, v.data) =>
                   /\ StartsWith(b, w.data) /\ b[Len(w.data) + 1] = i.type
                   /\ ReadInstruction(b, Len(w.data)) = i
<1>1. PICK d \in Seq(Byte) : d = w.data
  BY DEF Writer
<1>2. \A v \in Writer : v.data \in Seq(Byte) /\ StartsWith(v.data, v.data)
  BY StartsWithItself DEF Writer
<1>3. CASE i.type = 1
  <2>1. PICK g \in Nat, m \in Nat :
          /\ g = i.gasLimit /\ m = i.msgValue
          /\ i = [type |-> 1, gasLimit |-> g, msgValue |-> m]
    BY <1>3, InstructionFields
  <2>2. g < Pow256[U128] /\ m < Pow256[U128]
    <3>1. PICK p \in Nat : p = Pow256[U128]
      BY Sizes, Powers, SMTT(40)
    <3>2. {g, m} \subseteq 0..(p - 1)
      BY <1>3, <2>1, <3>1 DEF FitsInstruction, RECV_INST_TYPE_GAS
    <3>3. g < p /\ m < p
      BY <3>2
    <3>4. QED
      BY <3>1, <3>3
  <2>3. PICK v \in Writer :
          v = WriteInstruction(w, i) /\ v.data = GasBytes(d, g, m)
    BY <1>1, <2>1, <2>2, GasWritten
  <2>4. \A b \in Seq(Byte) :
          StartsWith(b, v.data) =>
            /\ StartsWith(b, d) /\ b[Len(d) + 1] = 1
            /\ Len(v.data) = Len(d) + Size(1)
            /\ ReadInstruction(b, Len(d)) = i
    BY <2>1, <2>2, <2>3, GasRead, SMTT(40)
  <2>5. Len(v.data) = Len(d) + Size(1)
    BY <1>2, <2>4
  <2>6. QED
    BY <1>1, <1>3, <2>3, <2>4, <2>5
<1>4. CASE i.type = 2
  <2>1. PICK a \in Nat, r \in Seq(Digit) :
          /\ a = i.dropOff /\ r = i.recipient
          /\ i = [type |-> 2, dropOff |-> a, recipient |-> r]
    BY <1>4, InstructionFields
  <2>2. a < Pow256[U128] /\ Len(r) = 2 * Bytes32
    BY <1>4, <2>1 DEF FitsInstruction, RECV_INST_TYPE_GAS
  <2>3. r # <<>>
    BY <2>2, Sizes, EvenHex
  <2>4. PICK v \in Writer :
          v = WriteInstruction(w, i) /\ v.data = DropOffBytes(d, a, r)
    BY <1>1, <2>3, <2>1, <2>2, DropOffWritten
  <2>5. \A b \in Seq(Byte) :
          StartsWith(b, v.data) =>
            /\ StartsWith(b, d) /\ b[Len(d) + 1] = 2
            /\ Len(v.data) = Len(d) + Size(2)
            /\ ReadInstruction(b, Len(d)) = i
    BY <2>1, <2>2, <2>4, DropOffRead, SMTT(40)
  <2>6. Len(v.data) = Len(d) + Size(2)
    BY <1>2, <2>5
  <2>7. QED
    BY <1>1, <1>4, <2>4, <2>5, <2>6
<1>5. QED
  BY <1>3, <1>4, InstructionFields

\* The first k are the first k - 1 and the k-th.
LEMMA OneMore ==
  ASSUME NEW S, NEW s \in Seq(S), NEW k \in 1..Len(s)
  PROVE  /\ SubSeq(s, 1, k - 1) \in Seq(S)
         /\ Append(SubSeq(s, 1, k - 1), s[k]) = SubSeq(s, 1, k)
<1>1. PICK n \in Nat : n = Len(s) /\ k \in 1..n
  BY LenProperties
<1>2. \A i \in 1..n : s[i] \in S
  BY <1>1, ElementOfSeq
<1>3. PICK a \in Seq(S) :
        /\ a = SubSeq(s, 1, k - 1) /\ Len(a) = k - 1
        /\ \A i \in 1..(k - 1) : a[i] = s[i]
  <2>1. \A i \in 1..(k - 1) : i \in 1..n
    BY <1>1
  <2>2. /\ SubSeq(s, 1, k - 1) \in Seq(S)
        /\ Len(SubSeq(s, 1, k - 1)) =
             IF 1 <= k - 1 THEN k - 1 - 1 + 1 ELSE 0
        /\ \A i \in 1..(k - 1 - 1 + 1) : SubSeq(s, 1, k - 1)[i] = s[1 + i - 1]
    BY <1>1, <1>2, <2>1, SubSeqProperties
  <2>3. (IF 1 <= k - 1 THEN k - 1 - 1 + 1 ELSE 0) = k - 1
        /\ k - 1 - 1 + 1 = k - 1 /\ \A i \in 1..(k - 1) : 1 + i - 1 = i
    BY <1>1
  <2>4. QED
    BY <2>2, <2>3
<1>4. PICK c \in Seq(S) :
        /\ c = SubSeq(s, 1, k) /\ Len(c) = k /\ \A i \in 1..k : c[i] = s[i]
  <2>1. \A i \in 1..k : i \in 1..n
    BY <1>1
  <2>2. /\ SubSeq(s, 1, k) \in Seq(S)
        /\ Len(SubSeq(s, 1, k)) = IF 1 <= k THEN k - 1 + 1 ELSE 0
        /\ \A i \in 1..(k - 1 + 1) : SubSeq(s, 1, k)[i] = s[1 + i - 1]
    BY <1>1, <1>2, <2>1, SubSeqProperties
  <2>3. (IF 1 <= k THEN k - 1 + 1 ELSE 0) = k
        /\ k - 1 + 1 = k /\ \A i \in 1..k : 1 + i - 1 = i
    BY <1>1
  <2>4. QED
    BY <2>2, <2>3
<1>5. s[k] \in S
  BY <1>1, <1>2
<1>6. PICK e \in Seq(S) :
        /\ e = Append(a, s[k]) /\ Len(e) = Len(a) + 1
        /\ \A i \in 1..Len(a) : e[i] = a[i]
        /\ e[Len(a) + 1] = s[k]
  BY <1>5, AppendProperties, ZenonT(60)
<1>7. Len(e) = k /\ e[k] = s[k] /\ \A i \in 1..(k - 1) : e[i] = a[i]
  <2>1. Len(a) = k - 1 /\ (k - 1) + 1 = k
    BY <1>1, <1>3
  <2>2. QED
    BY <1>6, <2>1
<1>8. ASSUME NEW i \in 1..k PROVE e[i] = c[i]
  <2>1. CASE i = k
    BY <1>4, <1>7, <2>1
  <2>2. CASE i # k
    <3>1. i \in 1..(k - 1)
      BY <1>1, <2>2
    <3>2. QED
      BY <1>3, <1>4, <1>7, <3>1
  <2>3. QED
    BY <2>1, <2>2
<1>9. e = c
  BY <1>4, <1>7, <1>8, SeqEqual
<1>10. QED
  BY <1>3, <1>4, <1>6, <1>9

\* A list that fits travels.
LEMMA ListTravels ==
  ASSUME NEW list \in Seq(Instruction), list # <<>>,
         \A k \in 1..Len(list) : FitsInstruction(list[k])
  PROVE  \E b \in Seq(Byte) :
           /\ b # <<>> /\ b[1] \in {1, 2}
           /\ encodeRelayInstructions(list) = uint8ArrayToHex(b)
           /\ decodeRelayInstructions(uint8ArrayToHex(b)) = list
<1>1. PICK n \in Nat \ {0} : n = Len(list)
  BY LenProperties, EmptySeq
<1>2. \A k \in 1..n : list[k] \in Instruction /\ FitsInstruction(list[k])
  BY <1>1, ElementOfSeq
<1>3. PICK f : /\ Wrote(list, f)
               /\ encodeRelayInstructions(list) = toHex(f[n])
  BY <1>1, ListWritten
<1>4. /\ f[0] = NewWriter
      /\ \A k \in 1..n : f[k] = WriteInstruction(f[k - 1], list[k])
  BY <1>1, <1>3 DEF Wrote
<1>5. \A k \in 0..n : f[k] \in Writer
  <2> DEFINE G == {k \in 0..n : f[k] \in Writer}
  <2>1. 0 \in G
    BY <1>4, NewWriterType
  <2>2. ASSUME NEW k \in 1..n, k - 1 \in G PROVE k \in G
    BY <1>2, <1>4, <2>2, InstructionReadsBack
  <2>3. \A k \in 0..n : k \in G
    <3> HIDE DEF G
    <3> QED BY <2>1, <2>2, CountUp
  <2>4. QED
    BY <2>3
<1>6. ASSUME NEW k \in 1..n
      PROVE  /\ f[k - 1] \in Writer /\ f[k] \in Writer
             /\ Len(f[k].data) = Len(f[k - 1].data) + Size(list[k].type)
             /\ list[k].type \in {1, 2}
             /\ \A b \in Seq(Byte) :
                  StartsWith(b, f[k].data) =>
                    /\ StartsWith(b, f[k - 1].data)
                    /\ b[Len(f[k - 1].data) + 1] = list[k].type
                    /\ ReadInstruction(b, Len(f[k - 1].data)) = list[k]
  <2>1. k - 1 \in 0..n /\ k \in 0..n
    OBVIOUS
  <2>2. PICK w \in Writer, v \in Writer : w = f[k - 1] /\ v = f[k]
    BY <1>5, <2>1
  <2>3. PICK i \in Instruction : i = list[k] /\ FitsInstruction(i)
    BY <1>2
  <2>4. v = WriteInstruction(w, i)
    BY <1>4, <2>2, <2>3
  <2>5. /\ Len(v.data) = Len(w.data) + Size(i.type)
        /\ \A b \in Seq(Byte) :
             StartsWith(b, v.data) =>
               /\ StartsWith(b, w.data) /\ b[Len(w.data) + 1] = i.type
               /\ ReadInstruction(b, Len(w.data)) = i
    BY <2>3, <2>4, InstructionReadsBack
  <2>6. QED
    BY <2>2, <2>3, <2>5, InstructionFields
<1> DEFINE size == [k \in 0..n |-> Len(f[k].data)]
<1>7. ASSUME NEW k \in 0..n
      PROVE  /\ size[k] = Len(f[k].data) /\ size[k] \in Nat
             /\ f[k].data \in Seq(Byte)
  <2>1. f[k].data \in Seq(Byte)
    BY <1>5 DEF Writer
  <2>2. QED
    BY <2>1, LenProperties
<1> HIDE DEF size
<1>8. PICK b \in Seq(Byte), m \in Nat : b = f[n].data /\ m = Len(b)
  BY <1>7, LenProperties
<1>9. \A k \in 0..n : StartsWith(b, f[k].data)
  <2> DEFINE G == {k \in 0..n : StartsWith(b, f[n - k].data)}
  <2>1. 0 \in G
    <3>1. n - 0 = n
      OBVIOUS
    <3>2. QED
      BY <1>8, <3>1, StartsWithItself
  <2>2. ASSUME NEW k \in 1..n, k - 1 \in G PROVE k \in G
    <3>1. PICK j \in 1..n : n - (k - 1) = j /\ n - k = j - 1
      OBVIOUS
    <3>2. QED
      BY <1>6, <2>2, <3>1
  <2>3. \A k \in 0..n : k \in G
    <3> HIDE DEF G
    <3> QED BY <2>1, <2>2, CountUp
  <2>4. ASSUME NEW k \in 0..n PROVE StartsWith(b, f[k].data)
    <3>1. n - k \in 0..n /\ n - (n - k) = k
      OBVIOUS
    <3>2. QED
      BY <2>3, <3>1
  <2>5. QED
    BY <2>4
<1>10. \A k \in 0..n : size[k] <= m
  BY <1>7, <1>8, <1>9 DEF StartsWith
<1>11. size[0] = 0 /\ size[n] = m
  BY <1>4, <1>7, <1>8, NewWriterType
<1>12. ASSUME NEW k \in 1..n
       PROVE  /\ size[k - 1] \in Nat /\ size[k] \in Nat
              /\ size[k] = size[k - 1] + Size(list[k].type)
              /\ size[k] >= size[k - 1] + 1
  <2>1. k - 1 \in 0..n /\ k \in 0..n
    OBVIOUS
  <2>2. PICK s \in Nat : s = Size(list[k].type) /\ s >= 1
    BY <1>6, SizeType
  <2>3. size[k] = size[k - 1] + s
    BY <1>6, <1>7, <2>1, <2>2
  <2>4. size[k - 1] \in Nat /\ size[k] \in Nat
    BY <1>7, <2>1
  <2>5. QED
    BY <2>2, <2>3, <2>4
<1>13. n <= m
  <2> DEFINE G == {k \in 0..n : size[k] >= k}
  <2>1. 0 \in G
    BY <1>11
  <2>2. ASSUME NEW k \in 1..n, k - 1 \in G PROVE k \in G
    BY <1>12, <2>2
  <2>3. \A k \in 0..n : k \in G
    <3> HIDE DEF G
    <3> QED BY <2>1, <2>2, CountUp
  <2>4. QED
    BY <1>11, <2>3
<1>14. b # <<>>
  BY <1>8, <1>13
<1>15. hexToBuffer(uint8ArrayToHex(b)) = b
  BY <1>14, BufferOfHex
<1>16. encodeRelayInstructions(list) = uint8ArrayToHex(b)
  BY <1>3, <1>5, <1>8, HexWritten
<1>17. b[1] \in {1, 2}
  <2>1. 1 \in 1..n /\ 1 \in 0..n /\ 0 \in 0..n /\ 1 - 1 = 0
    OBVIOUS
  <2>2. StartsWith(b, f[1].data)
    BY <1>9, <2>1
  <2>3. b[Len(f[0].data) + 1] = list[1].type /\ list[1].type \in {1, 2}
    BY <1>6, <2>1, <2>2
  <2>4. Len(f[0].data) + 1 = 1
    BY <1>7, <1>11, <2>1
  <2>5. QED
    BY <2>3, <2>4
<1>18. PICK g : /\ Read(b, g)
                /\ decodeRelayInstructions(uint8ArrayToHex(b)) =
                     IF g[m] = Throws THEN Throws
                       ELSE IF g[m].offset > m THEN Throws
                       ELSE g[m].list
  BY <1>8, <1>15, ListRead
<1>19. /\ g[0] = [offset |-> 0, list |-> <<>>]
       /\ \A k \in 1..m : g[k] = Round(b, g[k - 1])
  BY <1>8, <1>18 DEF Read
<1> DEFINE at(k) == [offset |-> size[k], list |-> SubSeq(list, 1, k)]
<1>20. \A k \in 0..n : g[k] = at(k)
  <2> DEFINE G == {k \in 0..n : g[k] = at(k)}
  <2>1. 0 \in G
    <3>1. SubSeq(list, 1, 0) = <<>>
      BY SubSeqEmpty
    <3>2. QED
      BY <1>11, <1>19, <3>1
  <2>2. ASSUME NEW k \in 1..n, k - 1 \in G PROVE k \in G
    <3>1. k \in 1..m /\ k - 1 \in 0..n /\ k \in 0..n
      BY <1>13
    <3>2. PICK o \in Nat, l \in Seq(Instruction) :
            /\ o = size[k - 1] /\ l = SubSeq(list, 1, k - 1)
            /\ Append(l, list[k]) = SubSeq(list, 1, k)
      BY <1>1, <1>12, OneMore
    <3>3. o < m
      <4>1. PICK s \in Nat : s = size[k] /\ s >= o + 1
        BY <1>12, <3>2
      <4>2. s <= m
        BY <1>10, <3>1, <4>1
      <4>3. QED
        BY <4>1, <4>2
    <3>4. b[o + 1] = list[k].type /\ ReadInstruction(b, o) = list[k]
          /\ list[k].type \in {1, 2}
      BY <1>6, <1>7, <1>9, <3>1, <3>2, ZenonT(60)
    <3>5. g[k] = Round(b, [offset |-> o, list |-> l])
      BY <1>19, <2>2, <3>1, <3>2
    <3>6. Round(b, [offset |-> o, list |-> l]) =
            [offset |-> o + Size(b[o + 1]),
             list |-> Append(l, ReadInstruction(b, o))]
      BY <1>8, <3>3, <3>4, RoundIs, ZenonT(60)
    <3>7. g[k] = [offset |-> o + Size(list[k].type),
                  list |-> Append(l, list[k])]
      BY <3>4, <3>5, <3>6
    <3>8. size[k] = o + Size(list[k].type)
      BY <1>12, <3>2
    <3>9. QED
      BY <3>1, <3>2, <3>7, <3>8
  <2>3. \A k \in 0..n : k \in G
    <3> HIDE DEF G
    <3> QED BY <2>1, <2>2, CountUp
  <2>4. QED
    BY <2>3
<1>21. at(n) = [offset |-> m, list |-> list]
  BY <1>1, <1>11, SubSeqFull
<1> HIDE DEF at
<1>22. g[m] = at(n)
  <2> DEFINE G == {k \in 0..m : k >= n => g[k] = at(n)}
  <2>1. 0 \in G
    BY <1>20
  <2>2. ASSUME NEW k \in 1..m, k - 1 \in G PROVE k \in G
    <3>1. CASE k < n
      BY <3>1
    <3>2. CASE k = n
      BY <1>20, <3>2
    <3>3. CASE k > n
      <4>1. g[k - 1] = [offset |-> m, list |-> list]
        BY <1>21, <2>2, <3>3
      <4>2. Round(b, [offset |-> m, list |-> list])
              = [offset |-> m, list |-> list]
        <5>1. PICK o \in Nat : o = m /\ o >= Len(b)
          BY <1>8
        <5>2. Round(b, [offset |-> o, list |-> list])
                = [offset |-> o, list |-> list]
          BY <5>1, RoundIs
        <5>3. QED
          BY <5>1, <5>2
      <4>3. QED
        BY <1>19, <1>21, <4>1, <4>2
    <3>4. QED
      BY <3>1, <3>2, <3>3
  <2>3. \A k \in 0..m : k \in G
    <3> HIDE DEF G
    <3> QED BY <2>1, <2>2, CountUp
  <2>4. QED
    BY <1>13, <2>3
<1>23. g[m] = [offset |-> m, list |-> list] /\ g[m] # Throws
  BY <1>21, <1>22, LoopStateNotThrows DEF LoopState
<1>24. decodeRelayInstructions(uint8ArrayToHex(b)) = list
  BY <1>18, <1>23
<1>25. QED
  BY <1>14, <1>16, <1>17, <1>24

\* A request starts with the first letter of its prefix.
LEMMA FirstByte ==
  ASSUME NEW b \in Seq(Byte), NEW kind \in DOMAIN Prefix,
         subarray(b, 0, 4) = Prefix[kind]
  PROVE  b # <<>> /\ b[1] = 69
<1>1. PICK n \in Nat : n = Len(b)
  BY LenProperties
<1>2. PICK p \in Seq(Byte) : p = subarray(b, 0, 4) /\ Len(p) = 4 /\ p[1] = 69
  BY PrefixType
<1>3. CASE n < 4
  <2>1. subarray(b, 0, 4) = SubSeq(b, 1, n)
    BY <1>1, <1>3 DEF subarray
  <2>2. p = b
    BY <1>1, <1>2, <2>1, SubSeqFull
  <2>3. QED
    BY <1>1, <1>2, <1>3, <2>2
<1>4. CASE n >= 4
  <2>1. 0 + 4 <= Len(b)
    BY <1>1, <1>4
  <2>2. \A o, l \in Nat : o + l <= Len(b) =>
          \A i \in 1..l : subarray(b, o, l)[i] = b[o + i]
    BY Subarrays
  <2>3. 0 \in Nat /\ 4 \in Nat /\ 1 \in 1..4
    OBVIOUS
  <2>4. subarray(b, 0, 4)[1] = b[0 + 1]
    BY <2>1, <2>2, <2>3, Zenon
  <2>5. 0 + 1 = 1
    OBVIOUS
  <2>6. b[1] = 69
    BY <1>2, <2>4, <2>5
  <2>7. b # <<>>
    BY <1>1, <1>4
  <2>8. QED
    BY <2>6, <2>7
<1>5. QED
  BY <1>3, <1>4

\* A buffer that starts with another byte than a type is no list.
LEMMA NoList ==
  ASSUME NEW b \in Seq(Byte), b # <<>>, b[1] \notin {1, 2}
  PROVE  decodeRelayInstructions(uint8ArrayToHex(b)) = Throws
<1>1. PICK n \in Nat : n = Len(b) /\ n >= 1
  BY LenProperties, EmptySeq
<1>2. hexToBuffer(uint8ArrayToHex(b)) = b
  BY BufferOfHex
<1>3. PICK g : /\ Read(b, g)
               /\ decodeRelayInstructions(uint8ArrayToHex(b)) =
                    IF g[n] = Throws THEN Throws
                      ELSE IF g[n].offset > n THEN Throws
                      ELSE g[n].list
  BY <1>1, <1>2, ListRead
<1>4. /\ g[0] = [offset |-> 0, list |-> <<>>]
      /\ \A k \in 1..n : g[k] = Round(b, g[k - 1])
  BY <1>1, <1>3 DEF Read
<1> DEFINE G == {k \in 0..n : k > 0 => g[k] = Throws}
<1>5. 0 \in G
  OBVIOUS
<1>6. ASSUME NEW k \in 1..n, k - 1 \in G PROVE k \in G
  <2>1. CASE k = 1
    <3>1. PICK l \in Seq(Instruction) : l = <<>>
      <4>1. <<>> \in Seq(Instruction)
        OBVIOUS
      <4>2. QED
        BY <4>1, Zenon
    <3>2. PICK o \in Nat : o = 0 /\ o < Len(b) /\ o + 1 = 1
      <4>1. 0 < Len(b) /\ 0 + 1 = 1
        BY <1>1
      <4>2. QED
        BY <4>1
    <3>3. Round(b, [offset |-> o, list |-> l]) = Throws
      <4>1. b[o + 1] \notin {1, 2}
        BY <3>2
      <4>2. o < Len(b)
        BY <3>2
      <4>3. Round(b, [offset |-> o, list |-> l]) =
              IF b[o + 1] \notin {1, 2} THEN Throws
                ELSE [offset |-> o + Size(b[o + 1]),
                      list |-> Append(l, ReadInstruction(b, o))]
        BY <4>2, RoundIs
      <4>4. QED
        BY <4>1, <4>3
    <3>4. g[1] = Round(b, g[0])
      <4>1. 1 \in 1..n /\ 1 - 1 = 0
        BY <1>1
      <4>2. QED
        BY <1>4, <4>1, Zenon
    <3>5. QED
      BY <1>4, <2>1, <3>1, <3>2, <3>3, <3>4
  <2>2. CASE k # 1
    <3>1. g[k - 1] = Throws
      BY <1>6, <2>2
    <3>2. Round(b, Throws) = Throws
      BY DEF Round
    <3>3. QED
      BY <1>4, <3>1, <3>2
  <2>3. QED
    BY <2>1, <2>2
<1>7. \A k \in 0..n : k \in G
  <2> HIDE DEF G
  <2> QED BY <1>5, <1>6, CountUp
<1>8. g[n] = Throws
  BY <1>1, <1>7
<1>9. QED
  BY <1>3, <1>8

\* A value is a list or a request.
LEMMA Values ==
  Value = [kind : {"instructions"}, list : Seq(Instruction)] \cup Request
BY DEF Value, Request

\* A value's kind says which.
LEMMA ValueKinds ==
  ASSUME NEW value \in Value
  PROVE  /\ value.kind \in Kinds
         /\ value.kind = "instructions" =>
              /\ value.list \in Seq(Instruction)
              /\ value = [kind |-> "instructions", list |-> value.list]
         /\ value.kind # "instructions" => value \in Request
<1>1. CASE value \in [kind : {"instructions"}, list : Seq(Instruction)]
  BY <1>1 DEF Kinds
<1>2. CASE value \in Request
  BY <1>2, RequestFields, PrefixType DEF Kinds
<1>3. QED
  BY <1>1, <1>2, Values

\* What fits is read back by its own decoder, and refused by the others.
LEMMA DecodesBack ==
  ASSUME NEW value \in Value, Fits(value)
  PROVE  /\ Encoding(value) # Throws
         /\ \A kind \in Kinds :
              Decoding(kind, Encoding(value)) =
                IF kind = value.kind THEN value ELSE Throws
<1>1. CASE value.kind = "instructions"
  <2>1. PICK list \in Seq(Instruction) :
          /\ list = value.list
          /\ value = [kind |-> "instructions", list |-> list]
    BY <1>1, ValueKinds
  <2>2. list # <<>> /\ \A k \in DOMAIN list : FitsInstruction(list[k])
    BY <1>1, <2>1 DEF Fits, FitsInstruction
  <2>3. DOMAIN list = 1..Len(list)
    BY LenProperties
  <2>4. PICK b \in Seq(Byte) :
          /\ b # <<>> /\ b[1] \in {1, 2}
          /\ encodeRelayInstructions(list) = uint8ArrayToHex(b)
          /\ decodeRelayInstructions(uint8ArrayToHex(b)) = list
    BY <2>2, <2>3, ListTravels
  <2>5. Encoding(value) = uint8ArrayToHex(b)
    BY <1>1, <2>1, <2>4 DEF Encoding
  <2>6. Encoding(value) # Throws
    BY <2>5, HexOf, NotThrows
  <2>7. ASSUME NEW kind \in DOMAIN Prefix
        PROVE  Decoding(kind, Encoding(value)) = Throws /\ kind # value.kind
    <3>1. kind # "instructions"
      BY PrefixType
    <3>2. subarray(b, 0, 4) # Prefix[kind]
      <4>1. SUFFICES ASSUME subarray(b, 0, 4) = Prefix[kind] PROVE FALSE
        OBVIOUS
      <4>2. b[1] = 69
        BY <4>1, FirstByte
      <4>3. QED
        BY <2>4, <4>2
    <3>3. from(kind, uint8ArrayToHex(b)) = Throws
      BY <2>4, <3>2, OthersRefuse
    <3>4. QED
      BY <1>1, <2>5, <3>1, <3>3 DEF Decoding
  <2>8. Decoding("instructions", Encoding(value)) = value
    <3>1. list # Throws
      BY ValueAssumption
    <3>2. QED
      BY <2>1, <2>4, <2>5, <3>1 DEF Decoding
  <2>9. QED
    BY <1>1, <2>6, <2>7, <2>8 DEF Kinds
<1>2. CASE value.kind # "instructions"
  <2>1. value \in Request /\ value.kind \in DOMAIN Prefix
    BY <1>2, ValueKinds DEF Kinds
  <2>2. PICK b \in Seq(Byte) :
          /\ b # <<>> /\ serialize(value) = uint8ArrayToHex(b)
          /\ subarray(b, 0, 4) = Prefix[value.kind]
          /\ from(value.kind, serialize(value)) = value
    BY <2>1, RequestTravels DEF Travels
  <2>3. Encoding(value) = uint8ArrayToHex(b) /\ Encoding(value) # Throws
    BY <1>2, <2>2, HexOf, NotThrows DEF Encoding
  <2>4. Decoding(value.kind, Encoding(value)) = value
    BY <1>2, <2>2, <2>3 DEF Decoding
  <2>5. Decoding("instructions", Encoding(value)) = Throws
    <3>1. b[1] \notin {1, 2}
      BY <2>1, <2>2, FirstByte
    <3>2. decodeRelayInstructions(uint8ArrayToHex(b)) = Throws
      BY <2>2, <3>1, NoList
    <3>3. QED
      BY <2>3, <3>2 DEF Decoding
  <2>6. ASSUME NEW kind \in DOMAIN Prefix, kind # value.kind
        PROVE  Decoding(kind, Encoding(value)) = Throws
    <3>1. kind # "instructions"
      BY PrefixType
    <3>2. subarray(b, 0, 4) # Prefix[kind]
      BY <2>1, <2>2, <2>6, PrefixType
    <3>3. from(kind, uint8ArrayToHex(b)) = Throws
      BY <2>2, <3>2, OthersRefuse
    <3>4. QED
      BY <2>3, <3>1, <3>3 DEF Decoding
  <2>7. QED
    BY <1>2, <2>3, <2>4, <2>5, <2>6 DEF Kinds
<1>3. QED
  BY <1>1, <1>2

-----------------------------------------------------------------------------
(* Every encoding is a text or throws.                                      *)

\* An encoder throws or gives a text.
LEMMA EncodingType ==
  ASSUME NEW value \in Value
  PROVE  Encoding(value) \in Seq(Digit) \cup {Throws}
<1> DEFINE V == Writer \cup {Throws}
<1>1. /\ \A w \in V, bytes \in Seq(Byte) \cup {Throws} :
           writeUint8Array(w, bytes) \in V
      /\ \A w \in V, digits \in Seq(Digit) : writeHex(w, digits) \in V
      /\ \A w \in V, n \in Nat, width \in Widths : writeUint(w, n, width) \in V
      /\ \A w \in V : toHex(w) \in Seq(Digit) \cup {Throws}
  BY WrittenOrNot
<1>2. NewWriter \in V
  BY NewWriterType
<1> HIDE DEF V
<1>3. CASE value.kind = "instructions"
  <2>1. PICK list \in Seq(Instruction) : list = value.list
    BY <1>3, ValueKinds
  <2>2. PICK f : /\ Wrote(list, f)
                 /\ encodeRelayInstructions(list) = toHex(f[Len(list)])
    BY ListWritten
  <2>3. Len(list) \in 0..Len(list)
    BY LenProperties
  <2>4. f[Len(list)] \in V
    BY <2>2, <2>3 DEF Wrote, V
  <2>5. QED
    BY <1>1, <1>3, <2>1, <2>2, <2>4 DEF Encoding
<1>4. CASE value.kind # "instructions"
  <2>1. value \in Request /\ Encoding(value) = serialize(value)
    BY <1>4, ValueKinds DEF Encoding
  <2>2. CASE ~Constructed(value)
    BY <2>1, <2>2 DEF serialize
  <2>3. CASE Constructed(value)
    <3> DEFINE head == HeadOf(value.kind, value.chain, value.address)
    <3>1. head \in V
      <4>1. Prefix[value.kind] \in Seq(Byte)
        BY <2>1, RequestFields, PrefixType
      <4>2. value.chain \in Nat /\ value.address \in Seq(Digit)
        BY <2>1, RequestFields
      <4>3. PICK w \in V : w = writeUint8Array(NewWriter, Prefix[value.kind])
        BY <1>1, <1>2, <4>1
      <4>4. PICK v \in V : v = writeUint(w, value.chain, 2)
        BY <1>1, <4>2, Sizes
      <4>5. writeHex(v, value.address) \in V
        BY <1>1, <4>2
      <4>6. QED
        BY <4>3, <4>4, <4>5 DEF HeadOf
    <3>2. CASE value.kind = "VAAv1"
      <4>1. value.sequence \in Nat
        BY <2>1, <3>2, RequestFields
      <4>2. serialize(value) = toHex(writeUint(head, value.sequence, U64))
        BY <2>3, <3>2 DEF serialize, HeadOf
      <4> HIDE DEF head
      <4>3. QED
        BY <1>1, <2>1, <3>1, <4>1, <4>2, Sizes
    <3>3. CASE value.kind = "NTTv1"
      <4>1. value.messageId \in Seq(Digit)
        BY <2>1, <3>3, RequestFields
      <4>2. serialize(value) = toHex(writeHex(head, value.messageId))
        BY <2>3, <3>3 DEF serialize, HeadOf
      <4> HIDE DEF head
      <4>3. QED
        BY <1>1, <2>1, <3>1, <4>1, <4>2
    <3>4. CASE value.kind = "ModularMessage"
      <4>1. value.sequence \in Nat /\ value.payload \in Seq(Digit)
        BY <2>1, <3>4, RequestFields
      <4>2. CASE hexToBuffer(value.payload) = Throws
        <5>1. serialize(value) = Throws
          BY <2>3, <3>4, <4>2 DEF serialize
        <5>2. QED
          BY <2>1, <5>1
      <4>3. CASE hexToBuffer(value.payload) # Throws
        <5>1. value.payload # <<>>
          BY <4>3 DEF hexToBuffer
        <5>2. PICK p \in Seq(Byte), n \in Nat :
                p = hexToBuffer(value.payload) /\ n = Len(p)
          BY <4>1, <5>1, BufferOf, LenProperties
        <5>3. serialize(value) =
                toHex(writeUint8Array(
                        writeUint(writeUint(head, value.sequence, U64),
                                  n, U32), p))
          BY <2>3, <3>4, <4>3, <5>2 DEF serialize, HeadOf
        <5> HIDE DEF head
        <5>4. PICK v \in V : v = writeUint(head, value.sequence, U64)
          BY <1>1, <3>1, <4>1, Sizes
        <5>5. PICK w \in V : w = writeUint(v, n, U32)
          BY <1>1, Sizes
        <5>6. writeUint8Array(w, p) \in V
          BY <1>1
        <5>7. QED
          BY <1>1, <2>1, <5>3, <5>4, <5>5, <5>6
      <4>4. QED
        BY <4>2, <4>3
    <3>5. QED
      BY <2>1, <3>2, <3>3, <3>4, RequestFields
  <2>4. QED
    BY <2>2, <2>3
<1>5. QED
  BY <1>3, <1>4

-----------------------------------------------------------------------------
(* What was read is written back.                                           *)

\* A number that was read is written back.
LEMMA NumberBack ==
  ASSUME NEW b \in Seq(Byte), NEW o \in Nat, NEW width \in Widths,
         o + width <= Len(b)
  PROVE  LET n == Big(subarray(b, o, width))
         IN /\ n \in Nat /\ n < Pow256[width]
            /\ SubSeq(b, 1, o) \o Bytes(n, width) = SubSeq(b, 1, o + width)
<1>1. width \in Nat
  BY Powers
<1>2. PICK s \in Seq(Byte) : s = subarray(b, o, width) /\ Len(s) = width
  BY <1>1, Subarrays
<1>3. Big(s) \in Nat /\ Big(s) < Pow256[width] /\ Bytes(Big(s), width) = s
  BY <1>2, BytesOfBig
<1>4. SubSeq(b, 1, o) \o s = SubSeq(b, 1, o + width)
  BY <1>1, <1>2, Joined
<1>5. QED
  BY <1>2, <1>3, <1>4

\* Hex that was read is written back.
LEMMA HexBack ==
  ASSUME NEW b \in Seq(Byte), NEW o \in Nat, NEW l \in Nat \ {0},
         o + l <= Len(b)
  PROVE  LET digits == uint8ArrayToHex(subarray(b, o, l))
         IN /\ digits \in Seq(Digit) /\ Len(digits) = 2 * l /\ digits # <<>>
            /\ hexToBuffer(digits) = subarray(b, o, l)
            /\ SubSeq(b, 1, o) \o hexToBuffer(digits) = SubSeq(b, 1, o + l)
<1>1. PICK s \in Seq(Byte) : s = subarray(b, o, l) /\ Len(s) = l
  BY Subarrays
<1>2. s # <<>>
  BY <1>1
<1>3. PICK h \in Seq(Digit) : h = uint8ArrayToHex(s) /\ Len(h) = 2 * l
  BY <1>1, HexOf
<1>4. h # <<>>
  BY <1>3
<1>5. hexToBuffer(h) = s
  BY <1>2, <1>3, BufferOfHex
<1>6. SubSeq(b, 1, o) \o s = SubSeq(b, 1, o + l)
  BY <1>1, Joined
<1>7. QED
  BY <1>1, <1>3, <1>4, <1>5, <1>6

\* The head of a request that was read is written back.
LEMMA HeadBack ==
  ASSUME NEW b \in Seq(Byte), NEW kind \in DOMAIN Prefix, Len(b) >= Head4,
         subarray(b, 0, 4) = Prefix[kind],
         NEW chain, chain = Big(subarray(b, 4, 2)),
         NEW address, address = uint8ArrayToHex(subarray(b, 6, Bytes32))
  PROVE  /\ chain \in Nat /\ chain < Pow256[2]
         /\ address \in Seq(Digit) /\ Len(address) = 2 * Bytes32
         /\ HeadBytes(kind, chain, address) = SubSeq(b, 1, Head4)
<1>1. PICK n \in Nat : n = Len(b) /\ n >= 4 + 2 + Bytes32 /\ n >= 6
  BY LenProperties, Sizes DEF Head4
<1>2. Prefix[kind] = SubSeq(b, 1, 4)
  BY <1>1 DEF subarray
<1>3. /\ chain \in Nat /\ chain < Pow256[2]
      /\ SubSeq(b, 1, 4) \o Bytes(chain, 2) = SubSeq(b, 1, 6)
  <2>1. PICK o \in Nat, w \in Widths : o = 4 /\ w = 2 /\ o + w <= Len(b)
    BY <1>1, Sizes
  <2>2. PICK m \in Nat : m = Big(subarray(b, o, w))
    BY <2>1, NumberBack
  <2>3. m < Pow256[w] /\ SubSeq(b, 1, o) \o Bytes(m, w) = SubSeq(b, 1, o + w)
    BY <2>1, <2>2, NumberBack
  <2>4. o + w = 6
    BY <2>1
  <2>5. QED
    BY <2>1, <2>2, <2>3, <2>4
<1>4. /\ address \in Seq(Digit) /\ Len(address) = 2 * Bytes32
      /\ SubSeq(b, 1, 6) \o hexToBuffer(address) = SubSeq(b, 1, Head4)
  <2>1. PICK o \in Nat : o = 6 /\ o + Bytes32 <= Len(b) /\ o + Bytes32 = Head4
    BY <1>1, Sizes DEF Head4
  <2>2. LET digits == uint8ArrayToHex(subarray(b, o, Bytes32))
        IN /\ digits \in Seq(Digit) /\ Len(digits) = 2 * Bytes32
           /\ SubSeq(b, 1, o) \o hexToBuffer(digits)
                = SubSeq(b, 1, o + Bytes32)
    <3>1. o + Bytes32 <= Len(b) /\ Bytes32 \in Nat \ {0}
      BY <2>1, Sizes
    <3>2. QED
      BY <3>1, HexBack
  <2>3. address = uint8ArrayToHex(subarray(b, o, Bytes32))
    BY <2>1
  <2>4. QED
    BY <2>1, <2>2, <2>3
<1>5. QED
  BY <1>2, <1>3, <1>4 DEF HeadBytes

\* A request of this kind that was read is written back.
LEMMA VAAv1WritesBack ==
  ASSUME NEW digits, NEW b \in Seq(Byte), hexToBuffer(digits) = b,
         NEW r, r = from("VAAv1", digits), r # Throws
  PROVE  serialize(r) = uint8ArrayToHex(b) /\ r.kind = "VAAv1"
<1> DEFINE c == Big(subarray(b, 4, 2))
           a == uint8ArrayToHex(subarray(b, 6, Bytes32))
           s == Big(subarray(b, Head4, U64))
           w == HeadOf("VAAv1", c, a)
<1>1. /\ Len(b) = Head4 + U64 /\ subarray(b, 0, 4) = Prefix["VAAv1"]
      /\ r = [kind |-> "VAAv1", chain |-> c, address |-> a, sequence |-> s]
  BY FromVAAv1
<1>2. "VAAv1" \in DOMAIN Prefix /\ Len(b) >= Head4 /\ Head4 + U64 <= Len(b)
  BY <1>1, PrefixType, Sizes
<1>3. /\ c \in Nat /\ c < Pow256[2] /\ a \in Seq(Digit)
      /\ Len(a) = 2 * Bytes32
      /\ HeadBytes("VAAv1", c, a) = SubSeq(b, 1, Head4)
  BY <1>1, <1>2, HeadBack
<1>4. /\ s \in Nat /\ s < Pow256[U64]
      /\ SubSeq(b, 1, Head4) \o Bytes(s, U64) = SubSeq(b, 1, Head4 + U64)
  BY <1>2, Sizes, NumberBack
<1> HIDE DEF c, a, s
<1>5. w \in Writer /\ w.data = HeadBytes("VAAv1", c, a)
  BY <1>2, <1>3, HeadWritten
<1>6. serialize(r) = toHex(writeUint(w, s, U64))
  BY <1>1, <1>3 DEF serialize, Constructed, HeadOf
<1> HIDE DEF w
<1>7. PICK v \in Writer :
        v = writeUint(w, s, U64) /\ v.data = w.data \o Bytes(s, U64)
  BY <1>4, <1>5, Sizes, WrittenUint
<1>8. v.data = SubSeq(b, 1, Len(b))
  BY <1>1, <1>3, <1>4, <1>5, <1>7
<1>9. v.data = b
  BY <1>8, SubSeqFull
<1>10. QED
  BY <1>1, <1>6, <1>7, <1>9, HexWritten

\* A request of this kind that was read is written back.
LEMMA NTTv1WritesBack ==
  ASSUME NEW digits, NEW b \in Seq(Byte), hexToBuffer(digits) = b,
         NEW r, r = from("NTTv1", digits), r # Throws
  PROVE  serialize(r) = uint8ArrayToHex(b) /\ r.kind = "NTTv1"
<1> DEFINE c == Big(subarray(b, 4, 2))
           a == uint8ArrayToHex(subarray(b, 6, Bytes32))
           m == uint8ArrayToHex(subarray(b, Head4, Bytes32))
           w == HeadOf("NTTv1", c, a)
<1>1. /\ Len(b) = Head4 + Bytes32 /\ subarray(b, 0, 4) = Prefix["NTTv1"]
      /\ r = [kind |-> "NTTv1", chain |-> c, address |-> a, messageId |-> m]
  BY FromNTTv1
<1>2. /\ "NTTv1" \in DOMAIN Prefix /\ Len(b) >= Head4
      /\ Head4 + Bytes32 <= Len(b)
  BY <1>1, PrefixType, Sizes
<1>3. /\ c \in Nat /\ c < Pow256[2] /\ a \in Seq(Digit)
      /\ Len(a) = 2 * Bytes32
      /\ HeadBytes("NTTv1", c, a) = SubSeq(b, 1, Head4)
  BY <1>1, <1>2, HeadBack
<1>4. /\ m \in Seq(Digit) /\ Len(m) = 2 * Bytes32 /\ m # <<>>
      /\ SubSeq(b, 1, Head4) \o hexToBuffer(m) = SubSeq(b, 1, Head4 + Bytes32)
  BY <1>2, Sizes, HexBack
<1> HIDE DEF c, a, m
<1>5. w \in Writer /\ w.data = HeadBytes("NTTv1", c, a)
  BY <1>2, <1>3, HeadWritten
<1>6. serialize(r) = toHex(writeHex(w, m))
  BY <1>1, <1>3, <1>4 DEF serialize, Constructed, HeadOf
<1> HIDE DEF w
<1>7. PICK v \in Writer :
        v = writeHex(w, m) /\ v.data = w.data \o hexToBuffer(m)
  BY <1>4, <1>5, WrittenHex
<1>8. v.data = SubSeq(b, 1, Len(b))
  BY <1>1, <1>3, <1>4, <1>5, <1>7
<1>9. v.data = b
  BY <1>8, SubSeqFull
<1>10. QED
  BY <1>1, <1>6, <1>7, <1>9, HexWritten

\* A request of this kind that was read is written back.
LEMMA ModularMessageWritesBack ==
  ASSUME NEW digits, NEW b \in Seq(Byte), hexToBuffer(digits) = b,
         NEW r, r = from("ModularMessage", digits), r # Throws
  PROVE  /\ r.kind = "ModularMessage"
         /\ serialize(r) =
              IF r.payload = <<>> THEN Throws ELSE uint8ArrayToHex(b)
<1> DEFINE c == Big(subarray(b, 4, 2))
           a == uint8ArrayToHex(subarray(b, 6, Bytes32))
           s == Big(subarray(b, Head4, U64))
           n == Big(subarray(b, Head4 + U64, U32))
           p == uint8ArrayToHex(subarray(b, Head5, n))
           w == HeadOf("ModularMessage", c, a)
<1>1. /\ ~(Len(b) < Head5) /\ Len(b) = Head5 + n
      /\ subarray(b, 0, 4) = Prefix["ModularMessage"]
      /\ r = [kind |-> "ModularMessage", chain |-> c, address |-> a,
              sequence |-> s, payload |-> p]
  BY FromModularMessage
<1>2. /\ "ModularMessage" \in DOMAIN Prefix /\ Len(b) >= Head4
      /\ Head4 + U64 <= Len(b) /\ (Head4 + U64) + U32 <= Len(b)
      /\ Head5 = (Head4 + U64) + U32
  <2>1. PICK l \in Nat : l = Len(b) /\ ~(l < Head5)
    BY <1>1, LenProperties
  <2>2. l >= Head4 /\ Head4 + U64 <= l /\ (Head4 + U64) + U32 <= l
    BY <2>1, Sizes DEF Head5
  <2>3. QED
    BY <2>1, <2>2, PrefixType DEF Head5
<1>3. /\ c \in Nat /\ c < Pow256[2] /\ a \in Seq(Digit)
      /\ Len(a) = 2 * Bytes32
      /\ HeadBytes("ModularMessage", c, a) = SubSeq(b, 1, Head4)
  BY <1>1, <1>2, HeadBack
<1>4. /\ s \in Nat /\ s < Pow256[U64]
      /\ SubSeq(b, 1, Head4) \o Bytes(s, U64) = SubSeq(b, 1, Head4 + U64)
  BY <1>2, Sizes, NumberBack
<1>5. /\ n \in Nat /\ n < Pow256[U32]
      /\ SubSeq(b, 1, Head4 + U64) \o Bytes(n, U32) = SubSeq(b, 1, Head5)
  <2>1. Head4 + U64 \in Nat
    BY Sizes
  <2>2. QED
    BY <1>2, <2>1, Sizes, NumberBack
<1>6. CASE n = 0
  <2>1. /\ subarray(b, Head5, n) \in Seq(Byte)
        /\ Len(subarray(b, Head5, n)) = 0
    <3>1. Head5 + 0 <= Len(b)
      BY <1>1, <1>6, Sizes
    <3>2. \A l \in Nat : /\ subarray(b, Head5, l) \in Seq(Byte)
                         /\ Head5 + l <= Len(b) =>
                                Len(subarray(b, Head5, l)) = l
      BY Sizes, Subarrays
    <3>3. 0 \in Nat
      OBVIOUS
    <3>4. subarray(b, Head5, 0) \in Seq(Byte) /\ Len(subarray(b, Head5, 0)) = 0
      BY <3>1, <3>2, <3>3, Zenon
    <3>5. QED
      BY <1>6, <3>4
  <2>2. p \in Seq(Digit) /\ Len(p) = 0
    <3> DEFINE q == subarray(b, Head5, n)
    <3>1. q \in Seq(Byte) /\ Len(q) = 0
      BY <2>1
    <3> HIDE DEF q
    <3>2. uint8ArrayToHex(q) \in Seq(Digit)
          /\ Len(uint8ArrayToHex(q)) = 2 * Len(q)
      BY <3>1, HexOf
    <3>3. QED
      BY <3>1, <3>2 DEF q
  <2>3. p = <<>>
    BY <2>2, EmptySeq
  <2>4. hexToBuffer(p) = Throws
    BY <2>3 DEF hexToBuffer
  <2>5. r.payload = p /\ r.kind = "ModularMessage"
    BY <1>1
  <2> HIDE DEF p
  <2>6. serialize(r) = Throws
    BY <2>4, <2>5 DEF serialize
  <2>7. QED
    BY <2>3, <2>5, <2>6
<1>7. CASE n # 0
  <2>1. /\ p \in Seq(Digit) /\ Len(p) = 2 * n /\ p # <<>>
        /\ hexToBuffer(p) = subarray(b, Head5, n)
        /\ SubSeq(b, 1, Head5) \o hexToBuffer(p) = SubSeq(b, 1, Head5 + n)
    <3>1. PICK m \in Nat \ {0} : m = n /\ Head5 + m <= Len(b)
      BY <1>1, <1>5, <1>7, Sizes, SMTT(40)
    <3>2. LET h == uint8ArrayToHex(subarray(b, Head5, m))
          IN /\ h \in Seq(Digit) /\ Len(h) = 2 * m /\ h # <<>>
             /\ hexToBuffer(h) = subarray(b, Head5, m)
             /\ SubSeq(b, 1, Head5) \o hexToBuffer(h) = SubSeq(b, 1, Head5 + m)
      <4>1. Head5 + m <= Len(b) /\ Head5 \in Nat
        BY <3>1, Sizes
      <4>2. QED
        BY <4>1, HexBack
    <3>3. QED
      BY <3>1, <3>2
  <2>2. PICK q \in Seq(Byte) : q = hexToBuffer(p) /\ Len(q) = n
    <3>1. \A o, l \in Nat : /\ subarray(b, o, l) \in Seq(Byte)
                            /\ o + l <= Len(b) => Len(subarray(b, o, l)) = l
      BY Subarrays
    <3>2. PICK m \in Nat : m = n /\ Head5 + m <= Len(b)
      BY <1>1, <1>5, Sizes
    <3>3. /\ subarray(b, Head5, m) \in Seq(Byte)
          /\ Len(subarray(b, Head5, m)) = m
      BY <3>1, <3>2, Sizes
    <3>4. QED
      BY <2>1, <3>2, <3>3
  <2> HIDE DEF c, a, s, n, p
  <2>3. w \in Writer /\ w.data = HeadBytes("ModularMessage", c, a)
    BY <1>2, <1>3, HeadWritten
  <2>4. q # Throws
    BY NotThrows
  <2>5. serialize(r) =
          toHex(writeUint8Array(writeUint(writeUint(w, s, U64), n, U32), q))
    BY <1>1, <1>3, <2>2, <2>4 DEF serialize, Constructed, HeadOf
  <2> HIDE DEF w
  <2>6. PICK v1 \in Writer :
          v1 = writeUint(w, s, U64) /\ v1.data = w.data \o Bytes(s, U64)
    BY <1>4, <2>3, Sizes, WrittenUint
  <2>7. PICK v2 \in Writer :
          v2 = writeUint(v1, n, U32) /\ v2.data = v1.data \o Bytes(n, U32)
    BY <1>5, Sizes, WrittenUint
  <2>8. PICK v \in Writer :
          v = writeUint8Array(v2, q) /\ v.data = v2.data \o q
    BY Written
  <2>9. v2.data = SubSeq(b, 1, Head5)
    BY <1>3, <1>4, <1>5, <2>3, <2>6, <2>7
  <2>10. v.data = SubSeq(b, 1, Len(b))
    BY <1>1, <2>1, <2>2, <2>8, <2>9
  <2>11. v.data = b
    BY <2>10, SubSeqFull
  <2>12. serialize(r) = uint8ArrayToHex(b)
    BY <2>5, <2>6, <2>7, <2>8, <2>11, HexWritten
  <2>13. r.payload = p /\ r.kind = "ModularMessage"
    BY <1>1
  <2>14. QED
    BY <2>1, <2>12, <2>13
<1>8. QED
  BY <1>6, <1>7

\* A type that was read is written back.
LEMMA TypeBack ==
  ASSUME NEW b \in Seq(Byte), NEW o \in Nat, o + 1 <= Len(b),
         NEW type \in {1, 2}, b[o + 1] = type
  PROVE  SubSeq(b, 1, o) \o Bytes(type, 1) = SubSeq(b, 1, o + 1)
<1>1. PICK p \in Seq(Byte) : p = Bytes(type, 1) /\ p[1] = type
  BY TypeByte
<1>2. Len(p) = 1
  BY <1>1, TypeByte
<1>3. PICK l \in Nat : l = 1 /\ o + l <= Len(b)
  OBVIOUS
<1>4. PICK s \in Seq(Byte) :
        /\ s = subarray(b, o, l) /\ Len(s) = l
        /\ \A i \in 1..l : s[i] = b[o + i]
  <2>1. o + l <= Len(b)
    BY <1>3
  <2>2. QED
    BY <2>1, Subarrays, ZenonT(60)
<1>5. ASSUME NEW i \in 1..Len(s) PROVE s[i] = p[i]
  <2>1. i \in 1..l
    BY <1>4
  <2>2. i = 1
    BY <1>3, <2>1
  <2>3. s[i] = b[o + i]
    BY <1>4, <2>1
  <2>4. QED
    BY <1>1, <2>2, <2>3
<1>6. s = p
  <2>1. Len(s) = Len(p)
    BY <1>2, <1>3, <1>4
  <2>2. QED
    BY <1>5, <2>1, SeqEqual
<1>7. SubSeq(b, 1, o) \o subarray(b, o, l) = SubSeq(b, 1, o + l)
  <2>1. o + l <= Len(b)
    BY <1>3
  <2>2. QED
    BY <2>1, Joined
<1>8. QED
  BY <1>1, <1>3, <1>4, <1>6, <1>7

\* An instruction that was read to its end is written back.
LEMMA InstructionWritesBack ==
  ASSUME NEW b \in Seq(Byte), NEW o \in Nat, NEW type \in {1, 2},
         b[o + 1] = type, o + Size(type) <= Len(b),
         NEW w \in Writer, w.data = SubSeq(b, 1, o)
  PROVE  LET v == WriteInstruction(w, ReadInstruction(b, o))
         IN v \in Writer /\ v.data = SubSeq(b, 1, o + Size(type))
<1>1. CASE type = 1
  <2>1. PICK l \in Nat : /\ l = Len(b) /\ (o + (1 + U128)) + U128 <= l
                         /\ o + Size(type) = (o + (1 + U128)) + U128
    BY <1>1, Sizes, LenProperties DEF Size, RECV_INST_TYPE_GAS
  <2>2. /\ o + 1 <= Len(b) /\ (o + 1) + U128 <= Len(b)
        /\ (o + 1) + U128 = o + (1 + U128)
        /\ o + 1 \in Nat /\ o + (1 + U128) \in Nat
    BY <2>1, Sizes
  <2>3. SubSeq(b, 1, o) \o Bytes(1, 1) = SubSeq(b, 1, o + 1)
    BY <1>1, <2>2, TypeBack
  <2>4. PICK g \in Nat :
          /\ g = Big(subarray(b, o + 1, U128)) /\ g < Pow256[U128]
          /\ SubSeq(b, 1, o + 1) \o Bytes(g, U128)
               = SubSeq(b, 1, (o + 1) + U128)
    BY <2>2, Sizes, NumberBack, ZenonT(60)
  <2>5. PICK m \in Nat :
          /\ m = Big(subarray(b, o + (1 + U128), U128)) /\ m < Pow256[U128]
          /\ SubSeq(b, 1, o + (1 + U128)) \o Bytes(m, U128)
               = SubSeq(b, 1, (o + (1 + U128)) + U128)
    <3>1. (o + (1 + U128)) + U128 <= Len(b)
      BY <2>1
    <3>2. QED
      BY <2>2, <3>1, Sizes, NumberBack, ZenonT(60)
  <2>6. ReadInstruction(b, o) = [type |-> 1, gasLimit |-> g, msgValue |-> m]
    BY <1>1, <2>4, <2>5 DEF ReadInstruction, RECV_INST_TYPE_GAS
  <2>7. PICK v \in Writer :
          /\ v = WriteInstruction(w, ReadInstruction(b, o))
          /\ v.data = GasBytes(w.data, g, m)
    BY <2>4, <2>5, <2>6, GasWritten
  <2>8. GasBytes(w.data, g, m) = SubSeq(b, 1, (o + (1 + U128)) + U128)
    BY <2>2, <2>3, <2>4, <2>5 DEF GasBytes
  <2>9. QED
    BY <2>1, <2>7, <2>8
<1>2. CASE type = 2
  <2>1. PICK l \in Nat : /\ l = Len(b) /\ (o + 1 + U128) + Bytes32 <= l
                         /\ o + Size(type) = (o + 1 + U128) + Bytes32
    BY <1>2, Sizes, LenProperties DEF Size, RECV_INST_TYPE_GAS
  <2>2. /\ o + 1 <= Len(b) /\ (o + 1) + U128 <= Len(b)
        /\ (o + 1) + U128 = o + 1 + U128
        /\ o + 1 \in Nat /\ o + 1 + U128 \in Nat
    BY <2>1, Sizes
  <2>3. SubSeq(b, 1, o) \o Bytes(2, 1) = SubSeq(b, 1, o + 1)
    BY <1>2, <2>2, TypeBack
  <2>4. PICK a \in Nat :
          /\ a = Big(subarray(b, o + 1, U128)) /\ a < Pow256[U128]
          /\ SubSeq(b, 1, o + 1) \o Bytes(a, U128)
               = SubSeq(b, 1, (o + 1) + U128)
    BY <2>2, Sizes, NumberBack, ZenonT(60)
  <2>5. PICK r \in Seq(Digit) :
          /\ r = uint8ArrayToHex(subarray(b, o + 1 + U128, Bytes32))
          /\ r # <<>>
          /\ SubSeq(b, 1, o + 1 + U128) \o hexToBuffer(r)
               = SubSeq(b, 1, (o + 1 + U128) + Bytes32)
    <3>1. (o + 1 + U128) + Bytes32 <= Len(b)
      BY <2>1
    <3>2. QED
      BY <2>2, <3>1, Sizes, HexBack
  <2>6. ReadInstruction(b, o) = [type |-> 2, dropOff |-> a, recipient |-> r]
    BY <1>2, <2>4, <2>5 DEF ReadInstruction, RECV_INST_TYPE_GAS
  <2>7. PICK v \in Writer :
          /\ v = WriteInstruction(w, ReadInstruction(b, o))
          /\ v.data = DropOffBytes(w.data, a, r)
    BY <2>4, <2>5, <2>6, DropOffWritten
  <2>8. DropOffBytes(w.data, a, r) = SubSeq(b, 1, (o + 1 + U128) + Bytes32)
    BY <2>2, <2>3, <2>4, <2>5 DEF DropOffBytes
  <2>9. QED
    BY <2>1, <2>7, <2>8
<1>3. QED
  BY <1>1, <1>2

\* What the loop has read so far, if to its end, is what its list is written as.
Covers(b, s) ==
  \E f : \E w \in Writer :
    Wrote(s.list, f) /\ w = f[Len(s.list)] /\ w.data = SubSeq(b, 1, s.offset)

\* A round keeps that the list so far is written as the bytes so far.
LEMMA RoundCovers ==
  ASSUME NEW b \in Seq(Byte), NEW s \in LoopState,
         s.offset <= Len(b) => Covers(b, s),
         Round(b, s) # Throws
  PROVE  /\ Round(b, s) \in LoopState
         /\ Round(b, s).offset <= Len(b) => Covers(b, Round(b, s))
         /\ \/ s.offset >= Len(b) /\ Round(b, s) = s
            \/ Round(b, s).offset >= s.offset + 1
<1>1. PICK o \in Nat, list \in Seq(Instruction) :
        /\ o = s.offset /\ list = s.list
        /\ s = [offset |-> o, list |-> list]
  BY DEF LoopState
<1>2. PICK n \in Nat : n = Len(b)
  BY LenProperties
<1>3. CASE o >= n
  <2>1. Round(b, s) = s
    <3>1. o >= Len(b)
      BY <1>2, <1>3
    <3>2. Round(b, [offset |-> o, list |-> list])
            = [offset |-> o, list |-> list]
      BY <3>1, RoundIs
    <3>3. QED
      BY <1>1, <3>2
  <2>2. QED
    BY <1>1, <1>2, <1>3, <2>1
<1>4. CASE o < n
  <2>1. o < Len(b)
    BY <1>2, <1>4
  <2>2. Round(b, s) =
          IF b[o + 1] \notin {1, 2} THEN Throws
            ELSE [offset |-> o + Size(b[o + 1]),
                  list |-> Append(list, ReadInstruction(b, o))]
    BY <1>1, <2>1, RoundIs
  <2>3. PICK type \in {1, 2} : type = b[o + 1]
    BY <2>2
  <2>4. PICK i \in Instruction : i = ReadInstruction(b, o)
    BY <2>3, ReadInstructionType
  <2>5. PICK p \in Nat : p = o + Size(type) /\ p >= o + 1
    BY SizeType
  <2>6. Round(b, s) = [offset |-> p, list |-> Append(list, i)]
    BY <2>2, <2>3, <2>4, <2>5
  <2>7. Append(list, i) \in Seq(Instruction)
    BY AppendProperties
  <2>8. Round(b, s) \in LoopState
    BY <2>6, <2>7 DEF LoopState
  <2>9. ASSUME p <= n PROVE Covers(b, Round(b, s))
    <3>1. Covers(b, s)
      BY <1>1, <1>2, <1>4
    <3>2. PICK f : \E w \in Writer :
            Wrote(list, f) /\ w = f[Len(list)] /\ w.data = SubSeq(b, 1, o)
      BY <1>1, <3>1 DEF Covers
    <3>3. PICK w \in Writer :
            Wrote(list, f) /\ w = f[Len(list)] /\ w.data = SubSeq(b, 1, o)
      BY <3>2
    <3>4. b[o + 1] = type /\ o + Size(type) <= Len(b)
      BY <1>2, <2>3, <2>5, <2>9
    <3>5. PICK v \in Writer :
            /\ v = WriteInstruction(w, ReadInstruction(b, o))
            /\ v.data = SubSeq(b, 1, o + Size(type))
      BY <3>3, <3>4, InstructionWritesBack
    <3>6. v = WriteInstruction(f[Len(list)], i)
      BY <2>4, <3>3, <3>5
    <3>7. PICK g : Wrote(Append(list, i), g) /\ g[Len(list) + 1] = v
      BY <3>3, <3>6, WroteMore
    <3>8. Len(Append(list, i)) = Len(list) + 1
      BY AppendProperties
    <3>9. v = g[Len(Append(list, i))] /\ v.data = SubSeq(b, 1, p)
      BY <2>5, <3>5, <3>7, <3>8
    <3>10. Round(b, s).list = Append(list, i) /\ Round(b, s).offset = p
      BY <2>6
    <3>11. QED
      BY <3>7, <3>9, <3>10 DEF Covers
  <2>10. Round(b, s).offset = p
    BY <2>6
  <2>11. QED
    BY <1>1, <1>2, <2>5, <2>8, <2>9, <2>10
<1>5. QED
  BY <1>3, <1>4

\* A list that was read is written back.
LEMMA ListWritesBack ==
  ASSUME NEW digits, NEW b \in Seq(Byte), hexToBuffer(digits) = b,
         NEW list, list = decodeRelayInstructions(digits), list # Throws
  PROVE  encodeRelayInstructions(list) = uint8ArrayToHex(b)
<1>1. PICK n \in Nat : n = Len(b)
  BY LenProperties
<1>2. PICK g : /\ Read(b, g)
               /\ decodeRelayInstructions(digits) =
                    IF g[n] = Throws THEN Throws
                      ELSE IF g[n].offset > n THEN Throws
                      ELSE g[n].list
  BY <1>1, ListRead
<1>3. /\ g \in [0..n -> LoopState \cup {Throws}]
      /\ g[0] = [offset |-> 0, list |-> <<>>]
      /\ \A k \in 1..n : g[k] = Round(b, g[k - 1])
  BY <1>1, <1>2 DEF Read
<1> DEFINE Fine(k) == /\ g[k] \in LoopState /\ g[k].offset >= k
                      /\ g[k].offset <= n => Covers(b, g[k])
           G == {k \in 0..n : g[k] # Throws => Fine(k)}
<1>4. 0 \in G
  <2>1. PICK f : \E w \in Writer :
          Wrote(<<>>, f) /\ w = f[0] /\ w.data = <<>>
    <3>1. [k \in 0..0 |-> NewWriter][0] = NewWriter
      OBVIOUS
    <3>2. QED
      BY <3>1, WroteNothing, NewWriterType
  <2>2. SubSeq(b, 1, 0) = <<>>
    BY SubSeqEmpty
  <2>3. Len(<<>>) = 0
    OBVIOUS
  <2>4. g[0].list = <<>> /\ g[0].offset = 0 /\ g[0] \in LoopState
    <3>1. <<>> \in Seq(Instruction)
      OBVIOUS
    <3>2. QED
      BY <1>3, <3>1 DEF LoopState
  <2>5. Covers(b, g[0])
    BY <2>1, <2>2, <2>3, <2>4 DEF Covers
  <2>6. QED
    BY <2>4, <2>5
<1>5. ASSUME NEW k \in 1..n, k - 1 \in G PROVE k \in G
  <2>1. SUFFICES ASSUME g[k] # Throws PROVE Fine(k)
    OBVIOUS
  <2>2. g[k] = Round(b, g[k - 1])
    BY <1>3
  <2>3. g[k - 1] # Throws
    <3>1. Round(b, Throws) = Throws
      BY DEF Round
    <3>2. QED
      BY <2>1, <2>2, <3>1
  <2>4. Fine(k - 1)
    BY <1>5, <2>3
  <2>5. PICK s \in LoopState, t \in LoopState \cup {Throws} :
          /\ s = g[k - 1] /\ t = g[k] /\ t = Round(b, s) /\ t # Throws
          /\ s.offset >= k - 1
          /\ s.offset <= n => Covers(b, s)
    BY <1>3, <2>1, <2>2, <2>4
  <2>6. /\ t \in LoopState
        /\ t.offset <= n => Covers(b, t)
        /\ (s.offset >= n /\ t = s) \/ t.offset >= s.offset + 1
    BY <1>1, <2>5, RoundCovers
  <2>7. PICK o \in Nat, p \in Nat : o = s.offset /\ p = t.offset
    BY <2>6 DEF LoopState
  <2>8. p >= k
    BY <2>5, <2>6, <2>7
  <2>9. QED
    BY <2>5, <2>6, <2>7, <2>8
<1>6. \A k \in 0..n : k \in G
  <2> HIDE DEF G
  <2> QED BY <1>4, <1>5, CountUp
<1>7. g[n] # Throws /\ ~(g[n].offset > n) /\ list = g[n].list
  BY <1>2
<1>8. Fine(n)
  BY <1>6, <1>7
<1>9. PICK o \in Nat, l \in Seq(Instruction) : o = g[n].offset /\ l = g[n].list
  BY <1>8 DEF LoopState
<1>10. o = n
  BY <1>7, <1>8, <1>9
<1>11. Covers(b, g[n])
  BY <1>8, <1>9, <1>10
<1>12. PICK f : \E w \in Writer :
         Wrote(l, f) /\ w = f[Len(l)] /\ w.data = SubSeq(b, 1, n)
  BY <1>9, <1>10, <1>11 DEF Covers
<1>13. PICK w \in Writer :
         Wrote(l, f) /\ w = f[Len(l)] /\ w.data = SubSeq(b, 1, n)
  BY <1>12
<1>14. w.data = b
  BY <1>1, <1>13, SubSeqFull
<1>15. encodeRelayInstructions(l) = toHex(w)
  BY <1>13, WrittenAs
<1>16. QED
  BY <1>7, <1>9, <1>14, <1>15, HexWritten

\* What a decoder accepts is written back, but for an empty payload.
LEMMA EncodesBack ==
  ASSUME NEW digits \in Seq(Digit), NEW kind \in Kinds,
         NEW value, value = Decoding(kind, digits), value # Throws
  PROVE  IF kind = "ModularMessage" /\ value.payload = <<>>
           THEN Encoding(value) = Throws
           ELSE Encoding(value) = SubSeq(digits, 1, 2 * (Len(digits) \div 2))
<1>1. hexToBuffer(digits) # Throws
  <2>1. SUFFICES ASSUME hexToBuffer(digits) = Throws PROVE FALSE
    OBVIOUS
  <2>2. from(kind, digits) = Throws
    BY <2>1 DEF from
  <2>3. decodeRelayInstructions(digits) = Throws
    BY <2>1, Zenon DEF decodeRelayInstructions
  <2>4. QED
    BY <2>2, <2>3 DEF Decoding
<1>2. digits # <<>>
  BY <1>1 DEF hexToBuffer
<1>3. PICK b \in Seq(Byte) :
        /\ b = hexToBuffer(digits)
        /\ uint8ArrayToHex(b) = SubSeq(digits, 1, 2 * (Len(digits) \div 2))
  BY <1>2, BufferOf, HexOfBuffer
<1>4. CASE kind = "instructions"
  <2>1. PICK list : /\ list = decodeRelayInstructions(digits) /\ list # Throws
                    /\ value = [kind |-> kind, list |-> list]
    BY <1>4 DEF Decoding
  <2>2. encodeRelayInstructions(list) = uint8ArrayToHex(b)
    BY <1>3, <2>1, ListWritesBack
  <2>3. Encoding(value) = encodeRelayInstructions(list)
    BY <1>4, <2>1 DEF Encoding
  <2>4. QED
    BY <1>3, <1>4, <2>2, <2>3
<1>5. CASE kind = "VAAv1"
  <2>1. value = from("VAAv1", digits)
    BY <1>5 DEF Decoding
  <2>2. serialize(value) = uint8ArrayToHex(b) /\ value.kind = "VAAv1"
    BY <1>3, <2>1, VAAv1WritesBack
  <2>3. QED
    BY <1>3, <1>5, <2>2 DEF Encoding
<1>6. CASE kind = "NTTv1"
  <2>1. value = from("NTTv1", digits)
    BY <1>6 DEF Decoding
  <2>2. serialize(value) = uint8ArrayToHex(b) /\ value.kind = "NTTv1"
    BY <1>3, <2>1, NTTv1WritesBack
  <2>3. QED
    BY <1>3, <1>6, <2>2 DEF Encoding
<1>7. CASE kind = "ModularMessage"
  <2>1. value = from("ModularMessage", digits)
    BY <1>7 DEF Decoding
  <2>2. /\ value.kind = "ModularMessage"
        /\ serialize(value) =
             IF value.payload = <<>> THEN Throws ELSE uint8ArrayToHex(b)
    BY <1>3, <2>1, ModularMessageWritesBack
  <2>3. QED
    BY <1>3, <1>7, <2>2 DEF Encoding
<1>8. QED
  BY <1>4, <1>5, <1>6, <1>7, PrefixType DEF Kinds

-----------------------------------------------------------------------------
(* The specification.                                                      *)

\* The text is what came in or what the input is encoded as, and the output is
\* what a decoder makes of the text.
CodecInv ==
  /\ input \in Inputs \cup {Nothing}
  /\ text \in Seq(Digit) \cup {Throws, Nothing}
  /\ input = Nothing => text # Nothing
  /\ (input # Nothing /\ text # Nothing) => text = Encoding(input)
  /\ output # Nothing =>
       /\ text \notin {Throws, Nothing}
       /\ \E kind \in Kinds :
            output = [by |-> kind, value |-> Decoding(kind, text)]

\* No input is Nothing.
LEMMA InputsAreValues ==
  \A value \in Inputs : value \in Value /\ value # Nothing
BY ValueAssumption

\* The invariant holds at first.
LEMMA CodecInvInit == Init => CodecInv
<1> SUFFICES ASSUME Init PROVE CodecInv
  OBVIOUS
<1>1. CASE input \in Inputs /\ text = Nothing
  BY <1>1, InputsAreValues DEF Init, CodecInv
<1>2. CASE input = Nothing /\ text \in Texts
  <2>1. text \in Seq(Digit) /\ text # Nothing
    BY <1>2, ValueAssumption, NotThrows
  <2>2. QED
    BY <1>2, <2>1 DEF Init, CodecInv
<1>3. QED
  BY <1>1, <1>2 DEF Init

\* Every step keeps it.
LEMMA CodecInvNext == CodecInv /\ [Next]_vars => CodecInv'
<1> SUFFICES ASSUME CodecInv, [Next]_vars PROVE CodecInv'
  OBVIOUS
<1>1. CASE Encode
  <2>1. /\ text = Nothing /\ text' = Encoding(input)
        /\ input' = input /\ output' = output
    BY <1>1 DEF Encode
  <2>2. input \in Inputs /\ input \in Value /\ output = Nothing
    BY <2>1, InputsAreValues DEF CodecInv
  <2>3. Encoding(input) \in Seq(Digit) \cup {Throws}
    BY <2>2, EncodingType
  <2>4. text' \in Seq(Digit) \cup {Throws, Nothing} /\ text' # Nothing
    BY <2>1, <2>3, NotThrows, ValueAssumption
  <2>5. QED
    BY <2>1, <2>2, <2>4, InputsAreValues DEF CodecInv
<1>2. ASSUME NEW kind \in Kinds, Decode(kind) PROVE CodecInv'
  <2>1. /\ text \notin {Nothing, Throws} /\ input' = input /\ text' = text
        /\ output' = [by |-> kind, value |-> Decoding(kind, text)]
    BY <1>2 DEF Decode
  <2>2. QED
    BY <2>1 DEF CodecInv
<1>3. CASE UNCHANGED vars
  BY <1>3 DEF vars, CodecInv
<1>4. QED
  BY <1>1, <1>2, <1>3 DEF Next

\* Hence it always holds.
LEMMA CodecInvariant == Spec => []CodecInv
BY CodecInvInit, CodecInvNext, PTL DEF Spec

\* What fits its fields is encoded, read back as it was by the decoder of its
\* own kind and refused by every other, for widths, buffers, lists and payloads
\* of any size.
THEOREM EverythingReadsBack == Spec => []ReadsBack
<1>1. CodecInv => ReadsBack
  <2> SUFFICES ASSUME CodecInv, input # Nothing, text # Nothing, Fits(input)
               PROVE  /\ text # Throws
                      /\ output # Nothing =>
                           output.value =
                             IF output.by = input.kind THEN input ELSE Throws
    BY DEF ReadsBack
  <2>1. input \in Value /\ text = Encoding(input)
    BY InputsAreValues DEF CodecInv
  <2>2. /\ Encoding(input) # Throws
        /\ \A kind \in Kinds :
             Decoding(kind, Encoding(input)) =
               IF kind = input.kind THEN input ELSE Throws
    BY <2>1, DecodesBack
  <2>3. ASSUME output # Nothing
        PROVE  output.value =
                 IF output.by = input.kind THEN input ELSE Throws
    <3>1. PICK kind \in Kinds :
            output = [by |-> kind, value |-> Decoding(kind, text)]
      BY <2>3 DEF CodecInv
    <3>2. QED
      BY <2>1, <2>2, <3>1
  <2>4. QED
    BY <2>1, <2>2, <2>3
<1>2. QED
  BY <1>1, CodecInvariant, PTL

\* Whatever comes in, a decoder that accepts it has read all of it: encoding
\* what it made of the text gives the text again.
THEOREM EverythingWritesBack == Spec => []WritesBack
<1>1. CodecInv => WritesBack
  <2> SUFFICES ASSUME CodecInv, output # Nothing, output.value # Throws
               PROVE  LET again == Encoding(output.value)
                      IN IF /\ output.by = "ModularMessage"
                            /\ output.value.payload = <<>>
                           THEN again = Throws
                           ELSE again =
                                  SubSeq(text, 1, 2 * (Len(text) \div 2))
    BY DEF WritesBack
  <2>1. PICK kind \in Kinds :
          output = [by |-> kind, value |-> Decoding(kind, text)]
    BY DEF CodecInv
  <2>2. text \in Seq(Digit)
    BY DEF CodecInv
  <2>3. PICK value : value = Decoding(kind, text) /\ value # Throws
    BY <2>1
  <2>4. IF kind = "ModularMessage" /\ value.payload = <<>>
          THEN Encoding(value) = Throws
          ELSE Encoding(value) = SubSeq(text, 1, 2 * (Len(text) \div 2))
    BY <2>2, <2>3, EncodesBack
  <2>5. output.by = kind /\ output.value = value
    BY <2>1, <2>3
  <2>6. QED
    BY <2>4, <2>5
<1>2. QED
  BY <1>1, CodecInvariant, PTL
============================================================================
