------------------------- MODULE TokenAmountsProofs -------------------------
(***************************************************************************)
(* What the amount arithmetic preserves and bounds, for every radix.       *)
(***************************************************************************)
EXTENDS TokenAmounts, TLAPS

LEMMA DivideMultiple ==
  ASSUME NEW n \in Nat, NEW p \in Nat \ {0}
  PROVE  (n * p) \div p = n
OBVIOUS

LEMMA DivideBound ==
  ASSUME NEW a \in Nat, NEW p \in Nat \ {0}
  PROVE  /\ a \div p \in Nat
         /\ (a \div p) * p \in Nat
         /\ (a \div p) * p <= a
OBVIOUS

\* Truncation yields an amount no larger than the one given, and truncating
\* again changes nothing.
THEOREM Truncation ==
  ASSUME NEW a \in Nat, NEW d \in Uint8
  PROVE  /\ normalizeAmount(a, d) \in Nat
         /\ truncateAmount(a, d) \in Nat
         /\ truncateAmount(a, d) <= a
         /\ truncateAmount(truncateAmount(a, d), d) = truncateAmount(a, d)
<1>1. CASE d > 8
  <2> DEFINE p == Pow10[d - 8]
  <2>1. p \in Nat \ {0}
    BY <1>1, Pow10Assumption DEF Uint8
  <2>2. /\ normalizeAmount(a, d) = a \div p
        /\ truncateAmount(a, d) = (a \div p) * p
    BY <1>1 DEF normalizeAmount, denormalizeAmount, truncateAmount
  <2> HIDE DEF p
  <2>3. a \div p \in Nat /\ (a \div p) * p \in Nat /\ (a \div p) * p <= a
    BY <2>1, DivideBound
  <2>4. truncateAmount((a \div p) * p, d) = (((a \div p) * p) \div p) * p
    BY <1>1 DEF normalizeAmount, denormalizeAmount, truncateAmount, p
  <2>5. ((a \div p) * p) \div p = a \div p
    BY <2>1, <2>3, DivideMultiple
  <2>6. QED
    BY <2>2, <2>3, <2>4, <2>5
<1>2. CASE ~(d > 8)
  BY <1>2 DEF normalizeAmount, denormalizeAmount, truncateAmount, Uint8
<1>3. QED
  BY <1>1, <1>2

LEMMA AddMultiple ==
  ASSUME NEW a \in Nat, NEW u \in Nat, NEW p \in Nat \ {0}
  PROVE  (a + u * p) \div p = (a \div p) + u
OBVIOUS

LEMMA Units ==
  ASSUME NEW a \in Nat, NEW d \in Uint8
  PROVE  normalizeAmount(a, d) \in Nat /\ denormalizeAmount(a, d) \in Nat
<1>1. CASE d > 8
  <2> DEFINE p == Pow10[d - 8]
  <2>1. p \in Nat \ {0}
    BY <1>1, Pow10Assumption DEF Uint8
  <2> HIDE DEF p
  <2>2. a \div p \in Nat /\ a * p \in Nat
    BY <2>1
  <2>3. QED
    BY <1>1, <2>2 DEF normalizeAmount, denormalizeAmount, p
<1>2. CASE ~(d > 8)
  BY <1>2 DEF normalizeAmount, denormalizeAmount
<1>3. QED
  BY <1>1, <1>2

\* What is paid in whole units adds its units to what was there, dust or not.
LEMMA CreditAdds ==
  ASSUME NEW a \in Nat, NEW u \in Nat, NEW d \in Uint8
  PROVE  normalizeAmount(a + denormalizeAmount(u, d), d)
           = normalizeAmount(a, d) + u
<1>1. CASE d > 8
  <2> DEFINE p == Pow10[d - 8]
  <2>1. p \in Nat \ {0}
    BY <1>1, Pow10Assumption DEF Uint8
  <2>2. denormalizeAmount(u, d) = u * p
    BY <1>1 DEF denormalizeAmount
  <2>3. \A x : normalizeAmount(x, d) = x \div p
    BY <1>1 DEF normalizeAmount
  <2> HIDE DEF p
  <2>4. (a + u * p) \div p = (a \div p) + u
    BY <2>1, AddMultiple
  <2>5. QED
    BY <2>2, <2>3, <2>4
<1>2. CASE ~(d > 8)
  BY <1>2 DEF normalizeAmount, denormalizeAmount
<1>3. QED
  BY <1>1, <1>2
=============================================================================
