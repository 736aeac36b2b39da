---------------------------- MODULE ExpireProofs ----------------------------
(***************************************************************************)
(* The walk along a line that expires tiles: it misses no tile of the map  *)
(* the line passes and visits none it does not touch, on every map and     *)
(* also over the 180th meridian, but for lines that leave the map near the *)
(* poles.  The list that is written: the ids of tiles can be taken apart   *)
(* again, after they were shifted by any number of levels.                 *)
(*                                                                         *)
(* A walk is a segment from the west to the east whose rows are fractions. *)
(* Heights on it are compared without division: Height is the row times    *)
(* the width and the denominator.  A segment over the meridian is two      *)
(* walks, each with the heights of the segment times its own width.        *)
(*                                                                         *)
(* An id is a sum over levels.  Its lowest two bits are the lowest of both *)
(* numbers, the others the id of the tile above.                           *)
(***************************************************************************)
EXTENDS ExpireProperties, FiniteSetTheorems, WellFoundedInduction, NaturalsInduction, TLAPS
-----------------------------------------------------------------------------
(* Floors.                                                                  *)

\* Division rounds down, whatever the sign is.
LEMMA DivFacts ==
    ASSUME NEW n \in Int, NEW k \in Nat \ {0}
    PROVE  /\ n \div k \in Int
           /\ (n \div k) * k <= n /\ n < (n \div k) * k + k
OBVIOUS

\* A quotient is known by its remainder.
LEMMA DivIs ==
    ASSUME NEW n \in Int, NEW k \in Nat \ {0}, NEW q \in Int, q * k <= n, n < q * k + k
    PROVE  n \div k = q
OBVIOUS

\* A factor can be taken out of an inequality.
LEMMA Factor ==
    ASSUME NEW a \in Int, NEW b \in Int, NEW k \in Nat \ {0}
    PROVE  /\ (a * k <= b * k <=> a <= b) /\ (a * k < b * k <=> a < b)
           /\ (a * k = b * k <=> a = b)
<1>1. a * k <= b * k <=> a <= b
    OBVIOUS
<1>2. a * k < b * k <=> a < b
    OBVIOUS
<1> QED
    BY <1>1, <1>2

\* Comparing a quotient is comparing products.
LEMMA DivAtMost ==
    ASSUME NEW n \in Int, NEW k \in Nat \ {0}, NEW q \in Int
    PROVE  /\ q <= n \div k <=> q * k <= n
           /\ n \div k <= q <=> n < (q + 1) * k
<1> DEFINE p == n \div k
<1>1. p \in Int /\ p * k <= n /\ n < (p + 1) * k
    BY DivFacts
<1> HIDE DEF p
<1>2. q <= p => q * k <= n
  <2>1. q <= p => q * k <= p * k
    BY <1>1, Factor
  <2>2. q * k \in Int /\ p * k \in Int
    BY <1>1
  <2> QED
    BY <1>1, <2>1, <2>2
<1>3. q > p => q * k > n
  <2>1. q > p => p + 1 <= q
    BY <1>1
  <2>2. q > p => (p + 1) * k <= q * k
    BY <1>1, <2>1, Factor
  <2>3. q * k \in Int /\ (p + 1) * k \in Int
    BY <1>1
  <2> QED
    BY <1>1, <2>2, <2>3
<1>4. p <= q => n < (q + 1) * k
  <2>1. p <= q => (p + 1) * k <= (q + 1) * k
    BY <1>1, Factor
  <2>2. (q + 1) * k \in Int /\ (p + 1) * k \in Int
    BY <1>1
  <2> QED
    BY <1>1, <2>1, <2>2
<1>5. p > q => n >= (q + 1) * k
  <2>1. p > q => q + 1 <= p
    BY <1>1
  <2>2. p > q => (q + 1) * k <= p * k
    BY <1>1, <2>1, Factor
  <2>3. p * k \in Int /\ (q + 1) * k \in Int
    BY <1>1
  <2> QED
    BY <1>1, <2>2, <2>3
<1>6. p \in Int /\ q * k \in Int /\ (q + 1) * k \in Int
    BY <1>1
<1>7. p <= q <=> n < (q + 1) * k
    BY <1>4, <1>5, <1>6
<1>8. q <= p <=> q * k <= n
    BY <1>2, <1>3, <1>6
<1> QED
    BY <1>7, <1>8 DEF p
-----------------------------------------------------------------------------
(* Powers of two.                                                           *)

\* Sets of numbers have a least one.
LEMMA LeastOf ==
    ASSUME NEW T, T \subseteq Nat, T # {}
    PROVE  \E n \in T : \A m \in T : n <= m
<1>1. PICK n \in T : \A m \in T : ~(<<m, n>> \in OpToRel(<, Nat))
    BY NatLessThanWellFounded, WFMin
<1>2. \A m \in T : ~(m < n)
    BY <1>1 DEF OpToRel
<1> QED
    BY <1>2

\* TwoTo is defined up to any exponent,
Power(g, k) == IF k = 0 THEN 1 ELSE 2 * g[k - 1]
UpTo(n, g) == g = [k \in 0 .. n |-> Power(g, k)]

\* By its least counterexample.
LEMMA PowersUpTo ==
    \A n \in Nat : \E g : UpTo(n, g)
<1> DEFINE Has(n) == \E g : UpTo(n, g)
           bad == {n \in Nat : ~Has(n)}
<1>1. Has(0)
  <2> DEFINE g == [k \in 0 .. 0 |-> 1]
  <2>1. UpTo(0, g)
    BY DEF UpTo, Power
  <2> QED
    BY <2>1
<1>2. ASSUME NEW n \in Nat \ {0}, Has(n - 1) PROVE Has(n)
  <2>1. PICK g : UpTo(n - 1, g)
    BY <1>2
  <2> DEFINE h == [k \in 0 .. n |-> IF k = n THEN 2 * g[n - 1] ELSE g[k]]
  <2>2. \A k \in 0 .. n - 1 : k \in 0 .. n /\ h[k] = g[k]
    OBVIOUS
  <2>3. ASSUME NEW k \in 0 .. n PROVE h[k] = Power(h, k)
    <3>1. CASE k = n
      <4>1. h[n - 1] = g[n - 1]
        BY <2>2
      <4>2. h[k] = 2 * g[n - 1]
        BY <3>1
      <4> HIDE DEF h
      <4> QED
        BY <3>1, <4>1, <4>2 DEF Power
    <3>2. CASE k # n
      <4>1. k \in 0 .. n - 1 /\ (k # 0 => k - 1 \in 0 .. n - 1)
        BY <3>2
      <4>2. g[k] = Power(g, k)
        BY <2>1, <4>1 DEF UpTo
      <4>3. h[k] = g[k] /\ (k # 0 => h[k - 1] = g[k - 1])
        BY <2>2, <4>1
      <4> HIDE DEF h
      <4> QED
        BY <4>2, <4>3 DEF Power
    <3> QED
      BY <3>1, <3>2
  <2>4. h = [k \in 0 .. n |-> h[k]]
    OBVIOUS
  <2> HIDE DEF h
  <2>5. UpTo(n, h)
    BY <2>3, <2>4 DEF UpTo
  <2> QED
    BY <2>5
<1> HIDE DEF Has
<1>3. bad = {}
  <2> SUFFICES ASSUME bad # {} PROVE FALSE
    OBVIOUS
  <2>1. PICK n \in bad : \A m \in bad : n <= m
    BY LeastOf
  <2>2. n # 0
    BY <1>1, <2>1
  <2>3. n - 1 \in Nat /\ n - 1 \notin bad
    BY <2>1, <2>2
  <2> QED
    BY <1>2, <2>1, <2>2, <2>3
<1> QED
    BY <1>3 DEF Has

\* in one way,
LEMMA PowersAgree ==
    ASSUME NEW n \in Nat, NEW g, UpTo(n, g), NEW h, NEW m \in Nat, UpTo(m, h), m <= n
    PROVE  \A k \in 0 .. m : g[k] = h[k]
<1> DEFINE bad == {k \in 0 .. m : g[k] # h[k]}
<1> SUFFICES ASSUME bad # {} PROVE FALSE
    OBVIOUS
<1>1. PICK k \in bad : \A j \in bad : k <= j
  <2>1. bad \subseteq Nat
    OBVIOUS
  <2> HIDE DEF bad
  <2> QED
    BY <2>1, LeastOf
<1>2. k # 0 => k - 1 \in 0 .. m /\ k - 1 \notin bad
    BY <1>1
<1>3. k # 0 => g[k - 1] = h[k - 1]
    BY <1>2
<1>4. g[k] = Power(g, k)
    BY <1>1 DEF UpTo
<1>5. h[k] = Power(h, k)
    BY <1>1 DEF UpTo
<1>6. g[k] = h[k]
    BY <1>3, <1>4, <1>5 DEF Power
<1> QED
    BY <1>1, <1>6

\* and so for all of them.
LEMMA TwoToIs ==
    \A n \in Nat : TwoTo[n] = IF n = 0 THEN 1 ELSE 2 * TwoTo[n - 1]
<1> DEFINE G(n) == CHOOSE g : UpTo(n, g)
           f == [n \in Nat |-> G(n)[n]]
<1>1. \A n \in Nat : UpTo(n, G(n))
    BY PowersUpTo
<1>2. ASSUME NEW n \in Nat PROVE f[n] = IF n = 0 THEN 1 ELSE 2 * f[n - 1]
  <2>1. G(n)[n] = Power(G(n), n)
    <3> HIDE DEF G
    <3> QED
      BY <1>1 DEF UpTo
  <2>2. CASE n = 0
    <3>1. G(n)[n] = 1
      BY <2>1, <2>2 DEF Power
    <3> HIDE DEF G
    <3> QED
      BY <2>2, <3>1
  <2>3. CASE n # 0
    <3>1. n - 1 \in Nat /\ n - 1 \in 0 .. n - 1
      BY <2>3
    <3>2. G(n)[n] = 2 * G(n)[n - 1]
      BY <2>1, <2>3 DEF Power
    <3> HIDE DEF G
    <3>3. G(n)[n - 1] = G(n - 1)[n - 1]
      BY <1>1, <3>1, PowersAgree
    <3> QED
      BY <2>3, <3>1, <3>2, <3>3
  <2> QED
    BY <2>2, <2>3
<1>3. f = [n \in Nat |-> f[n]]
    OBVIOUS
<1> HIDE DEF f
<1>4. f = [n \in Nat |-> IF n = 0 THEN 1 ELSE 2 * f[n - 1]]
    BY <1>2, <1>3
<1>5. TwoTo = [n \in Nat |-> IF n = 0 THEN 1 ELSE 2 * TwoTo[n - 1]]
    BY <1>4 DEF TwoTo
<1> QED
    BY <1>5

\* Powers of two are positive.
LEMMA TwoToPositive ==
    \A n \in Nat : TwoTo[n] \in Nat \ {0}
<1> DEFINE bad == {n \in Nat : TwoTo[n] \notin Nat \ {0}}
<1> SUFFICES ASSUME bad # {} PROVE FALSE
    OBVIOUS
<1>1. PICK n \in bad : \A m \in bad : n <= m
    BY LeastOf
<1>2. n # 0
    BY <1>1, TwoToIs
<1>3. n - 1 \in Nat /\ n - 1 \notin bad
    BY <1>1, <1>2
<1>4. TwoTo[n] = 2 * TwoTo[n - 1]
    BY <1>1, <1>2, TwoToIs
<1>5. TwoTo[n] \in Nat \ {0}
    BY <1>3, <1>4
<1> QED
    BY <1>1, <1>5

\* A power of two has no bits below its own.
LEMMA LowBits ==
    \A n \in Nat : \A z \in Nat : z < n => Bit(TwoTo[n], z) = 0
<1> DEFINE bad(z) == {n \in Nat : z < n /\ ~\E k \in Nat : TwoTo[n] = (2 * k) * TwoTo[z]}
<1>1. ASSUME NEW z \in Nat, bad(z) # {} PROVE FALSE
  <2>1. PICK n \in bad(z) : \A m \in bad(z) : n <= m
    BY <1>1, LeastOf
  <2>2. n - 1 \in Nat /\ TwoTo[n] = 2 * TwoTo[n - 1] /\ TwoTo[z] \in Nat \ {0}
    BY <2>1, TwoToIs, TwoToPositive
  <2>3. CASE n - 1 = z
    BY <2>1, <2>2, <2>3
  <2>4. CASE n - 1 # z
    <3>1. n - 1 \notin bad(z) /\ z < n - 1
      BY <2>1, <2>2, <2>4
    <3>2. PICK k \in Nat : TwoTo[n - 1] = (2 * k) * TwoTo[z]
      BY <2>2, <3>1
    <3>3. TwoTo[n] = (2 * (2 * k)) * TwoTo[z]
      BY <2>2, <3>2
    <3>4. \E j \in Nat : TwoTo[n] = (2 * j) * TwoTo[z]
      <4>1. 2 * k \in Nat
        OBVIOUS
      <4> QED
        BY <3>3, <4>1
    <3> QED
      BY <2>1, <3>4
  <2> QED
    BY <2>3, <2>4
<1>2. ASSUME NEW n \in Nat, NEW z \in Nat, z < n PROVE Bit(TwoTo[n], z) = 0
  <2>1. PICK k \in Nat : TwoTo[n] = (2 * k) * TwoTo[z]
    BY <1>1, <1>2
  <2>2. TwoTo[z] \in Nat \ {0} /\ TwoTo[n] \in Int
    BY TwoToPositive
  <2>3. TwoTo[n] \div TwoTo[z] = 2 * k
    <3> DEFINE m == 2 * k
    <3>1. m \in Int /\ m * TwoTo[z] <= TwoTo[n] /\ TwoTo[n] < m * TwoTo[z] + TwoTo[z]
      BY <2>1, <2>2
    <3> HIDE DEF m
    <3>2. TwoTo[n] \div TwoTo[z] = m
      BY <2>2, <3>1, DivIs
    <3> QED
      BY <3>2 DEF m
  <2> QED
    BY <2>3 DEF Bit
<1> QED
    BY <1>2

\* Powers of two multiply by adding their exponents.
LEMMA TwoToSum ==
    \A m, n \in Nat : TwoTo[m + n] = TwoTo[m] * TwoTo[n]
<1> SUFFICES ASSUME NEW m \in Nat PROVE \A n \in Nat : TwoTo[m + n] = TwoTo[m] * TwoTo[n]
    OBVIOUS
<1> DEFINE bad == {n \in Nat : TwoTo[m + n] # TwoTo[m] * TwoTo[n]}
<1> SUFFICES ASSUME bad # {} PROVE FALSE
    OBVIOUS
<1>1. PICK n \in bad : \A k \in bad : n <= k
    BY LeastOf
<1>2. n \in Nat /\ TwoTo[m + n] # TwoTo[m] * TwoTo[n]
    OBVIOUS
<1>3. TwoTo[0] = 1 /\ TwoTo[m] \in Nat \ {0}
    BY TwoToIs, TwoToPositive
<1>4. n # 0
    BY <1>2, <1>3
<1>5. n - 1 \in Nat /\ n - 1 \notin bad
    BY <1>1, <1>2, <1>4
<1> HIDE DEF bad
<1>6. TwoTo[m + (n - 1)] = TwoTo[m] * TwoTo[n - 1]
    BY <1>5 DEF bad
<1>7. TwoTo[n] = 2 * TwoTo[n - 1] /\ TwoTo[n - 1] \in Nat
    BY <1>2, <1>4, <1>5, TwoToIs, TwoToPositive
<1>8. TwoTo[m + n] = 2 * TwoTo[m + (n - 1)]
  <2>1. m + n \in Nat /\ m + n # 0 /\ (m + n) - 1 = m + (n - 1)
    BY <1>2, <1>4
  <2> QED
    BY <2>1, TwoToIs
<1>9. 2 * (TwoTo[m] * TwoTo[n - 1]) = TwoTo[m] * (2 * TwoTo[n - 1])
    BY <1>3, <1>7
<1> QED
    BY <1>2, <1>6, <1>7, <1>8, <1>9

\* Powers of two grow.
LEMMA Growing ==
    ASSUME NEW m \in Nat, NEW n \in Nat, m < n
    PROVE  TwoTo[m] < TwoTo[n]
<1> DEFINE k == (n - m) - 1
           t == TwoTo[k]
<1>1. k \in Nat /\ n = m + (k + 1) /\ k + 1 \in Nat /\ k + 1 # 0 /\ (k + 1) - 1 = k
    OBVIOUS
<1> HIDE DEF k
<1>2. TwoTo[k + 1] = 2 * t /\ t \in Nat \ {0} /\ TwoTo[m] \in Nat \ {0}
    BY <1>1, TwoToIs, TwoToPositive
<1>3. TwoTo[n] = TwoTo[m] * TwoTo[k + 1]
    BY <1>1, TwoToSum
<1> HIDE DEF t
<1>4. 2 * t >= 2
    BY <1>2
<1>5. TwoTo[m] * (2 * t) >= TwoTo[m] * 2
    BY <1>2, <1>4
<1> QED
    BY <1>2, <1>3, <1>5

-----------------------------------------------------------------------------
(* The map.                                                                 *)

\* Division without remainder.
LEMMA DivExact ==
    ASSUME NEW n \in Nat, NEW k \in Nat \ {0}, n % k = 0
    PROVE  n = (n \div k) * k
OBVIOUS

\* The map has whole tiles at the highest zoom level.
LEMMA MapFacts ==
    ASSUME options \in Options
    PROVE  /\ Zoom \in Nat /\ MapWidth \in Nat \ {0} /\ Unit \in Nat \ {0}
           /\ World \in Nat /\ World = Unit * MapWidth /\ World > 1 /\ World \div 2 \in Nat
           /\ MapWidth * Unit = World
<1>1. /\ World \in Nat \ {0} /\ IntBits \in Nat
      /\ options.max \in 1 .. (IntBits \div 2) /\ World % TwoTo[options.max] = 0
    BY WorldAssumption, OptionsAssumption
<1>2. Zoom \in Nat \ {0}
  <2>1. IntBits \div 2 \in Int
    BY <1>1
  <2> QED
    BY <1>1, <2>1 DEF Zoom
<1>3. MapWidth \in Nat \ {0} /\ MapWidth >= 2
  <2>1. TwoTo[Zoom] = 2 * TwoTo[Zoom - 1]
    BY <1>2, TwoToIs
  <2>2. TwoTo[Zoom - 1] \in Nat \ {0}
    BY <1>2, TwoToPositive
  <2> QED
    BY <2>1, <2>2 DEF MapWidth
<1>4. World % MapWidth = 0
    BY <1>1 DEF MapWidth, Zoom
<1>5. Unit = World \div MapWidth
    BY DEF Unit
<1> HIDE DEF MapWidth, Zoom, Unit
<1>6. World = (World \div MapWidth) * MapWidth
    BY <1>1, <1>3, <1>4, DivExact
<1>7. Unit \in Int /\ World = MapWidth * Unit
    BY <1>1, <1>3, <1>5, <1>6, DivFacts
<1>8. Unit > 0
    BY <1>1, <1>3, <1>7
<1>9. World > 1
    BY <1>3, <1>7, <1>8
<1>10. World = Unit * MapWidth
    BY <1>3, <1>7
<1>11. World \div 2 \in Nat
    BY <1>1
<1> QED
    BY <1>1, <1>2, <1>3, <1>7, <1>8, <1>9, <1>10, <1>11

\* Columns fit into an int.
LEMMA WidthFits ==
    ASSUME options \in Options
    PROVE  /\ TwoTo[IntBits - 1] \in Nat /\ MapWidth < TwoTo[IntBits - 1]
<1>1. IntBits \in Nat /\ IntBits > 2 /\ options.max \in 1 .. (IntBits \div 2)
    BY WorldAssumption, OptionsAssumption
<1>2. IntBits \div 2 \in Int /\ IntBits \div 2 < IntBits - 1
    BY <1>1
<1> DEFINE h == IntBits \div 2
<1>3. Zoom \in 1 .. h /\ h \in Int /\ h < IntBits - 1
    BY <1>1, <1>2 DEF Zoom
<1> HIDE DEF h
<1>4. Zoom \in Nat /\ IntBits - 1 \in Nat /\ Zoom < IntBits - 1
    BY <1>1, <1>3
<1>5. TwoTo[Zoom] < TwoTo[IntBits - 1] /\ TwoTo[IntBits - 1] \in Nat
    BY <1>4, Growing, TwoToPositive
<1> QED
    BY <1>5 DEF MapWidth

-----------------------------------------------------------------------------
(* Rounding towards zero, as static_cast<int> does.                         *)

\* A row that is rounded is in what the program takes for this row.
LEMMA TruncFacts ==
    ASSUME NEW n \in Int, NEW k \in Nat \ {0}
    PROVE  /\ Trunc(n, k) \in Int
           /\ n >= 0 => Trunc(n, k) = n \div k /\ Trunc(n, k) >= 0
           /\ n < 0 => Trunc(n, k) <= 0 /\ n <= Trunc(n, k) * k /\ (Trunc(n, k) - 1) * k <= n
           /\ North(Trunc(n, k)) * k <= n /\ n <= South(Trunc(n, k)) * k
<1> DEFINE q == n \div k
           m == -n
           p == m \div k
<1>1. CASE n >= 0
  <2>1. q \in Int /\ q * k <= n /\ n < (q + 1) * k
    BY DivFacts, DivAtMost
  <2>2. q >= 0
    <3>1. 0 * k <= n
      BY <1>1
    <3> QED
      BY <3>1, DivAtMost
  <2>3. Trunc(n, k) = q
    BY <1>1 DEF Trunc
  <2> HIDE DEF q
  <2>4. South(q) = q + 1 /\ (North(q) = q \/ North(q) = q - 1)
    BY <2>1, <2>2 DEF North, South
  <2>5. (q - 1) * k = q * k - k /\ q * k \in Int /\ (q + 1) * k \in Int
    BY <2>1
  <2>6. North(q) * k <= n /\ n <= South(q) * k
    BY <2>1, <2>4, <2>5
  <2> QED
    BY <1>1, <2>1, <2>2, <2>3, <2>6 DEF q
<1>2. CASE n < 0
  <2>1. m \in Int /\ m > 0
    BY <1>2
  <2>2. p \in Int /\ p * k <= m /\ m < (p + 1) * k
    BY <2>1, DivFacts, DivAtMost
  <2>3. p >= 0
    <3>1. 0 * k <= m
      BY <2>1
    <3> QED
      BY <2>1, <3>1, DivAtMost
  <2>4. Trunc(n, k) = -p
    BY <1>2 DEF Trunc
  <2> HIDE DEF p
  <2>5. (-p) * k = -(p * k) /\ (-p - 1) * k = -((p + 1) * k) /\ (-p + 1) * k = -(p * k) + k
    BY <2>2
  <2>6. p * k \in Int /\ (p + 1) * k \in Int
    BY <2>2
  <2>7. n <= (-p) * k /\ (-p - 1) * k <= n
    BY <2>2, <2>5, <2>6
  <2>8. North(-p) = -p - 1 /\ (South(-p) = -p \/ South(-p) = -p + 1)
    BY <2>2, <2>3 DEF North, South
  <2>9. North(-p) * k <= n
    BY <2>7, <2>8
  <2>10. n <= South(-p) * k
    BY <2>5, <2>6, <2>7, <2>8
  <2>11. -p \in Int /\ -p <= 0
    BY <2>2, <2>3
  <2> HIDE DEF m
  <2> QED
    BY <1>2, <2>4, <2>7, <2>9, <2>10, <2>11
<1> QED
    BY <1>1, <1>2

\* Between what is taken for a row lies the row.
LEMMA NorthSouth ==
    ASSUME NEW r \in Int, NEW k \in Nat \ {0}
    PROVE  /\ North(r) \in Int /\ South(r) \in Int
           /\ North(r) * k <= r * k /\ r * k <= South(r) * k
           /\ North(r) * k \in Int /\ South(r) * k \in Int /\ r * k \in Int
<1>1. North(r) \in Int /\ South(r) \in Int /\ North(r) <= r /\ r <= South(r)
    BY DEF North, South
<1>2. North(r) * k <= r * k /\ r * k <= South(r) * k
    BY <1>1, Factor
<1>3. North(r) * k \in Int /\ South(r) * k \in Int /\ r * k \in Int
    BY <1>1
<1> QED
    BY <1>1, <1>2, <1>3

\* The rows a line is said to enter, from one with the begin a to the one of b:
\* they begin south of a, and where they do not begin north of b, b is off the map.
LEMMA RowsEntered ==
    ASSUME NEW a \in Int, NEW b \in Int, NEW k \in Nat \ {0},
           NEW r \in Trunc(a + k, k) .. Trunc(b, k)
    PROVE  /\ r \in Int /\ a < r * k
           /\ a <= South(r) * k /\ North(r) * k <= b
           /\ b < r * k => b < 0 /\ r <= 0
<1> DEFINE q1 == Trunc(a + k, k)
           q2 == Trunc(b, k)
<1>1. /\ q1 \in Int /\ q2 \in Int
      /\ a + k >= 0 => q1 = (a + k) \div k
      /\ a + k < 0 => a + k <= q1 * k
      /\ b >= 0 => q2 = b \div k
      /\ b < 0 => q2 <= 0 /\ (q2 - 1) * k <= b
  <2>1. a + k \in Int
    OBVIOUS
  <2> QED
    BY <2>1, TruncFacts
<1>2. r \in Int /\ q1 <= r /\ r <= q2
    BY <1>1
<1>3. a + k >= 0 => a + k < (q1 + 1) * k
  <2>1. a + k \in Int
    OBVIOUS
  <2> HIDE DEF q1
  <2> QED
    BY <1>1, <2>1, DivAtMost
<1>4. b >= 0 => q2 * k <= b
  <2> HIDE DEF q2
  <2> QED
    BY <1>1, DivAtMost
<1> HIDE DEF q1, q2
<1>5. (q1 + 1) * k = q1 * k + k /\ q1 * k \in Int /\ q2 * k \in Int /\ r * k \in Int
      /\ (q2 - 1) * k \in Int /\ (r - 1) * k \in Int
    BY <1>1, <1>2
<1>6. q1 * k <= r * k /\ r * k <= q2 * k
    BY <1>1, <1>2, Factor
<1>7. a < r * k
    BY <1>1, <1>3, <1>5, <1>6
<1>8. /\ North(r) * k <= r * k /\ r * k <= South(r) * k
      /\ North(r) * k \in Int /\ South(r) * k \in Int
    BY <1>2, NorthSouth
<1>9. North(r) * k <= b
  <2>1. CASE b >= 0
    BY <1>4, <1>5, <1>6, <1>8, <2>1
  <2>2. CASE b < 0
    <3>1. North(r) = r - 1
      BY <1>1, <1>2, <2>2 DEF North
    <3>2. (r - 1) * k <= (q2 - 1) * k
      <4>1. r - 1 \in Int /\ q2 - 1 \in Int /\ r - 1 <= q2 - 1
        BY <1>1, <1>2
      <4> QED
        BY <4>1, Factor
    <3> QED
      BY <1>1, <1>5, <2>2, <3>1, <3>2
  <2> QED
    BY <2>1, <2>2
<1>10. b < r * k => b < 0 /\ r <= 0
    BY <1>1, <1>2, <1>4, <1>5, <1>6
<1> QED
    BY <1>2, <1>5, <1>7, <1>8, <1>9, <1>10

\* Rows of the map from that of a to that of b are among those.
LEMMA RowsNotMissed ==
    ASSUME NEW a \in Int, NEW b \in Int, NEW k \in Nat \ {0}, NEW r \in Nat,
           a < (r + 1) * k, r * k <= b
    PROVE  /\ r * k <= a => Trunc(a, k) = r
           /\ a < r * k => r \in Trunc(a + k, k) .. Trunc(b, k)
<1>1. r * k \in Nat /\ (r + 1) * k = r * k + k
    OBVIOUS
<1>2. r * k <= a => Trunc(a, k) = r
  <2>1. r * k <= a => a >= 0
    BY <1>1
  <2>2. r * k <= a => a \div k = r
    BY <1>1, DivIs
  <2> QED
    BY <2>1, <2>2, TruncFacts
<1>3. ASSUME a < r * k PROVE r \in Trunc(a + k, k) .. Trunc(b, k)
  <2>1. r <= Trunc(b, k) /\ Trunc(b, k) \in Int
    <3>1. b >= 0
      BY <1>1
    <3>2. r <= b \div k
      BY DivAtMost
    <3> QED
      BY <3>1, <3>2, TruncFacts
  <2>2. Trunc(a + k, k) <= r /\ Trunc(a + k, k) \in Int
    <3>1. a + k \in Int
      OBVIOUS
    <3>2. CASE a + k >= 0
      <4>1. (a + k) < (r + 1) * k
        BY <1>1, <1>3
      <4>2. (a + k) \div k <= r
        BY <3>1, <4>1, DivAtMost
      <4> QED
        BY <3>1, <3>2, <4>2, TruncFacts
    <3>3. CASE a + k < 0
      BY <3>1, <3>3, TruncFacts
    <3> QED
      BY <3>1, <3>2, <3>3
  <2> QED
    BY <2>1, <2>2
<1> QED
    BY <1>2, <1>3

\* The conversion has some result.
LEMMA ToIntIsInt ==
    ASSUME NEW n \in Int, NEW d \in Int
    PROVE  ToInt(n, d) \in Int
<1> DEFINE q == IF d > 0 THEN Trunc(n, d) ELSE Trunc(-n, -d)
           h == TwoTo[IntBits - 1]
<1>1. h \in Nat
  <2>1. IntBits - 1 \in Nat
    BY WorldAssumption
  <2> QED
    BY <2>1, TwoToPositive
<1> HIDE DEF h
<1>2. ASSUME q \in -h .. h - 1 PROVE q \in Int
    BY <1>1, <1>2
<1> HIDE DEF q
<1>3. ToInt(n, d) \in {q, -h, h - 1} /\ (ToInt(n, d) = q => q \in -h .. h - 1 \/ q \in {-h, h - 1})
    BY DEF ToInt, q, h
<1> QED
    BY <1>1, <1>2, <1>3

-----------------------------------------------------------------------------
(* One walk from west to east, (x1, y1 / d) to (x2, y2 / d).                *)

\* The row of the line at x, times d and the width of the line.
Height(x1, y1, x2, y2, x) == y1 * (x2 - x) + y2 * (x - x1)

\* Where the walk is in a column, and which rows it has there.
WestIn(x1, c) == Greatest(x1, c * Unit)
EastIn(x2, c) == Least(x2, (c + 1) * Unit)

\* Passes, Touches, Northward and FromTheWest of a line whose rows are fractions.
PartPasses(x1, y1, x2, y2, d, c, r) ==
    LET row == Unit * d
        h1 == Height(x1, y1, x2, y2, WestIn(x1, c))
        h2 == Height(x1, y1, x2, y2, EastIn(x2, c))
        high == row * (x2 - x1)
    IN IF x1 = x2
       THEN /\ x1 \div Unit = c /\ y1 # y2
            /\ y1 < (r + 1) * row \/ y2 < (r + 1) * row
            /\ y1 >= r * row \/ y2 >= r * row
       ELSE /\ x1 < (c + 1) * Unit /\ x2 > c * Unit
            /\ h1 < (r + 1) * high \/ h2 < (r + 1) * high
            /\ h1 > r * high \/ h2 > r * high \/ (h1 = r * high /\ h2 = r * high)

PartTouches(x1, y1, x2, y2, d, c, r) ==
    LET row == Unit * d
        h1 == Height(x1, y1, x2, y2, WestIn(x1, c))
        h2 == Height(x1, y1, x2, y2, EastIn(x2, c))
        high == row * (x2 - x1)
    IN /\ x1 <= (c + 1) * Unit /\ x2 >= c * Unit
       /\ IF x1 = x2
          THEN /\ y1 <= South(r) * row \/ y2 <= South(r) * row
               /\ y1 >= North(r) * row \/ y2 >= North(r) * row
          ELSE /\ h1 <= South(r) * high \/ h2 <= South(r) * high
               /\ h1 >= North(r) * high \/ h2 >= North(r) * high

PartFromWest(x1, y1, x2, y2, d, c, r) ==
    LET row == Unit * d
        h == Height(x1, y1, x2, y2, c * Unit)
        high == row * (x2 - x1)
    IN \/ c = x1 \div Unit /\ r = y1 \div row
       \/ x1 < c * Unit /\ c * Unit <= x2 /\ r * high <= h /\ h < (r + 1) * high

\* A row the walk comes to though it is north of the map: any column may be the result.
PartStray(y1, y2, d, r) ==
    LET row == Unit * d
    IN /\ r <= 0 /\ (y1 < 0 \/ y2 < 0)
       /\ y1 <= South(r) * row \/ y2 <= South(r) * row
       /\ y1 >= North(r) * row \/ y2 >= North(r) * row

PartNorth(x1, y1, x2, y2) == y2 < y1 /\ x1 \div Unit # x2 \div Unit

\* The places and rows of a walk.
IsWalk(x1, y1, x2, y2, d) ==
    /\ Unit \in Nat \ {0} /\ d \in Nat \ {0}
    /\ x1 \in Nat /\ x2 \in Nat /\ x1 <= x2 /\ y1 \in Int /\ y2 \in Int

\* Everything a walk computes with is a number, and its rows have a height.
LEMMA WalkInts ==
    ASSUME NEW x1, NEW y1, NEW x2, NEW y2, NEW d, IsWalk(x1, y1, x2, y2, d)
    PROVE  /\ x1 \in Int /\ x2 \in Int /\ y1 \in Int /\ y2 \in Int
           /\ Unit * d \in Nat \ {0}
           /\ x1 # x2 => (Unit * d) * (x2 - x1) \in Nat \ {0}
           /\ x1 \div Unit \in Int /\ x2 \div Unit \in Int
           /\ x1 \div Unit <= x2 \div Unit
           /\ y1 \div (Unit * d) \in Int /\ y2 \div (Unit * d) \in Int
<1>1. /\ Unit \in Nat \ {0} /\ d \in Nat \ {0}
      /\ x1 \in Nat /\ x2 \in Nat /\ x1 <= x2 /\ y1 \in Int /\ y2 \in Int
    BY DEF IsWalk
<1>2. \A a, b \in Nat \ {0} : a * b \in Nat \ {0}
    OBVIOUS
<1>3. Unit * d \in Nat \ {0}
    BY <1>1, <1>2
<1>4. x1 # x2 => x2 - x1 \in Nat \ {0}
    BY <1>1
<1>5. x1 # x2 => (Unit * d) * (x2 - x1) \in Nat \ {0}
    BY <1>2, <1>3, <1>4
<1>6. x1 \div Unit \in Int /\ x2 \div Unit \in Int
    BY <1>1, DivFacts
<1>7. (x1 \div Unit) * Unit <= x1
    BY <1>1, DivFacts
<1>8. (x1 \div Unit) * Unit <= x2
    BY <1>1, <1>6, <1>7
<1>9. x1 \div Unit <= x2 \div Unit
    BY <1>1, <1>6, <1>8, DivAtMost
<1>10. y1 \div (Unit * d) \in Int /\ y2 \div (Unit * d) \in Int
    BY <1>1, <1>3, DivFacts
<1> QED
    BY <1>1, <1>3, <1>5, <1>6, <1>9, <1>10

\* A line within a column passes the rows of the map between those of its ends.
LEMMA RowsCovered ==
    ASSUME NEW a \in Int, NEW b \in Int, NEW k \in Nat \ {0}, NEW r \in Nat,
           a < (r + 1) * k \/ b < (r + 1) * k, a >= r * k \/ b >= r * k
    PROVE  r \in RowsFrom(Least(a, b), Greatest(a, b), k)
<1> DEFINE low == Least(a, b)
           high == Greatest(a, b)
<1>1. r * k \in Int /\ (r + 1) * k \in Int
    OBVIOUS
<1>2. low \in Int /\ high \in Int /\ low < (r + 1) * k /\ r * k <= high
    BY <1>1 DEF Least, Greatest
<1> HIDE DEF low, high
<1>3. r * k <= low \/ low < r * k
    BY <1>1, <1>2
<1>4. /\ r * k <= low => Trunc(low, k) = r
      /\ low < r * k => r \in Trunc(low + k, k) .. Trunc(high, k)
    BY <1>2, RowsNotMissed
<1>5. r \in RowsFrom(low, high, k)
    BY <1>3, <1>4 DEF RowsFrom
<1> QED
    BY <1>5 DEF low, high

\* It touches the rows that are visited.
LEMMA RowsVisited ==
    ASSUME NEW a \in Int, NEW b \in Int, NEW k \in Nat \ {0},
           NEW r \in RowsFrom(Least(a, b), Greatest(a, b), k)
    PROVE  /\ r \in Int
           /\ a <= South(r) * k \/ b <= South(r) * k
           /\ a >= North(r) * k \/ b >= North(r) * k
<1> DEFINE low == Least(a, b)
           high == Greatest(a, b)
<1>1. low \in Int /\ high \in Int /\ low <= high /\ low \in {a, b} /\ high \in {a, b}
    BY DEF Least, Greatest
<1>2. r = Trunc(low, k) \/ r \in Trunc(low + k, k) .. Trunc(high, k)
    BY DEF RowsFrom
<1> HIDE DEF low, high
<1>3. r \in Int /\ low <= South(r) * k /\ (North(r) * k <= low \/ North(r) * k <= high)
  <2>1. CASE r = Trunc(low, k)
    BY <1>1, <2>1, TruncFacts
  <2>2. CASE r \in Trunc(low + k, k) .. Trunc(high, k)
    BY <1>1, <2>2, RowsEntered
  <2> QED
    BY <1>2, <2>1, <2>2
<1> QED
    BY <1>1, <1>3

\* A line that stays in one column is followed along its rows.
LEMMA StayingInColumn ==
    ASSUME NEW x1, NEW y1, NEW x2, NEW y2, NEW d, IsWalk(x1, y1, x2, y2, d),
           x1 \div Unit = x2 \div Unit, ~(x1 = x2 /\ y1 = y2)
    PROVE  expire_line_segment(x1, y1, x2, y2, d)
             = {x1 \div Unit} \X RowsFrom(Least(y1, y2), Greatest(y1, y2), Unit * d)
<1>1. x1 \in Int /\ x2 \in Int /\ Unit \in Nat \ {0} /\ x1 <= x2
    BY WalkInts DEF IsWalk
<1>2. x2 - x1 < Unit
  <2>1. /\ (x1 \div Unit) * Unit <= x1 /\ x2 < (x2 \div Unit) * Unit + Unit
        /\ x1 \div Unit \in Int
    BY <1>1, DivFacts
  <2>2. (x1 \div Unit) * Unit \in Int
    BY <1>1, <2>1
  <2> QED
    BY <1>1, <2>1, <2>2
<1> QED
    BY <1>2 DEF expire_line_segment, expire_vertical_line

\* The row of a line that has been followed to the western border of a column, and
\* the column in which it comes to the northern border of a row; as the code computes
\* both, and without its limits.
RowAt(x1, y1, x2, y2, d, c) ==
    Trunc(Height(x1, y1, x2, y2, c * Unit), (Unit * d) * (x2 - x1))
Advance(x1, y1, x2, y2, d, r) == x1 * (y2 - y1) + (x2 - x1) * (r * (Unit * d) - y1)
ColumnCut(x1, y1, x2, y2, d, r) == ToInt(Advance(x1, y1, x2, y2, d, r), Unit * (y2 - y1))
ColumnAt(x1, y1, x2, y2, d, r) == Advance(x1, y1, x2, y2, d, r) \div (Unit * (y2 - y1))

\* A line from column to column is wider than none.
LEMMA CrossingColumns ==
    ASSUME NEW x1, NEW y1, NEW x2, NEW y2, NEW d, IsWalk(x1, y1, x2, y2, d),
           x1 \div Unit # x2 \div Unit
    PROVE  expire_line_segment(x1, y1, x2, y2, d)
             = {<<x1 \div Unit, Trunc(y1, Unit * d)>>}
               \cup {<<c, RowAt(x1, y1, x2, y2, d, c)>> :
                        c \in (x1 \div Unit) + 1 .. (x2 \div Unit)}
               \cup {<<ColumnCut(x1, y1, x2, y2, d, r), r>> :
                        r \in Trunc(y1 + Unit * d, Unit * d) .. Trunc(y2, Unit * d)}
BY DEF expire_line_segment, RowAt, ColumnCut, Advance, Height

\* Columns of the map are computed within the range of an int.
LEMMA ColumnFits ==
    ASSUME options \in Options, NEW n \in Int, NEW k \in Nat \ {0},
           n >= 0, n \div k <= MapWidth
    PROVE  ToInt(n, k) = n \div k
<1> DEFINE q == n \div k
           m == TwoTo[IntBits - 1]
<1>1. Trunc(n, k) = q /\ q \in Nat
    BY TruncFacts
<1>2. m \in Nat /\ MapWidth < m /\ MapWidth \in Nat
    BY WidthFits, MapFacts
<1> HIDE DEF q, m
<1>3. q \in -m .. m - 1
  <2>1. q <= MapWidth
    BY DEF q
  <2> QED
    BY <1>1, <1>2, <2>1
<1>4. Trunc(n, k) \in -TwoTo[IntBits - 1] .. TwoTo[IntBits - 1] - 1
    BY <1>1, <1>3 DEF m
<1>5. k > 0 /\ k # 0
    OBVIOUS
<1>6. ToInt(n, k) = Trunc(n, k)
    BY <1>4, <1>5 DEF ToInt
<1> QED
    BY <1>1, <1>6 DEF q

\* The columns a line comes to.
LEMMA ColumnsPassed ==
    ASSUME NEW x1, NEW y1, NEW x2, NEW y2, NEW d, IsWalk(x1, y1, x2, y2, d), NEW c \in Int
    PROVE  /\ x1 < (c + 1) * Unit <=> x1 \div Unit <= c
           /\ c * Unit <= x2 <=> c <= x2 \div Unit
           /\ x1 < c * Unit <=> x1 \div Unit < c
           /\ c * Unit \in Int /\ (c + 1) * Unit \in Int /\ (c + 1) * Unit = c * Unit + Unit
<1>1. Unit \in Nat \ {0} /\ x1 \in Int /\ x2 \in Int
    BY DEF IsWalk
<1>2. x1 < (c + 1) * Unit <=> x1 \div Unit <= c
    BY <1>1, DivAtMost
<1>3. c * Unit <= x2 <=> c <= x2 \div Unit
    BY <1>1, DivAtMost
<1>4. x1 \div Unit \in Int
    BY <1>1, DivFacts
<1>5. c * Unit <= x1 <=> c <= x1 \div Unit
    BY <1>1, DivAtMost
<1>6. c * Unit \in Int /\ (c + 1) * Unit \in Int
    BY <1>1
<1>7. (c + 1) * Unit = c * Unit + Unit
    BY <1>1
<1>8. x1 < c * Unit <=> x1 \div Unit < c
    BY <1>1, <1>4, <1>5, <1>6
<1> QED
    BY <1>2, <1>3, <1>6, <1>7, <1>8

\* Where the line is in a column it comes to.
LEMMA EndsInColumn ==
    ASSUME NEW x1, NEW y1, NEW x2, NEW y2, NEW d, IsWalk(x1, y1, x2, y2, d), NEW c \in Int
    PROVE  /\ WestIn(x1, c) \in Int /\ EastIn(x2, c) \in Int
           /\ WestIn(x1, c) \in {x1, c * Unit}
           /\ WestIn(x1, c) >= x1 /\ WestIn(x1, c) >= c * Unit
           /\ EastIn(x2, c) \in {x2, (c + 1) * Unit}
           /\ EastIn(x2, c) <= x2 /\ EastIn(x2, c) <= (c + 1) * Unit
<1>1. Unit \in Nat \ {0} /\ x1 \in Int /\ x2 \in Int
    BY DEF IsWalk
<1>2. c * Unit \in Int /\ (c + 1) * Unit \in Int
    BY <1>1
<1>3. /\ WestIn(x1, c) \in Int /\ WestIn(x1, c) \in {x1, c * Unit}
      /\ WestIn(x1, c) >= x1 /\ WestIn(x1, c) >= c * Unit
    BY <1>1, <1>2 DEF WestIn, Greatest
<1>4. /\ EastIn(x2, c) \in Int /\ EastIn(x2, c) \in {x2, (c + 1) * Unit}
      /\ EastIn(x2, c) <= x2 /\ EastIn(x2, c) <= (c + 1) * Unit
    BY <1>1, <1>2 DEF EastIn, Least
<1> QED
    BY <1>3, <1>4

\* A line in one column passes a tile there if its rows do.
LEMMA PassingInColumn ==
    ASSUME NEW x1, NEW y1, NEW x2, NEW y2, NEW d, IsWalk(x1, y1, x2, y2, d),
           x1 \div Unit = x2 \div Unit, NEW c \in Int, NEW r \in Int,
           PartPasses(x1, y1, x2, y2, d, c, r)
    PROVE  /\ ~(x1 = x2 /\ y1 = y2) \/ y1 \div (Unit * d) = r
           /\ c = x1 \div Unit
           /\ y1 < (r + 1) * (Unit * d) \/ y2 < (r + 1) * (Unit * d)
           /\ y1 >= r * (Unit * d) \/ y2 >= r * (Unit * d)
<1> DEFINE V == Unit * d
           W == x2 - x1
           high == V * W
           h1 == Height(x1, y1, x2, y2, WestIn(x1, c))
           h2 == Height(x1, y1, x2, y2, EastIn(x2, c))
<1>1. /\ x1 \in Int /\ x2 \in Int /\ y1 \in Int /\ y2 \in Int /\ V \in Nat \ {0}
      /\ Unit \in Nat \ {0} /\ x1 <= x2 /\ x1 \div Unit \in Int /\ x2 \div Unit \in Int
    BY WalkInts DEF IsWalk
<1>2. CASE x1 = x2
    BY <1>1, <1>2 DEF PartPasses
<1>3. CASE x1 # x2
  <2>1. /\ x1 < (c + 1) * Unit /\ x2 > c * Unit
        /\ h1 < (r + 1) * high \/ h2 < (r + 1) * high
        /\ h1 > r * high \/ h2 > r * high \/ (h1 = r * high /\ h2 = r * high)
    BY <1>3 DEF PartPasses
  <2>2. c = x1 \div Unit
    <3>1. x1 \div Unit <= c
      BY <2>1, ColumnsPassed
    <3>2. c * Unit \in Int
      BY <1>1
    <3>3. c * Unit <= x2
      BY <1>1, <2>1, <3>2
    <3>4. c <= x2 \div Unit
      BY <3>3, ColumnsPassed
    <3> QED
      BY <1>1, <3>1, <3>4
  <2>3. /\ c * Unit <= x1 /\ x2 < (c + 1) * Unit
        /\ c * Unit \in Int /\ (c + 1) * Unit \in Int
    <3>1. (x1 \div Unit) * Unit <= x1
      BY <1>1, DivFacts
    <3>2. x2 < ((x2 \div Unit) + 1) * Unit
      BY <1>1, DivAtMost
    <3> QED
      BY <1>1, <2>2, <3>1, <3>2
  <2>4. WestIn(x1, c) = x1 /\ EastIn(x2, c) = x2
    BY <1>1, <2>3 DEF WestIn, EastIn, Greatest, Least
  <2>5. h1 = y1 * W /\ h2 = y2 * W
    BY <1>1, <2>4 DEF Height
  <2>6. W \in Nat \ {0}
    BY <1>1, <1>3
  <2>7. /\ (r + 1) * high = ((r + 1) * V) * W /\ r * high = (r * V) * W
        /\ (r + 1) * V \in Int /\ r * V \in Int
    BY <1>1, <2>6
  <2> HIDE DEF V, W, high, h1, h2
  <2>8. y1 * W < ((r + 1) * V) * W \/ y2 * W < ((r + 1) * V) * W
    BY <2>1, <2>5, <2>7
  <2>9. y1 < (r + 1) * V \/ y2 < (r + 1) * V
    BY <1>1, <2>6, <2>7, <2>8, Factor
  <2>10. y1 * W >= (r * V) * W \/ y2 * W >= (r * V) * W
    <3>1. y1 * W \in Int /\ y2 * W \in Int /\ (r * V) * W \in Int
      BY <1>1, <2>6
    <3> QED
      BY <2>1, <2>5, <2>7, <3>1
  <2>11. y1 >= r * V \/ y2 >= r * V
    BY <1>1, <2>6, <2>7, <2>10, Factor
  <2> QED
    BY <1>3, <2>2, <2>9, <2>11 DEF V
<1> QED
    BY <1>2, <1>3

\* A line to the south that passes a tile begins there, comes into it from the west,
\* or comes to its northern border there.
LEMMA EnteringTile ==
    ASSUME NEW x1, NEW y1, NEW x2, NEW y2, NEW d, IsWalk(x1, y1, x2, y2, d),
           x1 \div Unit # x2 \div Unit, y1 <= y2, NEW c \in Int, NEW r \in Int,
           PartPasses(x1, y1, x2, y2, d, c, r), ~PartFromWest(x1, y1, x2, y2, d, c, r)
    PROVE  /\ y1 < r * (Unit * d) /\ r * (Unit * d) < y2
           /\ ColumnAt(x1, y1, x2, y2, d, r) = c
<1> DEFINE V == Unit * d
           W == x2 - x1
           D == y2 - y1
           high == V * W
           west == WestIn(x1, c)
           east == EastIn(x2, c)
           h1 == Height(x1, y1, x2, y2, west)
           h2 == Height(x1, y1, x2, y2, east)
           N == x1 * D + W * (r * V - y1)
<1>1. /\ x1 \in Int /\ x2 \in Int /\ y1 \in Int /\ y2 \in Int /\ V \in Nat \ {0}
      /\ Unit \in Nat \ {0} /\ x1 < x2 /\ x1 \div Unit \in Int /\ x2 \div Unit \in Int
      /\ W \in Nat \ {0} /\ D \in Nat
    BY WalkInts DEF IsWalk
<1>2. /\ x1 < (c + 1) * Unit /\ x2 > c * Unit
      /\ h1 < (r + 1) * high \/ h2 < (r + 1) * high
      /\ h1 > r * high \/ h2 > r * high \/ (h1 = r * high /\ h2 = r * high)
    BY <1>1 DEF PartPasses
<1>3. /\ west \in Int /\ east \in Int /\ west \in {x1, c * Unit}
      /\ west >= x1 /\ west >= c * Unit /\ east <= x2 /\ east <= (c + 1) * Unit
      /\ east \in {x2, (c + 1) * Unit} /\ c * Unit \in Int /\ (c + 1) * Unit \in Int
      /\ (c + 1) * Unit = c * Unit + Unit
    BY <1>1, EndsInColumn, ColumnsPassed
<1>4. west < east /\ east >= x1 /\ west <= x2
    BY <1>1, <1>2, <1>3
<1>5. /\ h1 \in Int /\ h2 \in Int /\ high \in Nat \ {0}
      /\ r * high \in Int /\ (r + 1) * high \in Int
      /\ r * high = (r * V) * W /\ (r + 1) * high = ((r + 1) * V) * W
      /\ r * V \in Int /\ (r + 1) * V \in Int /\ N \in Int
  <2>1. h1 \in Int /\ h2 \in Int
    <3> HIDE DEF west, east
    <3>1. \A x \in Int : Height(x1, y1, x2, y2, x) \in Int
      BY <1>1 DEF Height
    <3> QED
      BY <1>3, <3>1
  <2>2. high \in Nat \ {0}
    BY <1>1, WalkInts
  <2>3. r * V \in Int /\ (r + 1) * V \in Int
    BY <1>1
  <2>4. N \in Int
    BY <1>1, <2>3
  <2>5. r * high \in Int /\ (r + 1) * high \in Int
    BY <2>2
  <2>6. r * high = (r * V) * W
    BY <1>1
  <2>7. (r + 1) * high = ((r + 1) * V) * W
    BY <1>1
  <2> QED
    BY <2>1, <2>2, <2>3, <2>4, <2>5, <2>6, <2>7
<1>6. h1 = y1 * W + D * (west - x1) /\ h2 = y1 * W + D * (east - x1)
  <2> HIDE DEF west, east
  <2>1. \A x \in Int : Height(x1, y1, x2, y2, x) = y1 * W + D * (x - x1)
    BY <1>1 DEF Height
  <2> QED
    BY <1>3, <2>1
<1>7. D * (west - x1) >= 0
    BY <1>1, <1>3
<1>8. h1 <= h2
  <2>1. D * (west - x1) <= D * (east - x1)
    BY <1>1, <1>3, <1>4
  <2>2. D * (west - x1) \in Int /\ D * (east - x1) \in Int /\ y1 * W \in Int
    BY <1>1, <1>3
  <2> QED
    BY <1>6, <2>1, <2>2
<1>9. h1 < (r + 1) * high
    BY <1>2, <1>5, <1>8
\* It is not there from the west, so that it is still above the tile.
<1>10. h1 < r * high
  <2> SUFFICES ASSUME h1 >= r * high PROVE FALSE
    BY <1>5
  <2>1. CASE x1 < c * Unit
    <3>1. west = c * Unit
      BY <1>1, <1>3, <2>1
    <3>2. c * Unit <= x2
      BY <1>1, <1>2, <1>3
    <3>3. r * high <= Height(x1, y1, x2, y2, c * Unit) /\ Height(x1, y1, x2, y2, c * Unit) < (r + 1) * high
      BY <1>9, <3>1
    <3> QED
      BY <2>1, <3>2, <3>3 DEF PartFromWest
  <2>2. CASE ~(x1 < c * Unit)
    <3>1. west = x1
      BY <1>1, <1>3, <2>2
    <3>2. c = x1 \div Unit
      <4>1. x1 \div Unit <= c
        BY <1>2, ColumnsPassed
      <4>2. ~(x1 \div Unit < c)
        BY <2>2, ColumnsPassed
      <4> QED
        BY <1>1, <4>1, <4>2
    <3>3. h1 = y1 * W
      BY <1>1, <3>1 DEF Height
    <3>4. (r * V) * W <= y1 * W /\ y1 * W < ((r + 1) * V) * W
      BY <1>5, <1>9, <3>3
    <3> HIDE DEF V, W, high, h1
    <3>5. r * V <= y1 /\ y1 < (r + 1) * V
      BY <1>1, <1>5, <3>4, Factor
    <3>6. (r + 1) * V = r * V + V
      BY <1>1
    <3>7. y1 \div V = r
      BY <1>1, <3>5, <3>6, DivIs
    <3> QED
      BY <3>2, <3>7 DEF PartFromWest, V
  <2> QED
    BY <2>1, <2>2
<1>11. h2 > r * high
    BY <1>2, <1>5, <1>10
<1>12. y1 < r * V
  <2>1. y1 * W <= h1
    <3>1. y1 * W \in Int /\ D * (west - x1) \in Int
      BY <1>1, <1>3
    <3> QED
      BY <1>6, <1>7, <3>1
  <2>2. y1 * W \in Int
    BY <1>1
  <2>3. y1 * W < (r * V) * W
    BY <1>5, <1>10, <2>1, <2>2
  <2> HIDE DEF V, W, high, h1
  <2> QED
    BY <1>1, <1>5, <2>3, Factor
<1>13. r * V < y2
  <2>1. D * (x2 - east) >= 0
    BY <1>1, <1>3
  <2>2. y2 * W = h2 + D * (x2 - east)
    <3>1. D * (east - x1) + D * (x2 - east) = D * (x2 - x1)
      <4> HIDE DEF D, W, east
      <4> QED
        BY <1>1, <1>3
    <3>2. y2 * W = y1 * W + D * W
      BY <1>1
    <3>3. D * (east - x1) \in Int /\ D * (x2 - east) \in Int /\ y1 * W \in Int
      BY <1>1, <1>3
    <3> QED
      BY <1>6, <3>1, <3>2, <3>3
  <2>3. y2 * W \in Int /\ D * (x2 - east) \in Int
    BY <1>1, <1>3
  <2>4. (r * V) * W < y2 * W
    BY <1>5, <1>11, <2>1, <2>2, <2>3
  <2> HIDE DEF V, W, high, h2, D, east
  <2> QED
    BY <1>1, <1>5, <2>4, Factor
<1>14. N = x1 * D + (r * high - y1 * W)
  <2>1. W * (r * V - y1) = W * (r * V) - W * y1
    BY <1>1, <1>5
  <2>2. W * (r * V) = r * high /\ W * y1 = y1 * W
    BY <1>1, <1>5
  <2> QED
    BY <1>1, <1>5, <2>1, <2>2
<1>15. D * west < N
  <2> HIDE DEF high, N, W, D, west, h1
  <2>1. D * (west - x1) = D * west - x1 * D
    BY <1>1, <1>3
  <2>2. D * west \in Int /\ x1 * D \in Int /\ y1 * W \in Int
    BY <1>1, <1>3
  <2> QED
    BY <1>5, <1>6, <1>10, <1>14, <2>1, <2>2
<1>16. N < D * east
  <2> HIDE DEF high, N, W, D, east, h2
  <2>1. D * (east - x1) = D * east - x1 * D
    BY <1>1, <1>3
  <2>2. D * east \in Int /\ x1 * D \in Int /\ y1 * W \in Int
    BY <1>1, <1>3
  <2> QED
    BY <1>5, <1>6, <1>11, <1>14, <2>1, <2>2
<1>17. N \div (Unit * D) = c
  <2>1. D \in Nat \ {0}
    BY <1>1, <1>5, <1>12, <1>13
  <2>2. Unit * D \in Nat \ {0}
    BY <1>1, <2>1
  <2>3. c * (Unit * D) = D * (c * Unit) /\ c * (Unit * D) + Unit * D = D * ((c + 1) * Unit)
    BY <1>1, <2>1
  <2>4. D * (c * Unit) <= D * west
    BY <1>1, <1>3, <2>1
  <2>5. D * east <= D * ((c + 1) * Unit)
    BY <1>1, <1>3, <2>1
  <2>6. /\ D * west \in Int /\ D * east \in Int /\ D * (c * Unit) \in Int
        /\ D * ((c + 1) * Unit) \in Int
    BY <1>1, <1>3, <2>1
  <2>7. c * (Unit * D) <= N /\ N < c * (Unit * D) + Unit * D
    BY <1>5, <1>15, <1>16, <2>3, <2>4, <2>5, <2>6
  <2> HIDE DEF N, D
  <2> QED
    BY <1>5, <2>2, <2>7, DivIs
<1> QED
    BY <1>12, <1>13, <1>17 DEF ColumnAt, Advance

\* What the column is computed from.
LEMMA AdvanceFacts ==
    ASSUME NEW x1, NEW y1, NEW x2, NEW y2, NEW d, IsWalk(x1, y1, x2, y2, d), NEW r \in Int,
           y1 < y2, y1 <= r * (Unit * d)
    PROVE  Advance(x1, y1, x2, y2, d, r) \in Nat /\ Unit * (y2 - y1) \in Nat \ {0}
<1> DEFINE V == Unit * d
           W == x2 - x1
           D == y2 - y1
           E == r * V - y1
<1>1. /\ x1 \in Nat /\ y1 \in Int /\ y2 \in Int /\ V \in Nat \ {0} /\ W \in Nat
      /\ Unit \in Nat \ {0}
    BY WalkInts DEF IsWalk
<1>2. D \in Nat \ {0}
    BY <1>1
<1>3. E \in Nat
  <2>1. r * V \in Int
    BY <1>1
  <2> HIDE DEF V
  <2> QED
    BY <1>1, <2>1 DEF V
<1>4. Advance(x1, y1, x2, y2, d, r) = x1 * D + W * E
    BY DEF Advance
<1> HIDE DEF V, W, D, E
<1>5. x1 * D \in Nat /\ W * E \in Nat
    BY <1>1, <1>2, <1>3
<1>6. Unit * D \in Nat \ {0}
  <2>1. Unit * D > 0 /\ Unit * D \in Int
    BY <1>1, <1>2
  <2> QED
    BY <2>1
<1> QED
    BY <1>4, <1>5, <1>6 DEF D

\* The walk misses no tile the line passes, but those a line to the north enters
\* from the south.
LEMMA WalkCovers ==
    ASSUME NEW x1, NEW y1, NEW x2, NEW y2, NEW d, IsWalk(x1, y1, x2, y2, d),
           options \in Options, x2 <= World,
           NEW c \in Int, NEW r \in Nat, PartPasses(x1, y1, x2, y2, d, c, r),
           PartNorth(x1, y1, x2, y2) => PartFromWest(x1, y1, x2, y2, d, c, r)
    PROVE  <<c, r>> \in expire_line_segment(x1, y1, x2, y2, d) \/ (x1 = x2 /\ y1 = y2)
<1> DEFINE E == expire_line_segment(x1, y1, x2, y2, d)
           V == Unit * d
           high == V * (x2 - x1)
           h == Height(x1, y1, x2, y2, c * Unit)
<1>1. CASE x1 \div Unit = x2 \div Unit
  <2>1. /\ c = x1 \div Unit
        /\ y1 < (r + 1) * V \/ y2 < (r + 1) * V
        /\ y1 >= r * V \/ y2 >= r * V
    BY <1>1, PassingInColumn
  <2>2. y1 \in Int /\ y2 \in Int /\ V \in Nat \ {0}
    BY WalkInts
  <2>3. r \in RowsFrom(Least(y1, y2), Greatest(y1, y2), V)
    BY <2>1, <2>2, RowsCovered
  <2>4. CASE ~(x1 = x2 /\ y1 = y2)
    <3>1. E = {x1 \div Unit} \X RowsFrom(Least(y1, y2), Greatest(y1, y2), V)
      BY <1>1, <2>4, StayingInColumn
    <3> QED
      BY <2>1, <2>3, <3>1
  <2> QED
    BY <2>4
<1>2. CASE x1 \div Unit # x2 \div Unit
  <2>1. /\ x1 \in Int /\ x2 \in Int /\ y1 \in Int /\ y2 \in Int /\ V \in Nat \ {0}
        /\ Unit \in Nat \ {0} /\ x1 < x2 /\ x1 \div Unit \in Int /\ x2 \div Unit \in Int
        /\ high \in Nat \ {0} /\ r * high \in Nat /\ r * V \in Nat /\ (r + 1) * V = r * V + V
    <3>1. /\ x1 \in Int /\ x2 \in Int /\ y1 \in Int /\ y2 \in Int /\ V \in Nat \ {0}
          /\ Unit \in Nat \ {0} /\ x1 < x2 /\ x1 \div Unit \in Int /\ x2 \div Unit \in Int
          /\ high \in Nat \ {0}
      BY <1>2, WalkInts DEF IsWalk
    <3> HIDE DEF V, high
    <3>2. r * high \in Nat /\ r * V \in Nat /\ (r + 1) * V = r * V + V
      BY <3>1
    <3> QED
      BY <3>1, <3>2
  <2>2. E = {<<x1 \div Unit, Trunc(y1, V)>>}
            \cup {<<k, RowAt(x1, y1, x2, y2, d, k)>> : k \in (x1 \div Unit) + 1 .. (x2 \div Unit)}
            \cup {<<ColumnCut(x1, y1, x2, y2, d, k), k>> :
                        k \in Trunc(y1 + V, V) .. Trunc(y2, V)}
    BY <1>2, CrossingColumns
  <2>3. CASE PartFromWest(x1, y1, x2, y2, d, c, r)
    <3>1. CASE c = x1 \div Unit /\ r = y1 \div V
      <4>1. r * V <= y1
        BY <2>1, <3>1, DivFacts
      <4>2. y1 >= 0
        BY <2>1, <4>1
      <4>3. Trunc(y1, V) = r
        BY <2>1, <3>1, <4>2, TruncFacts
      <4> QED
        BY <2>2, <3>1, <4>3
    <3>2. CASE x1 < c * Unit /\ c * Unit <= x2 /\ r * high <= h /\ h < (r + 1) * high
      <4>1. c \in (x1 \div Unit) + 1 .. (x2 \div Unit)
        <5>1. x1 \div Unit < c
          BY <3>2, ColumnsPassed
        <5>2. c <= x2 \div Unit
          BY <3>2, ColumnsPassed
        <5> QED
          BY <2>1, <5>1, <5>2
      <4>2. RowAt(x1, y1, x2, y2, d, c) = r
        <5>1. c * Unit \in Int
          BY <2>1
        <5>2. h \in Int
          BY <2>1, <5>1 DEF Height
        <5>3. (r + 1) * high = r * high + high
          BY <2>1
        <5> HIDE DEF high, h
        <5>8. r \in Int /\ high \in Nat \ {0} /\ r * high <= h /\ h < r * high + high
          BY <2>1, <3>2, <5>3
        <5>6. h \div high = r
          BY <5>2, <5>8, DivIs
        <5>7. h >= 0
          BY <2>1, <3>2, <5>2
        <5>4. h \div high = r /\ h >= 0
          BY <5>6, <5>7
        <5>5. Trunc(h, high) = r
          BY <2>1, <5>2, <5>4, TruncFacts
        <5> QED
          BY <5>5 DEF RowAt, h, high
      <4> QED
        BY <2>2, <4>1, <4>2
    <3> QED
      BY <2>3, <3>1, <3>2 DEF PartFromWest
  <2>4. CASE ~PartFromWest(x1, y1, x2, y2, d, c, r)
    <3>1. y1 <= y2
      BY <1>2, <2>1, <2>4 DEF PartNorth
    <3>2. /\ y1 < r * V /\ r * V < y2
          /\ ColumnAt(x1, y1, x2, y2, d, r) = c
      BY <1>2, <2>4, <3>1, EnteringTile
    <3>3. r \in Trunc(y1 + V, V) .. Trunc(y2, V)
      <4>1. y1 < (r + 1) * V /\ r * V <= y2
        BY <2>1, <3>2
      <4> HIDE DEF V
      <4> QED
        BY <2>1, <3>2, <4>1, RowsNotMissed
    <3>4. c < MapWidth /\ MapWidth \in Nat
      <4>1. x2 > c * Unit /\ c * Unit \in Int
        BY <2>1 DEF PartPasses
      <4>2. MapWidth \in Nat /\ World = MapWidth * Unit /\ World \in Nat
        BY MapFacts
      <4>3. c * Unit < MapWidth * Unit
        BY <2>1, <4>1, <4>2
      <4> QED
        BY <2>1, <4>2, <4>3, Factor
    <3>5. ColumnCut(x1, y1, x2, y2, d, r) = c
      <4>1. y1 < y2 /\ y1 <= r * (Unit * d) /\ r \in Int
        BY <2>1, <3>2
      <4> DEFINE n == Advance(x1, y1, x2, y2, d, r)
                 k == Unit * (y2 - y1)
      <4>2. n \in Nat /\ k \in Nat \ {0}
        BY <4>1, AdvanceFacts
      <4>3. n \div k = c
        BY <3>2 DEF ColumnAt
      <4> HIDE DEF n, k
      <4>4. ToInt(n, k) = c
        <5>1. n \in Int /\ n >= 0 /\ n \div k <= MapWidth
          BY <3>4, <4>2, <4>3
        <5> QED
          BY <4>2, <4>3, <5>1, ColumnFits
      <4> QED
        BY <4>4 DEF n, k, ColumnCut
    <3> QED
      BY <2>2, <3>3, <3>5
  <2> QED
    BY <2>3, <2>4
<1> QED
    BY <1>1, <1>2

\* The tiles in which the walk notices a new column are touched there.
LEMMA ColumnsTouched ==
    ASSUME NEW x1, NEW y1, NEW x2, NEW y2, NEW d, IsWalk(x1, y1, x2, y2, d),
           x1 \div Unit # x2 \div Unit, NEW c \in (x1 \div Unit) + 1 .. (x2 \div Unit)
    PROVE  /\ RowAt(x1, y1, x2, y2, d, c) \in Int
           /\ PartTouches(x1, y1, x2, y2, d, c, RowAt(x1, y1, x2, y2, d, c))
<1> DEFINE V == Unit * d
           high == V * (x2 - x1)
           h == Height(x1, y1, x2, y2, c * Unit)
           r == RowAt(x1, y1, x2, y2, d, c)
<1>1. /\ x1 \in Int /\ x2 \in Int /\ y1 \in Int /\ y2 \in Int /\ V \in Nat \ {0}
      /\ Unit \in Nat \ {0} /\ x1 < x2 /\ x1 \div Unit \in Int /\ x2 \div Unit \in Int
      /\ high \in Nat \ {0} /\ c \in Int /\ c * Unit \in Int
    BY WalkInts DEF IsWalk
<1>2. x1 < c * Unit /\ c * Unit <= x2 /\ (c + 1) * Unit \in Int /\ (c + 1) * Unit = c * Unit + Unit
  <2>1. x1 \div Unit < c /\ c <= x2 \div Unit
    BY <1>1
  <2> QED
    BY <1>1, <2>1, ColumnsPassed
<1>3. WestIn(x1, c) = c * Unit
    BY <1>1, <1>2 DEF WestIn, Greatest
<1>4. h \in Int
    BY <1>1 DEF Height
<1>5. r = Trunc(h, high)
    BY DEF RowAt
<1> HIDE DEF high, h, r, V
<1>6. r \in Int /\ North(r) * high <= h /\ h <= South(r) * high
    BY <1>1, <1>4, <1>5, TruncFacts
<1>7. North(r) * high \in Int /\ South(r) * high \in Int
    BY <1>1, <1>6, NorthSouth
<1>8. h <= South(r) * high /\ h >= North(r) * high
    BY <1>1, <1>4, <1>6, <1>7
<1>9. PartTouches(x1, y1, x2, y2, d, c, r)
    BY <1>1, <1>2, <1>3, <1>8 DEF PartTouches, h, high, V
<1> QED
    BY <1>6, <1>9 DEF r

\* So are those in which it notices a new row.
LEMMA RowsTouched ==
    ASSUME NEW x1, NEW y1, NEW x2, NEW y2, NEW d, IsWalk(x1, y1, x2, y2, d),
           x1 \div Unit # x2 \div Unit,
           NEW r \in Int, y1 < r * (Unit * d), r * (Unit * d) <= y2
    PROVE  /\ ColumnAt(x1, y1, x2, y2, d, r) \in (x1 \div Unit) .. (x2 \div Unit)
           /\ PartTouches(x1, y1, x2, y2, d, ColumnAt(x1, y1, x2, y2, d, r), r)
<1> DEFINE V == Unit * d
           W == x2 - x1
           D == y2 - y1
           high == V * W
           c == ColumnAt(x1, y1, x2, y2, d, r)
           west == WestIn(x1, c)
           east == EastIn(x2, c)
           h1 == Height(x1, y1, x2, y2, west)
           h2 == Height(x1, y1, x2, y2, east)
           N == x1 * D + W * (r * V - y1)
           K == Unit * D
<1>1. /\ x1 \in Int /\ x2 \in Int /\ y1 \in Int /\ y2 \in Int /\ V \in Nat \ {0}
      /\ Unit \in Nat \ {0} /\ x1 < x2 /\ x1 \div Unit \in Int /\ x2 \div Unit \in Int
      /\ high \in Nat \ {0} /\ W \in Nat \ {0} /\ r \in Int
    BY WalkInts DEF IsWalk
<1>2. y1 < r * V /\ r * V <= y2 /\ r * V \in Int
  <2>1. y1 < r * V /\ r * V <= y2
    OBVIOUS
  <2> HIDE DEF V
  <2> QED
    BY <1>1, <2>1
<1>3. D \in Nat \ {0} /\ K \in Nat \ {0}
  <2>1. D \in Nat \ {0}
    BY <1>1, <1>2
  <2> HIDE DEF D
  <2> QED
    BY <1>1, <2>1
<1>4. N = x1 * D + (r * high - y1 * W) /\ N \in Int /\ r * high \in Int
  <2> HIDE DEF W, D
  <2>1. W * (r * V - y1) = W * (r * V) - W * y1
    BY <1>1, <1>2
  <2>2. W * (r * V) = r * high /\ W * y1 = y1 * W
    BY <1>1, <1>2
  <2>3. x1 * D \in Int /\ W * (r * V) \in Int /\ W * y1 \in Int
    BY <1>1, <1>2, <1>3
  <2> HIDE DEF V, high
  <2> QED
    BY <1>1, <1>2, <2>1, <2>2, <2>3
<1>5. x1 * D <= N /\ N <= x2 * D /\ x1 * D \in Int /\ x2 * D \in Int
  <2>1. W * (r * V - y1) >= 0
    BY <1>1, <1>2
  <2>2. W * (r * V - y1) <= W * D
    <3> HIDE DEF W, V
    <3>1. r * V - y1 \in Int /\ r * V - y1 <= D
      BY <1>1, <1>2
    <3> HIDE DEF D
    <3> QED
      BY <1>1, <1>3, <3>1
  <2>3. x1 * D + W * D = x2 * D
    BY <1>1
  <2>4. x1 * D \in Int /\ x2 * D \in Int /\ W * D \in Int /\ W * (r * V - y1) \in Int
    BY <1>1, <1>2, <1>3
  <2> QED
    BY <2>1, <2>2, <2>3, <2>4
<1>6. c = N \div K
    BY DEF ColumnAt, Advance
<1>7. c \in Int /\ c * K <= N /\ N < c * K + K
  <2> HIDE DEF c, N, K
  <2> QED
    BY <1>3, <1>4, <1>6, DivFacts
<1>8. /\ c * K = D * (c * Unit) /\ c * K + K = D * ((c + 1) * Unit)
      /\ c * Unit \in Int /\ (c + 1) * Unit \in Int
  <2> HIDE DEF c, D
  <2>1. c * K = D * (c * Unit)
    BY <1>1, <1>3, <1>7
  <2>2. c * K + K = D * ((c + 1) * Unit)
    BY <1>1, <1>3, <1>7
  <2>3. c * Unit \in Int /\ (c + 1) * Unit \in Int
    BY <1>1, <1>7
  <2> QED
    BY <2>1, <2>2, <2>3
<1>9. D * (c * Unit) <= N /\ N < D * ((c + 1) * Unit)
  <2> HIDE DEF c, D, N, K
  <2> QED
    BY <1>7, <1>8
<1>10. /\ c * Unit <= x2 /\ x1 < (c + 1) * Unit
  <2> HIDE DEF c, D, N, K
  <2>1. (c * Unit) * D <= x2 * D
    <3>1. (c * Unit) * D = D * (c * Unit) /\ (c * Unit) * D \in Int
      BY <1>3, <1>8
    <3> QED
      BY <1>4, <1>5, <1>9, <3>1
  <2>2. x1 * D < ((c + 1) * Unit) * D
    <3>1. ((c + 1) * Unit) * D = D * ((c + 1) * Unit) /\ ((c + 1) * Unit) * D \in Int
      BY <1>3, <1>8
    <3> QED
      BY <1>4, <1>5, <1>9, <3>1
  <2> QED
    BY <1>1, <1>3, <1>8, <2>1, <2>2, Factor
<1>11. c \in (x1 \div Unit) .. (x2 \div Unit)
  <2> HIDE DEF c
  <2>1. x1 \div Unit <= c
    BY <1>7, <1>10, ColumnsPassed
  <2>2. c <= x2 \div Unit
    BY <1>7, <1>10, ColumnsPassed
  <2> QED
    BY <1>1, <1>7, <2>1, <2>2
<1>12. /\ west \in Int /\ east \in Int /\ west \in {x1, c * Unit}
       /\ east \in {x2, (c + 1) * Unit}
  <2> HIDE DEF c
  <2> QED
    BY <1>7, EndsInColumn
<1>13. D * west <= N /\ N <= D * east /\ D * west \in Int /\ D * east \in Int
  <2> HIDE DEF c, D, N, K, west, east
  <2>1. x1 * D = D * x1 /\ x2 * D = D * x2
    BY <1>1, <1>3
  <2>2. D * west <= N
    BY <1>5, <1>9, <1>12, <2>1
  <2>3. D * ((c + 1) * Unit) \in Int
    BY <1>3, <1>8
  <2>4. N <= D * east
    BY <1>4, <1>5, <1>9, <1>12, <2>1, <2>3
  <2> QED
    BY <1>3, <1>12, <2>2, <2>4
<1>14. h1 <= r * high /\ r * high <= h2 /\ h1 \in Int /\ h2 \in Int
  <2> HIDE DEF west, east
  <2>1. \A x \in Int : Height(x1, y1, x2, y2, x) = y1 * W + D * (x - x1)
    BY <1>1 DEF Height
  <2> HIDE DEF high, N, W, D
  <2>2. h1 = y1 * W + D * (west - x1) /\ h2 = y1 * W + D * (east - x1)
    BY <1>12, <2>1
  <2>3. D * (west - x1) = D * west - x1 * D /\ D * (east - x1) = D * east - x1 * D
    BY <1>1, <1>3, <1>12
  <2>4. x1 * D \in Int /\ y1 * W \in Int
    BY <1>1, <1>3
  <2> HIDE DEF h1, h2
  <2> QED
    BY <1>4, <1>13, <2>2, <2>3, <2>4
<1>15. PartTouches(x1, y1, x2, y2, d, c, r)
  <2> HIDE DEF c
  <2>0. /\ North(r) * high <= r * high /\ r * high <= South(r) * high
        /\ North(r) * high \in Int /\ South(r) * high \in Int
    <3> HIDE DEF high
    <3> QED
      BY <1>1, NorthSouth
  <2>1. h1 <= South(r) * high
    <3> HIDE DEF high, h1
    <3> QED
      BY <1>4, <1>14, <2>0
  <2>2. h2 >= North(r) * high
    <3> HIDE DEF high, h2
    <3> QED
      BY <1>4, <1>14, <2>0
  <2>3. x1 <= (c + 1) * Unit /\ x2 >= c * Unit
    BY <1>1, <1>8, <1>10
  <2> QED
    BY <1>1, <2>1, <2>2, <2>3 DEF PartTouches
<1> QED
    BY <1>11, <1>15

\* Tiles in the column of both ends, between their rows, are touched.
LEMMA ColumnTouched ==
    ASSUME NEW x1, NEW y1, NEW x2, NEW y2, NEW d, IsWalk(x1, y1, x2, y2, d),
           x1 \div Unit = x2 \div Unit, NEW r \in Int,
           y1 <= South(r) * (Unit * d) \/ y2 <= South(r) * (Unit * d),
           y1 >= North(r) * (Unit * d) \/ y2 >= North(r) * (Unit * d)
    PROVE  PartTouches(x1, y1, x2, y2, d, x1 \div Unit, r)
<1> DEFINE V == Unit * d
           W == x2 - x1
           high == V * W
           c == x1 \div Unit
           h1 == Height(x1, y1, x2, y2, WestIn(x1, c))
           h2 == Height(x1, y1, x2, y2, EastIn(x2, c))
<1>1. /\ x1 \in Int /\ x2 \in Int /\ y1 \in Int /\ y2 \in Int /\ V \in Nat \ {0}
      /\ Unit \in Nat \ {0} /\ x1 <= x2 /\ c \in Int
    BY WalkInts DEF IsWalk
<1>2. /\ c * Unit <= x1 /\ x2 < (c + 1) * Unit
      /\ c * Unit \in Int /\ (c + 1) * Unit \in Int
  <2>1. c * Unit <= x1
    BY <1>1, DivFacts
  <2>2. x2 < ((x2 \div Unit) + 1) * Unit
    BY <1>1, DivAtMost
  <2> QED
    BY <1>1, <2>1, <2>2
<1>3. x1 <= (c + 1) * Unit /\ x2 >= c * Unit
    BY <1>1, <1>2
<1>0. North(r) \in Int /\ South(r) \in Int
    BY DEF North, South
<1>4. North(r) * V \in Int /\ South(r) * V \in Int
    BY <1>0, <1>1
<1>5. CASE x1 = x2
  <2> HIDE DEF V, c
  <2>1. y1 <= South(r) * V \/ y2 <= South(r) * V
    BY DEF V
  <2>2. y1 >= North(r) * V \/ y2 >= North(r) * V
    BY DEF V
  <2> QED
    BY <1>3, <1>5, <2>1, <2>2 DEF PartTouches, V, c
<1>6. CASE x1 # x2
  <2>1. WestIn(x1, c) = x1 /\ EastIn(x2, c) = x2
    BY <1>1, <1>2 DEF WestIn, EastIn, Greatest, Least
  <2>2. h1 = y1 * W /\ h2 = y2 * W
    <3> HIDE DEF c
    <3> QED
      BY <1>1, <2>1 DEF Height
  <2>3. W \in Nat \ {0}
    BY <1>1, <1>6
  <2> DEFINE n == North(r)
             s == South(r)
  <2> HIDE DEF n, s
  <2>0. n \in Int /\ s \in Int /\ n * V \in Int /\ s * V \in Int
    BY <1>0, <1>4 DEF n, s
  <2>4. s * high = (s * V) * W /\ n * high = (n * V) * W
    BY <1>1, <2>0, <2>3
  <2>5. y1 <= s * V \/ y2 <= s * V
    BY DEF s
  <2>6. y1 >= n * V \/ y2 >= n * V
    BY DEF n
  <2> HIDE DEF V, W, high, c, h1, h2
  <2>7. y1 * W <= (s * V) * W \/ y2 * W <= (s * V) * W
    BY <1>1, <2>0, <2>3, <2>5, Factor
  <2>8. (n * V) * W <= y1 * W \/ (n * V) * W <= y2 * W
    BY <1>1, <2>0, <2>3, <2>6, Factor
  <2>9. y1 * W \in Int /\ y2 * W \in Int /\ (n * V) * W \in Int /\ (s * V) * W \in Int
    BY <1>1, <2>0, <2>3
  <2>10. h1 <= South(r) * high \/ h2 <= South(r) * high
    BY <2>2, <2>4, <2>7, <2>9 DEF s
  <2>11. h1 >= North(r) * high \/ h2 >= North(r) * high
    BY <2>2, <2>4, <2>8, <2>9 DEF n
  <2> QED
    BY <1>3, <1>6, <2>10, <2>11 DEF PartTouches, V, W, high, c, h1, h2
<1> QED
    BY <1>5, <1>6

\* The tile in which the line begins is touched.
LEMMA StartTouched ==
    ASSUME NEW x1, NEW y1, NEW x2, NEW y2, NEW d, IsWalk(x1, y1, x2, y2, d),
           x1 \div Unit # x2 \div Unit
    PROVE  PartTouches(x1, y1, x2, y2, d, x1 \div Unit, Trunc(y1, Unit * d))
<1> DEFINE V == Unit * d
           W == x2 - x1
           high == V * W
           c == x1 \div Unit
           r == Trunc(y1, V)
           h1 == Height(x1, y1, x2, y2, WestIn(x1, c))
<1>1. /\ x1 \in Int /\ x2 \in Int /\ y1 \in Int /\ y2 \in Int /\ V \in Nat \ {0}
      /\ Unit \in Nat \ {0} /\ x1 < x2 /\ c \in Int /\ W \in Nat \ {0}
    BY WalkInts DEF IsWalk
<1>2. /\ c * Unit <= x1 /\ x1 < (c + 1) * Unit
      /\ c * Unit \in Int /\ (c + 1) * Unit \in Int
  <2>1. c * Unit <= x1
    BY <1>1, DivFacts
  <2>2. x1 < (c + 1) * Unit
    BY <1>1, DivAtMost
  <2> QED
    BY <1>1, <2>1, <2>2
<1> DEFINE n == North(r)
           s == South(r)
<1>3. /\ n * V <= y1 /\ y1 <= s * V /\ n * V \in Int /\ s * V \in Int
      /\ n \in Int /\ s \in Int
  <2> HIDE DEF V
  <2>1. r \in Int /\ n * V <= y1 /\ y1 <= s * V
    BY <1>1, TruncFacts
  <2> HIDE DEF r
  <2> QED
    BY <1>1, <2>1, NorthSouth
<1>4. WestIn(x1, c) = x1
    BY <1>1, <1>2 DEF WestIn, Greatest
<1>5. h1 = y1 * W
  <2> HIDE DEF c
  <2> QED
    BY <1>1, <1>4 DEF Height
<1>6. s * high = (s * V) * W /\ n * high = (n * V) * W
  <2> HIDE DEF V, W, r, n, s
  <2>1. n * (V * W) = (n * V) * W
    BY <1>1, <1>3
  <2>2. s * (V * W) = (s * V) * W
    BY <1>1, <1>3
  <2> QED
    BY <2>1, <2>2
<1>7. x1 <= (c + 1) * Unit /\ x2 >= c * Unit
    BY <1>1, <1>2
<1> HIDE DEF V, W, high, c, r, h1, n, s
<1>8. (n * V) * W <= y1 * W /\ y1 * W <= (s * V) * W
    BY <1>1, <1>3, Factor
<1>9. y1 * W \in Int /\ (n * V) * W \in Int /\ (s * V) * W \in Int
    BY <1>1, <1>3
<1>10. h1 <= s * high /\ h1 >= n * high
    BY <1>5, <1>6, <1>8, <1>9
<1> QED
    BY <1>1, <1>7, <1>10 DEF PartTouches, V, W, high, c, r, h1, n, s

\* The walk never leaves the line but north of the map.
LEMMA WalkTouches ==
    ASSUME NEW x1, NEW y1, NEW x2, NEW y2, NEW d, IsWalk(x1, y1, x2, y2, d),
           options \in Options, x2 <= World,
           NEW t \in expire_line_segment(x1, y1, x2, y2, d)
    PROVE  \E c, r \in Int :
                /\ t = <<c, r>>
                /\ \/ /\ c \in (x1 \div Unit) .. (x2 \div Unit)
                      /\ PartTouches(x1, y1, x2, y2, d, c, r)
                   \/ PartStray(y1, y2, d, r)
<1> DEFINE E == expire_line_segment(x1, y1, x2, y2, d)
           V == Unit * d
           Goal == \E c, r \in Int :
                      /\ t = <<c, r>>
                      /\ \/ /\ c \in (x1 \div Unit) .. (x2 \div Unit)
                            /\ PartTouches(x1, y1, x2, y2, d, c, r)
                         \/ PartStray(y1, y2, d, r)
<1> SUFFICES Goal
    OBVIOUS
<1>1. /\ x1 \div Unit \in Int /\ x2 \div Unit \in Int /\ x1 \div Unit <= x2 \div Unit
      /\ y1 \in Int /\ y2 \in Int /\ V \in Nat \ {0}
    BY WalkInts DEF IsWalk
<1>2. ASSUME NEW c \in (x1 \div Unit) .. (x2 \div Unit), NEW r \in Int, t = <<c, r>>,
             PartTouches(x1, y1, x2, y2, d, c, r)
      PROVE  Goal
  <2>1. c \in Int
    BY <1>1
  <2> QED
    BY <1>2, <2>1
<1> HIDE DEF Goal
<1>3. CASE x1 \div Unit = x2 \div Unit
  <2>1. ~(x1 = x2 /\ y1 = y2)
    BY DEF expire_line_segment
  <2>2. E = {x1 \div Unit} \X RowsFrom(Least(y1, y2), Greatest(y1, y2), V)
    BY <1>3, <2>1, StayingInColumn
  <2>3. PICK r \in RowsFrom(Least(y1, y2), Greatest(y1, y2), V) : t = <<x1 \div Unit, r>>
    BY <2>2
  <2>4. /\ r \in Int
        /\ y1 <= South(r) * V \/ y2 <= South(r) * V
        /\ y1 >= North(r) * V \/ y2 >= North(r) * V
    <3> HIDE DEF V
    <3> QED
      BY <1>1, RowsVisited
  <2>5. PartTouches(x1, y1, x2, y2, d, x1 \div Unit, r)
    BY <1>3, <2>4, ColumnTouched
  <2>6. x1 \div Unit \in (x1 \div Unit) .. (x2 \div Unit)
    BY <1>1
  <2> QED
    BY <1>2, <2>3, <2>4, <2>5, <2>6
<1>4. CASE x1 \div Unit # x2 \div Unit
  <2>1. E = {<<x1 \div Unit, Trunc(y1, V)>>}
            \cup {<<k, RowAt(x1, y1, x2, y2, d, k)>> : k \in (x1 \div Unit) + 1 .. (x2 \div Unit)}
            \cup {<<ColumnCut(x1, y1, x2, y2, d, k), k>> :
                        k \in Trunc(y1 + V, V) .. Trunc(y2, V)}
    BY <1>4, CrossingColumns
  <2>2. CASE t = <<x1 \div Unit, Trunc(y1, V)>>
    <3>1. PartTouches(x1, y1, x2, y2, d, x1 \div Unit, Trunc(y1, V))
      BY <1>4, StartTouched
    <3>2. Trunc(y1, V) \in Int
      <4> HIDE DEF V
      <4> QED
        BY <1>1, TruncFacts
    <3>3. x1 \div Unit \in (x1 \div Unit) .. (x2 \div Unit)
      BY <1>1
    <3> QED
      BY <1>2, <2>2, <3>1, <3>2, <3>3
  <2>3. ASSUME NEW k \in (x1 \div Unit) + 1 .. (x2 \div Unit),
               t = <<k, RowAt(x1, y1, x2, y2, d, k)>>
        PROVE  Goal
    <3>1. k \in (x1 \div Unit) .. (x2 \div Unit)
      BY <1>1
    <3>2. /\ RowAt(x1, y1, x2, y2, d, k) \in Int
          /\ PartTouches(x1, y1, x2, y2, d, k, RowAt(x1, y1, x2, y2, d, k))
      BY <1>4, ColumnsTouched
    <3> QED
      BY <1>2, <2>3, <3>1, <3>2
  <2>4. ASSUME NEW k \in Trunc(y1 + V, V) .. Trunc(y2, V),
               t = <<ColumnCut(x1, y1, x2, y2, d, k), k>>
        PROVE  Goal
    <3>1. /\ k \in Int /\ y1 < k * V
          /\ y1 <= South(k) * V /\ North(k) * V <= y2
          /\ y2 < k * V => y2 < 0 /\ k <= 0
      <4> HIDE DEF V
      <4> QED
        BY <1>1, RowsEntered
    <3>2. k * V \in Int
      <4> HIDE DEF V
      <4> QED
        BY <1>1, <3>1
    <3>3. CASE k * V <= y2
      <4>1. /\ ColumnAt(x1, y1, x2, y2, d, k) \in (x1 \div Unit) .. (x2 \div Unit)
            /\ PartTouches(x1, y1, x2, y2, d, ColumnAt(x1, y1, x2, y2, d, k), k)
        BY <1>4, <3>1, <3>3, RowsTouched
      <4>2. ColumnCut(x1, y1, x2, y2, d, k) = ColumnAt(x1, y1, x2, y2, d, k)
        <5> DEFINE n == Advance(x1, y1, x2, y2, d, k)
                   j == Unit * (y2 - y1)
        <5>1. y1 < y2 /\ y1 <= k * (Unit * d)
          BY <1>1, <3>1, <3>2, <3>3
        <5>2. n \in Nat /\ j \in Nat \ {0}
          BY <3>1, <5>1, AdvanceFacts
        <5>3. n \div j = ColumnAt(x1, y1, x2, y2, d, k)
          BY DEF ColumnAt
        <5>4. x2 \div Unit <= MapWidth /\ MapWidth \in Nat
          <6>1. /\ MapWidth \in Nat /\ Unit \in Nat \ {0} /\ World = MapWidth * Unit
                /\ World \in Nat /\ x2 \in Int
            BY MapFacts, WalkInts
          <6>2. x2 < (MapWidth + 1) * Unit
            BY <6>1
          <6> QED
            BY <6>1, <6>2, DivAtMost
        <5> HIDE DEF n, j
        <5>5. n \div j <= MapWidth
          BY <1>1, <4>1, <5>3, <5>4
        <5>6. ToInt(n, j) = n \div j
          BY <5>2, <5>5, ColumnFits
        <5> QED
          BY <5>3, <5>6 DEF n, j, ColumnCut
      <4> QED
        BY <1>2, <2>4, <3>1, <4>1, <4>2
    <3>4. CASE y2 < k * V
      <4>1. PartStray(y1, y2, d, k)
        BY <3>1, <3>4 DEF PartStray
      <4>2. ColumnCut(x1, y1, x2, y2, d, k) \in Int
        <5> DEFINE n == Advance(x1, y1, x2, y2, d, k)
                   j == Unit * (y2 - y1)
        <5>1. n \in Int /\ j \in Int
          <6>1. /\ x1 \in Int /\ x2 \in Int /\ Unit \in Nat \ {0}
            BY WalkInts DEF IsWalk
          <6> HIDE DEF V
          <6> QED
            BY <1>1, <3>2, <6>1 DEF Advance, V
        <5> HIDE DEF n, j
        <5>2. ToInt(n, j) \in Int
          BY <5>1, ToIntIsInt
        <5> QED
          BY <5>2 DEF n, j, ColumnCut
      <4> QED
        BY <2>4, <3>1, <4>1, <4>2 DEF Goal
    <3> QED
      BY <1>1, <3>2, <3>3, <3>4
  <2>5. \/ t = <<x1 \div Unit, Trunc(y1, V)>>
        \/ \E k \in (x1 \div Unit) + 1 .. (x2 \div Unit) : t = <<k, RowAt(x1, y1, x2, y2, d, k)>>
        \/ \E k \in Trunc(y1 + V, V) .. Trunc(y2, V) : t = <<ColumnCut(x1, y1, x2, y2, d, k), k>>
    BY <2>1
  <2> QED
    BY <2>2, <2>3, <2>4, <2>5
<1> QED
    BY <1>3, <1>4

\* Between both ends a line has heights between theirs.
LEMMA HeightBetween ==
    ASSUME NEW x1 \in Int, NEW y1 \in Int, NEW x2 \in Int, NEW y2 \in Int,
           NEW x \in x1 .. x2, NEW low \in Int, NEW high \in Int,
           low <= y1, low <= y2, y1 <= high, y2 <= high
    PROVE  /\ Height(x1, y1, x2, y2, x) \in Int
           /\ low * (x2 - x1) <= Height(x1, y1, x2, y2, x)
           /\ Height(x1, y1, x2, y2, x) <= high * (x2 - x1)
<1> DEFINE a == x2 - x
           b == x - x1
<1>1. a \in Nat /\ b \in Nat /\ x2 - x1 = a + b
    OBVIOUS
<1>2. Height(x1, y1, x2, y2, x) = y1 * a + y2 * b
    BY DEF Height
<1> HIDE DEF a, b
<1>3. ASSUME NEW m \in Int, NEW n \in Int, NEW k \in Nat, m <= n PROVE m * k <= n * k
  <2>1. CASE k = 0
    BY <2>1
  <2>2. CASE k # 0
    BY <1>3, <2>2, Factor
  <2> QED
    BY <2>1, <2>2
<1>4. low * a <= y1 * a /\ low * b <= y2 * b /\ y1 * a <= high * a /\ y2 * b <= high * b
    BY <1>1, <1>3
<1>5. low * (a + b) = low * a + low * b /\ high * (a + b) = high * a + high * b
    BY <1>1
<1>6. /\ low * a \in Int /\ low * b \in Int /\ high * a \in Int /\ high * b \in Int
      /\ y1 * a \in Int /\ y2 * b \in Int
    BY <1>1
<1> QED
    BY <1>1, <1>2, <1>4, <1>5, <1>6

\* The rows a line touches are between the rows of its ends.
LEMMA TouchedBetween ==
    ASSUME NEW x1 \in Int, NEW y1 \in Int, NEW x2 \in Int, NEW y2 \in Int, x1 <= x2,
           Unit \in Nat \ {0}, NEW c \in Int, NEW r \in Int,
           PartTouches(x1, y1, x2, y2, 1, c, r), NEW low \in Int, NEW high \in Int,
           low <= y1, low <= y2, y1 <= high, y2 <= high
    PROVE  low <= South(r) * Unit /\ North(r) * Unit <= high
<1> DEFINE n == North(r)
           s == South(r)
           W == x2 - x1
           V == Unit * 1
           west == WestIn(x1, c)
           east == EastIn(x2, c)
<1>1. n \in Int /\ s \in Int /\ V = Unit
    BY DEF North, South
<1>2. n * Unit \in Int /\ s * Unit \in Int
    BY <1>1
<1>3. CASE x1 = x2
  <2>1. /\ y1 <= s * V \/ y2 <= s * V
        /\ y1 >= n * V \/ y2 >= n * V
    BY <1>3 DEF PartTouches
  <2> HIDE DEF n, s, V
  <2> QED
    BY <1>1, <1>2, <2>1 DEF n, s
<1>4. CASE x1 # x2
  <2>1. /\ x1 <= (c + 1) * Unit /\ x2 >= c * Unit
        /\ \E x \in {west, east} : Height(x1, y1, x2, y2, x) <= s * (V * W)
        /\ \E x \in {west, east} : Height(x1, y1, x2, y2, x) >= n * (V * W)
    BY <1>4 DEF PartTouches
  <2>2. west \in x1 .. x2 /\ east \in x1 .. x2
    <3>1. c * Unit \in Int /\ (c + 1) * Unit \in Int
      OBVIOUS
    <3> QED
      BY <2>1, <3>1 DEF WestIn, EastIn, Greatest, Least
  <2>3. W \in Nat \ {0}
    BY <1>4
  <2>4. \A x \in {west, east} :
            /\ Height(x1, y1, x2, y2, x) \in Int
            /\ low * W <= Height(x1, y1, x2, y2, x)
            /\ Height(x1, y1, x2, y2, x) <= high * W
    BY <2>2, HeightBetween
  <2> HIDE DEF n, s, V, W, west, east
  <2>5. s * (V * W) = (s * Unit) * W /\ n * (V * W) = (n * Unit) * W
    BY <1>1, <2>3
  <2>6. low * W \in Int /\ high * W \in Int /\ (s * Unit) * W \in Int /\ (n * Unit) * W \in Int
    BY <1>1, <1>2, <2>3
  <2>7. low * W <= (s * Unit) * W /\ (n * Unit) * W <= high * W
    BY <2>1, <2>4, <2>5, <2>6
  <2>8. low <= s * Unit /\ n * Unit <= high
    BY <1>2, <2>3, <2>7, Factor
  <2> QED
    BY <2>8 DEF n, s
<1> QED
    BY <1>3, <1>4

\* Rows between the limits of latitude.
LEMMA RowInRows ==
    ASSUME options \in Options, NEW r \in Int,
           -Beyond <= South(r) * Unit, North(r) * Unit <= World + Beyond
    PROVE  r \in Rows
<1> DEFINE q == Beyond \div Unit
<1>1. /\ Unit \in Nat \ {0} /\ MapWidth \in Nat \ {0} /\ World = MapWidth * Unit
      /\ World \in Nat /\ Beyond \in Nat
    BY MapFacts, WorldAssumption
<1>2. q \in Int /\ q >= 0 /\ Beyond < (q + 1) * Unit
  <2>1. q \in Int /\ Beyond < (q + 1) * Unit
    BY <1>1, DivFacts, DivAtMost
  <2>2. 0 * Unit <= Beyond
    BY <1>1
  <2> QED
    BY <1>1, <2>1, <2>2, DivAtMost
<1> HIDE DEF q
<1>3. -q <= r
  <2> SUFFICES ASSUME r < -q PROVE FALSE
    BY <1>2
  <2>1. South(r) = r /\ r <= -(q + 1)
    BY <1>2 DEF South
  <2>2. -(q + 1) \in Int /\ (-(q + 1)) * Unit = -((q + 1) * Unit)
    BY <1>1, <1>2
  <2>3. r * Unit <= (-(q + 1)) * Unit
    BY <1>1, <2>1, <2>2, Factor
  <2>4. r * Unit \in Int /\ (q + 1) * Unit \in Int
    BY <1>1, <1>2
  <2> QED
    BY <1>1, <1>2, <2>1, <2>2, <2>3, <2>4
<1>4. r <= MapWidth + q
  <2> SUFFICES ASSUME r > MapWidth + q PROVE FALSE
    BY <1>1, <1>2
  <2>1. North(r) = r /\ MapWidth + (q + 1) <= r
    BY <1>1, <1>2 DEF North
  <2>2. MapWidth + (q + 1) \in Int
        /\ (MapWidth + (q + 1)) * Unit = MapWidth * Unit + (q + 1) * Unit
    BY <1>1, <1>2
  <2>3. (MapWidth + (q + 1)) * Unit <= r * Unit
    BY <1>1, <2>1, <2>2, Factor
  <2>4. r * Unit \in Int /\ (q + 1) * Unit \in Int
    BY <1>1, <1>2
  <2> QED
    BY <1>1, <1>2, <2>1, <2>2, <2>3, <2>4
<1> QED
    BY <1>1, <1>2, <1>3, <1>4 DEF Rows, q

-----------------------------------------------------------------------------
(* Ids of tiles.                                                            *)

\* Ids are sums over the bits of both numbers: tiles with the same bits have the
\* same id.
Item(x, y, z) == (Bit(x, z) + 2 * Bit(y, z)) * TwoTo[2 * z]
Chosen(s) == CHOOSE z \in s : TRUE
Sums(x, y, S, h) ==
    h = [s \in SUBSET S |-> IF s = {} THEN 0 ELSE Item(x, y, Chosen(s)) + h[s \ {Chosen(s)}]]

\* Ids are sums over the bits of both numbers.
LEMMA IdIsSum ==
    ASSUME NEW x, NEW y, NEW zoom
    PROVE  xy_to_quadtree(x, y, zoom)
             = Signed((CHOOSE h : Sums(x, y, 0 .. zoom - 1, h))[0 .. zoom - 1])
BY DEF xy_to_quadtree, MapThenSumSet, MapThenFoldSet, Sums, Item, Chosen

\* Numbers with the same low bits have the same id.
LEMMA SameBits ==
    ASSUME NEW x1, NEW x2, NEW y1, NEW y2, NEW zoom,
           \A z \in 0 .. zoom - 1 : Bit(x1, z) = Bit(x2, z) /\ Bit(y1, z) = Bit(y2, z)
    PROVE  xy_to_quadtree(x1, y1, zoom) = xy_to_quadtree(x2, y2, zoom)
<1> DEFINE S == 0 .. zoom - 1
<1>1. ASSUME NEW s \in SUBSET S, s # {} PROVE Item(x1, y1, Chosen(s)) = Item(x2, y2, Chosen(s))
  <2>1. Chosen(s) \in S
    BY <1>1 DEF Chosen
  <2> QED
    BY <2>1 DEF Item
<1> HIDE DEF S
<1>2. \A h : Sums(x1, y1, S, h) = Sums(x2, y2, S, h)
    BY <1>1 DEF Sums
<1>3. (CHOOSE h : Sums(x1, y1, S, h)) = (CHOOSE h : Sums(x2, y2, S, h))
    BY <1>2
<1> QED
    BY <1>3, IdIsSum DEF S

\* The id of a tile of the highest zoom level.
Id(c, r) == xy_to_quadtree(c, r, Zoom)

\* The low bits of a number are those of its remainder.
LEMMA RemainderBits ==
    ASSUME options \in Options, NEW n \in Int, NEW z \in 0 .. Zoom - 1
    PROVE  Bit(n % MapWidth, z) = Bit(n, z)
<1> DEFINE q == n \div MapWidth
           m == n % MapWidth
           T == TwoTo[z]
           k == TwoTo[(Zoom - z) - 1]
           p == m \div T
           j == q * k
<1>1. MapWidth \in Nat \ {0} /\ Zoom \in Nat
    BY MapFacts
<1>2. z \in Nat /\ Zoom - z \in Nat \ {0} /\ (Zoom - z) - 1 \in Nat /\ z + (Zoom - z) = Zoom
    BY <1>1
<1>3. T \in Nat \ {0} /\ k \in Nat
    BY <1>2, TwoToPositive
<1>4. MapWidth = T * (2 * k)
  <2>1. TwoTo[Zoom - z] = 2 * k
    BY <1>2, TwoToIs
  <2>2. TwoTo[z + (Zoom - z)] = TwoTo[z] * TwoTo[Zoom - z]
    BY <1>2, TwoToSum
  <2> QED
    BY <1>2, <2>1, <2>2 DEF MapWidth
<1>5. q \in Int /\ m \in Nat /\ n = q * MapWidth + m
    BY <1>1
<1> HIDE DEF q, m, T, k
<1>6. p \in Int /\ p * T <= m /\ m < p * T + T
    BY <1>3, <1>5, DivFacts
<1>7. j \in Int
    BY <1>3, <1>5
<1> HIDE DEF p
<1>8. q * MapWidth = (2 * j) * T
    BY <1>3, <1>4, <1>5
<1> HIDE DEF j
<1>9. (2 * j + p) * T = (2 * j) * T + p * T /\ (2 * j) * T \in Int /\ p * T \in Int
    BY <1>3, <1>6, <1>7
<1>10. n \div T = 2 * j + p
  <2>1. 2 * j + p \in Int
    BY <1>6, <1>7
  <2>2. (2 * j + p) * T <= n /\ n < (2 * j + p) * T + T
    BY <1>3, <1>5, <1>6, <1>8, <1>9
  <2> QED
    BY <1>3, <2>1, <2>2, DivIs
<1>11. (2 * j + p) % 2 = p % 2
    BY <1>6, <1>7
<1> QED
    BY <1>10, <1>11 DEF Bit, p, m, T

\* Ids know rows and columns that are not on the map by their remainders.
LEMMA RemainderId ==
    ASSUME options \in Options, NEW c \in Int, NEW r \in Int
    PROVE  Id(c, r) = Id(c % MapWidth, r) /\ Id(c, r) = Id(c, r % MapWidth)
<1>1. \A n \in Int : \A z \in 0 .. Zoom - 1 : Bit(n, z) = Bit(n % MapWidth, z)
    BY RemainderBits
<1>2. \A z \in 0 .. Zoom - 1 :
        Bit(c, z) = Bit(c % MapWidth, z) /\ Bit(r, z) = Bit(r % MapWidth, z)
    BY <1>1
<1> HIDE DEF Zoom, MapWidth
<1>3. Id(c, r) = Id(c % MapWidth, r)
    BY <1>2, SameBits DEF Id
<1>4. Id(c, r) = Id(c, r % MapWidth)
    BY <1>2, SameBits DEF Id
<1> QED
    BY <1>3, <1>4

\* Column numbers that are not on the map: to the west of it there is its east,
\* and the column behind the last one has the id of the first.
LEMMA AroundFacts ==
    ASSUME options \in Options, NEW c \in -MapWidth .. MapWidth, NEW r
    PROVE  /\ Around(c) \in 0 .. MapWidth - 1
           /\ c >= 0 /\ c < MapWidth => Around(c) = c
           /\ c < 0 => Around(c) = c + MapWidth
           /\ c >= 0 => Id(c, r) = Id(Around(c), r)
<1>1. MapWidth \in Nat \ {0} /\ Zoom \in Nat
    BY MapFacts
<1>2. MapWidth = TwoTo[Zoom]
    BY DEF MapWidth
<1> HIDE DEF MapWidth, Zoom
<1>3. c >= 0 /\ c < MapWidth => Around(c) = c
    BY <1>1 DEF Around
<1>4. c < 0 => Around(c) = c + MapWidth
    BY <1>1 DEF Around
<1>5. c = MapWidth => Around(c) = 0
    BY <1>1 DEF Around
<1>6. Around(c) \in 0 .. MapWidth - 1
    BY <1>1, <1>3, <1>4, <1>5
<1>7. Id(MapWidth, r) = Id(0, r)
  <2>1. ASSUME NEW z \in 0 .. Zoom - 1
        PROVE  Bit(MapWidth, z) = Bit(0, z) /\ Bit(r, z) = Bit(r, z)
    <3>1. z \in Nat /\ z < Zoom
      BY <1>1
    <3>2. Bit(MapWidth, z) = 0
      BY <1>1, <1>2, <3>1, LowBits
    <3>3. TwoTo[z] \in Nat \ {0}
      BY <3>1, TwoToPositive
    <3>4. 0 \div TwoTo[z] = 0
      BY <3>3
    <3> QED
      BY <3>2, <3>4 DEF Bit
  <2> QED
    BY <2>1, SameBits DEF Id
<1>8. c >= 0 => Id(c, r) = Id(Around(c), r)
    BY <1>1, <1>3, <1>5, <1>7
<1> QED
    BY <1>3, <1>4, <1>6, <1>8
-----------------------------------------------------------------------------
(* A segment as one walk.                                                   *)

\* Passing a tile, said of a walk with whole rows.
LEMMA PassesAsPart ==
    ASSUME NEW a1 \in Int, NEW a2 \in Int, NEW b1 \in Int, NEW b2 \in Int,
           NEW c \in Int, NEW r \in Int, Unit \in Nat \ {0},
           Passes(<<<<a1, a2>>, <<b1, b2>>>>, c, r)
    PROVE  PartPasses(a1, a2, b1, b2, 1, c, r)
<1> DEFINE west == Greatest(a1, c * Unit)
           east == Least(b1, (c + 1) * Unit)
           h1 == Height(a1, a2, b1, b2, west)
           h2 == Height(a1, a2, b1, b2, east)
           width == b1 - a1
           high == (Unit * 1) * width
<1>1. /\ c * Unit \in Int /\ (c + 1) * Unit \in Int
      /\ west \in Int /\ east \in Int
  <2>1. c * Unit \in Int /\ (c + 1) * Unit \in Int
    OBVIOUS
  <2> QED
    BY <2>1 DEF Greatest, Least
<1>2. h1 \in Int /\ h2 \in Int
  <2> HIDE DEF west, east
  <2>1. \A x \in Int : Height(a1, a2, b1, b2, x) \in Int
    BY DEF Height
  <2> QED
    BY <1>1, <2>1
<1>3. (r + 1) * Unit = (r + 1) * (Unit * 1) /\ r * Unit = r * (Unit * 1)
    OBVIOUS
<1>4. CASE width = 0
  <2>1. /\ a1 \div Unit = c /\ a2 # b2 /\ a1 = b1
        /\ Least(a2, b2) < (r + 1) * Unit /\ Greatest(a2, b2) >= r * Unit
    BY <1>4 DEF Passes
  <2> QED
    BY <1>3, <2>1 DEF PartPasses, Least, Greatest
<1>5. CASE width # 0
  <2>1. RowsIn(<<<<a1, a2>>, <<b1, b2>>>>, c) = <<Least(h1, h2), Greatest(h1, h2)>>
    BY DEF RowsIn, Height
  <2>2. /\ a1 < (c + 1) * Unit /\ b1 > c * Unit
        /\ Least(h1, h2) < (r + 1) * Unit * width
        /\ \/ Greatest(h1, h2) > r * Unit * width
           \/ Least(h1, h2) = Greatest(h1, h2) /\ Least(h1, h2) = r * Unit * width
    <3> HIDE DEF h1, h2
    <3> QED
      BY <1>5, <2>1 DEF Passes
  <2>3. (r + 1) * Unit * width = (r + 1) * high /\ r * Unit * width = r * high
    <3> HIDE DEF width
    <3>1. width \in Int
      BY DEF width
    <3>2. (r + 1) * Unit * width = (r + 1) * ((Unit * 1) * width)
      BY <3>1
    <3>3. r * Unit * width = r * ((Unit * 1) * width)
      BY <3>1
    <3> QED
      BY <3>2, <3>3
  <2>4. r * high \in Int /\ (r + 1) * high \in Int
    OBVIOUS
  <2> HIDE DEF h1, h2, high
  <2>5. /\ h1 < (r + 1) * high \/ h2 < (r + 1) * high
        /\ h1 > r * high \/ h2 > r * high \/ (h1 = r * high /\ h2 = r * high)
    BY <1>2, <2>2, <2>3, <2>4 DEF Least, Greatest
  <2>6. a1 # b1
    BY <1>5
  <2> QED
    BY <2>2, <2>5, <2>6 DEF PartPasses, WestIn, EastIn, h1, h2, high
<1> QED
    BY <1>4, <1>5

\* The same of touching it,
LEMMA TouchesAsPart ==
    ASSUME NEW a1 \in Int, NEW a2 \in Int, NEW b1 \in Int, NEW b2 \in Int,
           NEW c \in Int, NEW r \in Int, Unit \in Nat \ {0},
           PartTouches(a1, a2, b1, b2, 1, c, r)
    PROVE  Touches(<<<<a1, a2>>, <<b1, b2>>>>, c, r)
<1> DEFINE west == Greatest(a1, c * Unit)
           east == Least(b1, (c + 1) * Unit)
           h1 == Height(a1, a2, b1, b2, west)
           h2 == Height(a1, a2, b1, b2, east)
           width == b1 - a1
           high == (Unit * 1) * width
<1>1. /\ c * Unit \in Int /\ (c + 1) * Unit \in Int
      /\ west \in Int /\ east \in Int
  <2>1. c * Unit \in Int /\ (c + 1) * Unit \in Int
    OBVIOUS
  <2> QED
    BY <2>1 DEF Greatest, Least
<1>2. h1 \in Int /\ h2 \in Int
  <2> HIDE DEF west, east
  <2>1. \A x \in Int : Height(a1, a2, b1, b2, x) \in Int
    BY DEF Height
  <2> QED
    BY <1>1, <2>1
<1>0. North(r) \in Int /\ South(r) \in Int
    BY NorthSouth
<1>3. South(r) * Unit = South(r) * (Unit * 1) /\ North(r) * Unit = North(r) * (Unit * 1)
    BY <1>0
<1>4. CASE width = 0
  <2>1. /\ a1 <= (c + 1) * Unit /\ b1 >= c * Unit
        /\ a2 <= South(r) * Unit \/ b2 <= South(r) * Unit
        /\ a2 >= North(r) * Unit \/ b2 >= North(r) * Unit
    <3>1. a1 = b1
      BY <1>4
    <3> QED
      BY <1>3, <3>1 DEF PartTouches
  <2>2. South(r) * Unit \in Int /\ North(r) * Unit \in Int
    BY <1>0
  <2>3. Least(a2, b2) <= South(r) * Unit /\ Greatest(a2, b2) >= North(r) * Unit
    BY <2>1, <2>2 DEF Least, Greatest
  <2> QED
    BY <1>4, <2>1, <2>3 DEF Touches
<1>5. CASE width # 0
  <2>1. RowsIn(<<<<a1, a2>>, <<b1, b2>>>>, c) = <<Least(h1, h2), Greatest(h1, h2)>>
    BY DEF RowsIn, Height
  <2>2. a1 # b1
    BY <1>5
  <2>3. /\ a1 <= (c + 1) * Unit /\ b1 >= c * Unit
        /\ h1 <= South(r) * high \/ h2 <= South(r) * high
        /\ h1 >= North(r) * high \/ h2 >= North(r) * high
    BY <2>2 DEF PartTouches, WestIn, EastIn
  <2>4. South(r) * Unit * width = South(r) * high /\ North(r) * Unit * width = North(r) * high
    <3> HIDE DEF width
    <3>1. width \in Int
      BY DEF width
    <3>2. South(r) * Unit * width = South(r) * ((Unit * 1) * width)
      BY <1>0, <3>1
    <3>3. North(r) * Unit * width = North(r) * ((Unit * 1) * width)
      BY <1>0, <3>1
    <3> QED
      BY <3>2, <3>3
  <2>5. North(r) * high \in Int /\ South(r) * high \in Int
    BY <1>0
  <2> HIDE DEF h1, h2, high
  <2>6. Least(h1, h2) <= South(r) * Unit * width /\ Greatest(h1, h2) >= North(r) * Unit * width
    BY <1>2, <2>3, <2>4, <2>5 DEF Least, Greatest
  <2> QED
    BY <1>5, <2>1, <2>3, <2>6 DEF Touches
<1> QED
    BY <1>4, <1>5

\* and of the direction in which the segment comes.
LEMMA FromWestAsPart ==
    ASSUME NEW a1 \in Int, NEW a2 \in Int, NEW b1 \in Int, NEW b2 \in Int,
           NEW c \in Int, NEW r \in Int, Unit \in Nat \ {0}
    PROVE  /\ FromTheWest(<<<<a1, a2>>, <<b1, b2>>>>, c, r)
                => PartFromWest(a1, a2, b1, b2, 1, c, r)
           /\ Northward(<<<<a1, a2>>, <<b1, b2>>>>) <=> PartNorth(a1, a2, b1, b2)
<1>1. Unit * 1 = Unit
    OBVIOUS
<1>2. Northward(<<<<a1, a2>>, <<b1, b2>>>>) <=> PartNorth(a1, a2, b1, b2)
    BY DEF Northward, PartNorth
<1>3. FromTheWest(<<<<a1, a2>>, <<b1, b2>>>>, c, r) => PartFromWest(a1, a2, b1, b2, 1, c, r)
    BY <1>1 DEF FromTheWest, PartFromWest, Height
<1> QED
    BY <1>2, <1>3

\* A line that is cut at the border of the map: its heights are those of the
\* whole line times the width of the part, and so are the borders of tiles.
LEMMA CutPasses ==
    ASSUME NEW a1 \in Int, NEW a2 \in Int, NEW b1 \in Int, NEW b2 \in Int,
           NEW x1 \in Int, NEW y1 \in Int, NEW x2 \in Int, NEW y2 \in Int,
           NEW d \in Nat \ {0}, d = b1 - a1, x1 < x2,
           NEW c \in Int, NEW k \in Int, NEW r \in Int, Unit \in Nat \ {0},
           PartPasses(a1, a2, b1, b2, 1, c, r),
           x1 < (k + 1) * Unit, x2 > k * Unit,
           Height(a1, a2, b1, b2, WestIn(a1, c)) \in Int,
           Height(a1, a2, b1, b2, EastIn(b1, c)) \in Int,
           Height(x1, y1, x2, y2, WestIn(x1, k))
             = Height(a1, a2, b1, b2, WestIn(a1, c)) * (x2 - x1),
           Height(x1, y1, x2, y2, EastIn(x2, k))
             = Height(a1, a2, b1, b2, EastIn(b1, c)) * (x2 - x1)
    PROVE  PartPasses(x1, y1, x2, y2, d, k, r)
<1> DEFINE w == x2 - x1
           g1 == Height(a1, a2, b1, b2, WestIn(a1, c))
           g2 == Height(a1, a2, b1, b2, EastIn(b1, c))
           low == r * ((Unit * 1) * d)
           next == (r + 1) * ((Unit * 1) * d)
           high == (Unit * d) * w
<1>1. /\ g1 < next \/ g2 < next
      /\ g1 > low \/ g2 > low \/ (g1 = low /\ g2 = low)
    BY DEF PartPasses
<1>2. low \in Int /\ next \in Int /\ w \in Nat \ {0}
    OBVIOUS
<1>3. low * w = r * high /\ next * w = (r + 1) * high
  <2> HIDE DEF w
  <2>1. low * w = r * high
    BY <1>2
  <2>2. next * w = (r + 1) * high
    BY <1>2
  <2> QED
    BY <2>1, <2>2
<1>4. /\ g1 \in Int /\ g2 \in Int
      /\ Height(x1, y1, x2, y2, WestIn(x1, k)) = g1 * w
      /\ Height(x1, y1, x2, y2, EastIn(x2, k)) = g2 * w
    OBVIOUS
<1> HIDE DEF low, next, high, w, g1, g2
<1>5. (g1 < next => g1 * w < next * w) /\ (g2 < next => g2 * w < next * w)
    BY <1>2, <1>4, Factor
<1>6. (low < g1 => low * w < g1 * w) /\ (low < g2 => low * w < g2 * w)
    BY <1>2, <1>4, Factor
<1>7. g1 * w \in Int /\ g2 * w \in Int /\ low * w \in Int /\ next * w \in Int
    BY <1>2, <1>4
<1>8. /\ g1 * w < (r + 1) * high \/ g2 * w < (r + 1) * high
      /\ \/ g1 * w > r * high \/ g2 * w > r * high
         \/ (g1 * w = r * high /\ g2 * w = r * high)
    BY <1>1, <1>3, <1>5, <1>6, <1>7
<1>9. x1 # x2
    OBVIOUS
<1> QED
    BY <1>4, <1>8, <1>9 DEF PartPasses, high, w

\* The other way round: what the part touches the whole line touches.
LEMMA CutTouches ==
    ASSUME NEW a1 \in Int, NEW a2 \in Int, NEW b1 \in Int, NEW b2 \in Int,
           NEW x1 \in Int, NEW y1 \in Int, NEW x2 \in Int, NEW y2 \in Int,
           NEW d \in Nat \ {0}, d = b1 - a1, x1 < x2,
           NEW c \in Int, NEW k \in Int, NEW r \in Int, Unit \in Nat \ {0},
           PartTouches(x1, y1, x2, y2, d, k, r),
           a1 <= (c + 1) * Unit, b1 >= c * Unit,
           Height(a1, a2, b1, b2, WestIn(a1, c)) \in Int,
           Height(a1, a2, b1, b2, EastIn(b1, c)) \in Int,
           \A x \in {WestIn(x1, k), EastIn(x2, k)} :
                \E z \in {WestIn(a1, c), EastIn(b1, c)} :
                    Height(x1, y1, x2, y2, x) = Height(a1, a2, b1, b2, z) * (x2 - x1)
    PROVE  PartTouches(a1, a2, b1, b2, 1, c, r)
<1> DEFINE w == x2 - x1
           low == North(r) * ((Unit * 1) * d)
           next == South(r) * ((Unit * 1) * d)
           high == (Unit * d) * w
           g1 == Height(a1, a2, b1, b2, WestIn(a1, c))
           g2 == Height(a1, a2, b1, b2, EastIn(b1, c))
<1>0. North(r) \in Int /\ South(r) \in Int
    BY NorthSouth
<1>1. low \in Int /\ next \in Int /\ w \in Nat \ {0} /\ g1 \in Int /\ g2 \in Int
    BY <1>0
<1>2. /\ Height(x1, y1, x2, y2, WestIn(x1, k)) \in {g1 * w, g2 * w}
      /\ Height(x1, y1, x2, y2, EastIn(x2, k)) \in {g1 * w, g2 * w}
    OBVIOUS
<1>3. low * w = North(r) * high /\ next * w = South(r) * high
  <2> HIDE DEF w
  <2>1. low * w = North(r) * high
    BY <1>0, <1>1
  <2>2. next * w = South(r) * high
    BY <1>0, <1>1
  <2> QED
    BY <2>1, <2>2
<1> HIDE DEF low, next, high, w, g1, g2
<1>4. /\ g1 * w <= South(r) * high \/ g2 * w <= South(r) * high
      /\ g1 * w >= North(r) * high \/ g2 * w >= North(r) * high
    BY <1>2 DEF PartTouches, high, w
<1>5. (g1 * w <= next * w => g1 <= next) /\ (g2 * w <= next * w => g2 <= next)
    BY <1>1, Factor
<1>6. (low * w <= g1 * w => low <= g1) /\ (low * w <= g2 * w => low <= g2)
    BY <1>1, Factor
<1>7. g1 * w \in Int /\ g2 * w \in Int /\ low * w \in Int /\ next * w \in Int
    BY <1>1
<1>8. /\ g1 <= next \/ g2 <= next
      /\ g1 >= low \/ g2 >= low
    BY <1>1, <1>3, <1>4, <1>5, <1>6, <1>7
<1>9. a1 # b1
    OBVIOUS
<1> QED
    BY <1>8, <1>9 DEF PartTouches, low, next, g1, g2

-----------------------------------------------------------------------------
(* A segment over the 180th meridian: from (r1, r2), which is a map's width  *)
(* further to the west, to (l1, l2).                                         *)

IsSplit(l1, l2, r1, r2, d, split) ==
    /\ options \in Options
    /\ l1 \in 0 .. World /\ r1 \in 0 .. World
    /\ l2 \in Int /\ r2 \in Int
    /\ r1 - l1 > World \div 2
    /\ d = World + l1 - r1 /\ d # 0
    /\ split = l2 * d + (r2 - l2) * l1

\* The height in which the segment is split is between those of its ends.
LEMMA SplitFacts ==
    ASSUME NEW l1, NEW l2, NEW r1, NEW r2, NEW d, NEW split,
           IsSplit(l1, l2, r1, r2, d, split)
    PROVE  /\ Unit \in Nat \ {0} /\ World \in Nat /\ MapWidth \in Nat \ {0}
           /\ World = Unit * MapWidth /\ World = MapWidth * Unit
           /\ l1 \in Nat /\ l2 \in Int /\ r1 \in Nat /\ r2 \in Int
           /\ r1 <= World /\ l1 < r1 /\ options \in Options
           /\ d \in Nat \ {0} /\ split \in Int /\ d = l1 - (r1 - World)
           /\ split = l2 * (World - r1) + r2 * l1
           /\ Least(l2, r2) * d <= split /\ split <= Greatest(l2, r2) * d
<1>1. /\ Unit \in Nat \ {0} /\ World \in Nat /\ MapWidth \in Nat \ {0} /\ World \div 2 \in Nat
      /\ World = Unit * MapWidth /\ World = MapWidth * Unit
    BY MapFacts DEF IsSplit
<1>2. /\ l1 \in 0 .. World /\ r1 \in 0 .. World
      /\ l2 \in Int /\ r2 \in Int
      /\ r1 - l1 > World \div 2
      /\ d = World + l1 - r1 /\ d # 0
      /\ split = l2 * d + (r2 - l2) * l1
    BY DEF IsSplit
<1>3. /\ l1 \in Nat /\ l2 \in Int /\ r1 \in Nat /\ r2 \in Int
      /\ r1 <= World /\ l1 < r1 /\ d = l1 - (r1 - World)
      /\ d \in Nat \ {0} /\ options \in Options
    BY <1>1, <1>2 DEF IsSplit
<1>4. split = l2 * (World - r1) + r2 * l1
  <2>1. l2 * d = l2 * (World - r1) + l2 * l1
    BY <1>1, <1>2, <1>3
  <2>2. (r2 - l2) * l1 = r2 * l1 - l2 * l1
    BY <1>3
  <2>3. l2 * (World - r1) \in Int /\ l2 * l1 \in Int /\ r2 * l1 \in Int
    BY <1>1, <1>3
  <2> QED
    BY <1>2, <2>1, <2>2, <2>3
<1>5. split \in Int /\ Least(l2, r2) * d <= split /\ split <= Greatest(l2, r2) * d
  <2> DEFINE m == World - r1
             low == Least(l2, r2)
             high == Greatest(l2, r2)
  <2>1. m \in Nat /\ d = m + l1
    BY <1>1, <1>3
  <2>2. split = l2 * m + r2 * l1
    BY <1>4
  <2>3. /\ low \in Int /\ high \in Int
        /\ low <= l2 /\ low <= r2 /\ l2 <= high /\ r2 <= high
    BY <1>3 DEF Least, Greatest
  <2> HIDE DEF m, low, high
  <2>4. \A a, b \in Int : \A n \in Nat : a <= b => a * n <= b * n
    <3> TAKE a \in Int, b \in Int
    <3> TAKE n \in Nat
    <3>1. CASE n = 0
      BY <3>1
    <3>2. CASE n # 0
      BY <3>2, Factor
    <3> QED
      BY <3>1, <3>2
  <2>5. low * m <= l2 * m /\ low * l1 <= r2 * l1 /\ l2 * m <= high * m /\ r2 * l1 <= high * l1
    BY <1>3, <2>1, <2>3, <2>4
  <2>6. low * d = low * m + low * l1 /\ high * d = high * m + high * l1
    BY <1>3, <2>1, <2>3
  <2>7. /\ low * m \in Int /\ low * l1 \in Int /\ high * m \in Int /\ high * l1 \in Int
        /\ l2 * m \in Int /\ r2 * l1 \in Int
    BY <1>3, <2>1, <2>3
  <2> QED
    BY <2>2, <2>5, <2>6, <2>7 DEF low, high
<1> QED
    BY <1>1, <1>3, <1>4, <1>5

\* Rows that a part comes to north of the map are such rows of the segment.
LEMMA StrayOfPart ==
    ASSUME NEW l2 \in Int, NEW r2 \in Int, NEW d \in Nat \ {0}, Unit \in Nat \ {0},
           NEW y1 \in Int, NEW y2 \in Int,
           Least(l2, r2) * d <= y1, y1 <= Greatest(l2, r2) * d,
           Least(l2, r2) * d <= y2, y2 <= Greatest(l2, r2) * d,
           NEW r \in Int, PartStray(y1, y2, d, r)
    PROVE  PartStray(r2, l2, 1, r)
<1> DEFINE low == Least(l2, r2)
           high == Greatest(l2, r2)
           n == North(r) * Unit
           s == South(r) * Unit
<1>1. /\ low \in Int /\ high \in Int /\ low \in {l2, r2} /\ high \in {l2, r2}
    BY DEF Least, Greatest
<1>2. /\ n \in Int /\ s \in Int /\ North(r) \in Int /\ South(r) \in Int
      /\ North(r) * (Unit * d) = n * d /\ South(r) * (Unit * d) = s * d
      /\ North(r) * (Unit * 1) = n /\ South(r) * (Unit * 1) = s
  <2>1. North(r) \in Int /\ South(r) \in Int /\ n \in Int /\ s \in Int
    BY NorthSouth
  <2>2. North(r) * (Unit * d) = n * d
    BY <2>1
  <2>3. South(r) * (Unit * d) = s * d
    BY <2>1
  <2>4. North(r) * (Unit * 1) = n /\ South(r) * (Unit * 1) = s
    BY <2>1
  <2> QED
    BY <2>1, <2>2, <2>3, <2>4
<1>3. /\ r <= 0 /\ (y1 < 0 \/ y2 < 0)
      /\ y1 <= s * d \/ y2 <= s * d
      /\ y1 >= n * d \/ y2 >= n * d
    BY <1>2 DEF PartStray
<1>4. low * d <= y1 /\ low * d <= y2 /\ y1 <= high * d /\ y2 <= high * d
    OBVIOUS
<1> HIDE DEF low, high, n, s
<1>5. low * d \in Int /\ high * d \in Int /\ n * d \in Int /\ s * d \in Int /\ 0 * d = 0
    BY <1>1, <1>2
<1>6. low < 0
  <2>1. low * d < 0 * d
    BY <1>3, <1>4, <1>5
  <2> QED
    BY <1>1, <2>1, Factor
<1>7. low <= s
  <2>1. low * d <= s * d
    BY <1>3, <1>4, <1>5
  <2> QED
    BY <1>1, <1>2, <2>1, Factor
<1>8. n <= high
  <2>1. n * d <= high * d
    BY <1>3, <1>4, <1>5
  <2> QED
    BY <1>1, <1>2, <2>1, Factor
<1> QED
    BY <1>1, <1>2, <1>3, <1>6, <1>7, <1>8 DEF PartStray

\* Both ends are between themselves.
LEMMA EndsBetween ==
    ASSUME NEW l2 \in Int, NEW r2 \in Int, NEW d \in Nat \ {0}
    PROVE  /\ Least(l2, r2) * d <= l2 * d /\ l2 * d <= Greatest(l2, r2) * d
           /\ Least(l2, r2) * d <= r2 * d /\ r2 * d <= Greatest(l2, r2) * d
           /\ l2 * d \in Int /\ r2 * d \in Int
<1> DEFINE low == Least(l2, r2)
           high == Greatest(l2, r2)
<1>1. /\ low \in Int /\ high \in Int
      /\ low <= l2 /\ low <= r2 /\ l2 <= high /\ r2 <= high
    BY DEF Least, Greatest
<1> HIDE DEF low, high
<1>2. low * d <= l2 * d /\ l2 * d <= high * d /\ low * d <= r2 * d /\ r2 * d <= high * d
    BY <1>1, Factor
<1>3. l2 * d \in Int /\ r2 * d \in Int
    OBVIOUS
<1> QED
    BY <1>2, <1>3 DEF low, high

\* Both parts have the heights of the segment.
LEMMA HeightEast ==
    ASSUME NEW l1 \in Int, NEW l2 \in Int, NEW a1 \in Int, NEW r2 \in Int, NEW x \in Int,
           NEW y2, y2 = l2 * (l1 - a1),
           NEW split, split = l2 * (l1 - a1) + (r2 - l2) * l1
    PROVE  Height(0, split, l1, y2, x) = Height(a1, r2, l1, l2, x) * l1
BY DEF Height

\* and to the west of it.
LEMMA HeightWest ==
    ASSUME NEW l1 \in Int, NEW l2 \in Int, NEW a1 \in Int, NEW r2 \in Int, NEW x \in Int,
           NEW y1, y1 = r2 * (l1 - a1),
           NEW split, split = l2 * (l1 - a1) + (r2 - l2) * l1,
           NEW w \in Int, NEW r1, r1 = a1 + w, NEW z, z = x + w
    PROVE  Height(r1, y1, w, split, z) = Height(a1, r2, l1, l2, x) * (w - r1)
BY DEF Height

\* The split is where the segment is on the meridian.
LEMMA HeightAtMeridian ==
    ASSUME NEW l1 \in Int, NEW l2 \in Int, NEW a1 \in Int, NEW r2 \in Int,
           NEW split, split = l2 * (l1 - a1) + (r2 - l2) * l1
    PROVE  Height(a1, r2, l1, l2, 0) = split
BY DEF Height

\* Fractions are reduced.
LEMMA Reduced ==
    ASSUME NEW n \in Int, NEW k \in Nat \ {0}, NEW m, NEW j,
           \E d \in Nat \ {0} : m = n * d /\ j = k * d
    PROVE  m \div j = n \div k
<1>0. PICK d \in Nat \ {0} : m = n * d /\ j = k * d
    OBVIOUS
<1> DEFINE q == n \div k
<1>1. q \in Int /\ q * k <= n /\ n < (q + 1) * k
    BY DivAtMost, DivFacts
<1> HIDE DEF q
<1>2. q * k \in Int /\ (q + 1) * k \in Int
    BY <1>1
<1>3. (q * k) * d <= n * d
    BY <1>1, <1>2, Factor
<1>4. n * d < ((q + 1) * k) * d
    BY <1>1, <1>2, Factor
<1>5. (q * k) * d = q * (k * d) /\ ((q + 1) * k) * d = q * (k * d) + k * d
  <2>1. (q * k) * d = q * (k * d)
    BY <1>1
  <2>2. ((q + 1) * k) * d = q * (k * d) + k * d
    BY <1>1
  <2> QED
    BY <2>1, <2>2
<1>6. n * d \in Int /\ k * d \in Nat \ {0}
  <2>1. k * d > 0
    OBVIOUS
  <2> QED
    BY <2>1
<1>7. m \in Int /\ j \in Nat \ {0} /\ q * j <= m /\ m < q * j + j
    BY <1>0, <1>3, <1>4, <1>5, <1>6
<1>8. m \div j = q
    BY <1>1, <1>7, DivIs
<1> QED
    BY <1>8 DEF q

\* The part east of the meridian has the heights of the whole segment.
LEMMA EastHeights ==
    ASSUME NEW l1, NEW l2, NEW r1, NEW r2, NEW d, NEW split,
           IsSplit(l1, l2, r1, r2, d, split)
    PROVE  \A x \in Int :
             /\ Height(0, split, l1, l2 * d, x) = Height(r1 - World, r2, l1, l2, x) * l1
             /\ Height(r1 - World, r2, l1, l2, x) \in Int
<1> DEFINE a1 == r1 - World
           y2 == l2 * d
<1>1. /\ l1 \in Int /\ l2 \in Int /\ r2 \in Int /\ a1 \in Int /\ d = l1 - a1
    BY SplitFacts
<1>2. split = l2 * (l1 - a1) + (r2 - l2) * l1
    BY <1>1 DEF IsSplit
<1>3. y2 = l2 * (l1 - a1)
    BY <1>1
<1> HIDE DEF a1, y2
<1>4. SUFFICES ASSUME NEW x \in Int
               PROVE  /\ Height(0, split, l1, y2, x) = Height(a1, r2, l1, l2, x) * l1
                      /\ Height(a1, r2, l1, l2, x) \in Int
    BY DEF a1, y2
<1>5. Height(0, split, l1, y2, x) = Height(a1, r2, l1, l2, x) * l1
    BY <1>1, <1>2, <1>3, HeightEast
<1>6. Height(a1, r2, l1, l2, x) \in Int
    BY <1>1 DEF Height
<1> QED
    BY <1>5, <1>6

\* The part east of the meridian.
LEMMA EastIsWalk ==
    ASSUME NEW l1, NEW l2, NEW r1, NEW r2, NEW d, NEW split,
           IsSplit(l1, l2, r1, r2, d, split)
    PROVE  /\ IsWalk(0, split, l1, l2 * d, d) /\ l2 * d \in Int
           /\ l1 = 0 => expire_line_segment(0, split, l1, l2 * d, d) = {}
<1>1. /\ Unit \in Nat \ {0} /\ l1 \in Nat /\ l2 \in Int /\ d \in Nat \ {0} /\ split \in Int
      /\ r2 \in Int
    BY SplitFacts
<1>2. l2 * d \in Int
    BY <1>1
<1>3. IsWalk(0, split, l1, l2 * d, d)
    BY <1>1, <1>2 DEF IsWalk
<1>4. l1 = 0 => split = l2 * d
  <2>1. split = l2 * d + (r2 - l2) * l1
    BY DEF IsSplit
  <2>2. l1 = 0 => (r2 - l2) * l1 = 0
    BY <1>1
  <2> QED
    BY <1>2, <2>1, <2>2
<1> QED
    BY <1>2, <1>3, <1>4 DEF expire_line_segment

\* The walk over it misses no tile that the segment passes there,
LEMMA EastCovers ==
    ASSUME NEW l1, NEW l2, NEW r1, NEW r2, NEW d, NEW split,
           IsSplit(l1, l2, r1, r2, d, split), NEW c \in Nat, NEW r \in Nat,
           PartPasses(r1 - World, r2, l1, l2, 1, c, r),
           PartNorth(r1 - World, r2, l1, l2) => PartFromWest(r1 - World, r2, l1, l2, 1, c, r)
    PROVE  <<c, r>> \in expire_line_segment(0, split, l1, l2 * d, d)
<1> DEFINE a1 == r1 - World
           y2 == l2 * d
           g(x) == Height(a1, r2, l1, l2, x)
           h(x) == Height(0, split, l1, y2, x)
<1>1. /\ Unit \in Nat \ {0} /\ World \in Nat /\ l1 \in Nat /\ l2 \in Int /\ r1 \in Nat /\ r2 \in Int
      /\ r1 <= World /\ d \in Nat \ {0} /\ split \in Int /\ d = l1 - a1
      /\ split = l2 * d + (r2 - l2) * l1
  <2>1. split = l2 * d + (r2 - l2) * l1
    BY DEF IsSplit
  <2> QED
    BY <2>1, SplitFacts
<1>2. a1 \in Int /\ a1 <= 0 /\ y2 \in Int /\ a1 # l1
    BY <1>1
<1>3. /\ c * Unit \in Nat /\ (c + 1) * Unit \in Nat \ {0} /\ (c + 1) * Unit = c * Unit + Unit
      /\ (c = 0 => c * Unit = 0) /\ (c # 0 => c * Unit > 0)
  <2>1. c * Unit \in Nat /\ (c + 1) * Unit = c * Unit + Unit
    BY <1>1
  <2>2. c # 0 => c * Unit > 0
    BY <1>1
  <2> QED
    BY <1>1, <2>1, <2>2
<1>0. y2 = l2 * d /\ a1 \in Int
    BY <1>1
<1> HIDE DEF a1, y2
<1>4. \A x \in Int : h(x) = g(x) * l1 /\ g(x) \in Int
    BY EastHeights DEF a1, y2
<1>5. g(0) = split
    BY <1>0, <1>1, HeightAtMeridian
<1> HIDE DEF g, h
<1>6. l1 > c * Unit
    BY <1>2 DEF PartPasses, a1
<1>7. l1 \in Nat \ {0}
    BY <1>1, <1>3, <1>6
<1>8. WestIn(a1, c) = c * Unit /\ WestIn(0, c) = c * Unit
    BY <1>2, <1>3 DEF WestIn, Greatest
<1>9. EastIn(l1, c) \in Int
    BY <1>1, <1>3 DEF EastIn, Least
<1>10. PartPasses(0, split, l1, y2, d, c, r)
  <2>1. /\ Height(a1, r2, l1, l2, WestIn(a1, c)) \in Int
        /\ Height(a1, r2, l1, l2, EastIn(l1, c)) \in Int
    BY <1>3, <1>4, <1>8, <1>9 DEF g
  <2>2. l1 - 0 = l1
    BY <1>1
  <2>3. Height(0, split, l1, y2, WestIn(0, c))
          = Height(a1, r2, l1, l2, WestIn(a1, c)) * (l1 - 0)
    BY <1>3, <1>4, <1>8, <2>2 DEF g, h
  <2>4. Height(0, split, l1, y2, EastIn(l1, c))
          = Height(a1, r2, l1, l2, EastIn(l1, c)) * (l1 - 0)
    BY <1>4, <1>9, <2>2 DEF g, h
  <2>5. 0 < (c + 1) * Unit /\ l1 > c * Unit
    BY <1>3, <1>6
  <2>6. /\ l1 \in Int /\ l2 \in Int /\ r2 \in Int /\ split \in Int /\ y2 \in Int /\ a1 \in Int
        /\ d \in Nat \ {0} /\ d = l1 - a1 /\ 0 < l1 /\ Unit \in Nat \ {0} /\ 0 \in Int /\ c \in Int
        /\ r \in Int
    BY <1>1, <1>2, <1>7
  <2>7. PartPasses(a1, r2, l1, l2, 1, c, r)
    BY DEF a1
  <2> QED
    BY <2>1, <2>3, <2>4, <2>5, <2>6, <2>7, CutPasses
<1>11. ASSUME PartNorth(0, split, l1, y2) PROVE PartFromWest(0, split, l1, y2, d, c, r)
  <2>1. PartNorth(a1, r2, l1, l2)
    <3>1. y2 < split /\ 0 \div Unit # l1 \div Unit
      BY <1>11 DEF PartNorth
    <3>2. l2 < r2
      <4> SUFFICES ASSUME r2 <= l2 PROVE FALSE
        BY <1>1
      <4>1. (r2 - l2) * l1 <= 0
        BY <1>1
      <4>2. (r2 - l2) * l1 \in Int
        BY <1>1
      <4> QED
        BY <1>1, <1>2, <3>1, <4>1, <4>2 DEF y2
    <3>3. a1 \div Unit # l1 \div Unit
      <4>1. 0 \div Unit = 0
        BY <1>1
      <4>2. l1 \div Unit \in Nat
        BY <1>1
      <4>3. a1 \div Unit <= 0
        <5>1. a1 < (0 + 1) * Unit
          BY <1>1, <1>2
        <5> QED
          BY <1>1, <1>2, <5>1, DivAtMost
      <4>4. a1 \div Unit \in Int
        BY <1>1, <1>2, DivFacts
      <4> QED
        BY <3>1, <4>1, <4>2, <4>3, <4>4
    <3> QED
      BY <3>2, <3>3 DEF PartNorth
  <2>2. PartFromWest(a1, r2, l1, l2, 1, c, r)
    BY <2>1 DEF a1
  <2> DEFINE low == r * ((Unit * 1) * d)
             next == (r + 1) * ((Unit * 1) * d)
             high == (Unit * d) * l1
  <2>3. CASE c = a1 \div Unit /\ r = r2 \div (Unit * 1)
    <3>1. c * Unit <= a1
      BY <1>1, <1>2, <2>3, DivFacts
    <3>2. c = 0 /\ a1 = 0
      BY <1>2, <1>3, <3>1
    <3>3. split = r2 * d
      <4>1. d = l1
        BY <1>1, <3>2
      <4>2. l2 * l1 + (r2 - l2) * l1 = r2 * l1
        BY <1>1
      <4> QED
        BY <1>1, <4>1, <4>2
    <3>4. split \div (Unit * d) = r2 \div Unit
      <4> DEFINE K == Unit * d
      <4>1. \E e \in Nat \ {0} : split = r2 * e /\ K = Unit * e
        BY <1>1, <3>3
      <4>2. r2 \in Int /\ Unit \in Nat \ {0}
        BY <1>1
      <4> HIDE DEF K
      <4>3. split \div K = r2 \div Unit
        BY <4>1, <4>2, Reduced
      <4> QED
        BY <4>3 DEF K
    <3>5. Unit * 1 = Unit /\ 0 \div Unit = 0
      BY <1>1
    <3> QED
      BY <2>3, <3>2, <3>4, <3>5 DEF PartFromWest
  <2>4. CASE a1 < c * Unit /\ c * Unit <= l1 /\ low <= g(c * Unit) /\ g(c * Unit) < next
    <3>1. low \in Int /\ next \in Int
      BY <1>1
    <3>2. CASE c = 0
      <4> DEFINE K == Unit * d
      <4>1. K \in Nat \ {0}
        <5>1. Unit * d > 0
          BY <1>1
        <5> QED
          BY <1>1, <5>1
      <4>2. low = r * K /\ next = r * K + K
        BY <1>1
      <4>3. low <= split /\ split < next
        BY <1>3, <1>5, <2>4, <3>2
      <4> HIDE DEF K, low, next
      <4>4. split \div K = r
        <5>1. split \in Int
          BY <1>1
        <5> QED
          BY <4>1, <4>2, <4>3, <5>1, DivIs
      <4>5. 0 \div Unit = 0
        BY <1>1
      <4> QED
        BY <3>2, <4>4, <4>5 DEF PartFromWest, K
    <3>3. CASE c # 0
      <4>1. low * l1 = r * high /\ next * l1 = (r + 1) * high
        <5>1. low * l1 = r * high
          BY <1>1
        <5>2. next * l1 = (r + 1) * high
          BY <1>1
        <5> QED
          BY <5>1, <5>2
      <4>2. g(c * Unit) \in Int /\ h(c * Unit) = g(c * Unit) * l1
        BY <1>3, <1>4
      <4> DEFINE v == g(c * Unit)
      <4> HIDE DEF low, next, high, v
      <4>3. v \in Int /\ low <= v /\ v < next
        BY <2>4, <4>2 DEF v
      <4>4. low * l1 <= v * l1 /\ v * l1 < next * l1
        BY <1>7, <3>1, <4>3, Factor
      <4>5. r * high <= h(c * Unit) /\ h(c * Unit) < (r + 1) * high
        BY <4>1, <4>2, <4>4 DEF v
      <4>6. l1 - 0 = l1 /\ 0 < c * Unit
        BY <1>1, <1>3, <3>3
      <4> QED
        BY <2>4, <4>5, <4>6 DEF PartFromWest, h, high
    <3> QED
      BY <3>2, <3>3
  <2> HIDE DEF low, next
  <2>5. l1 - a1 = d
    BY <1>1
  <2> QED
    BY <2>2, <2>3, <2>4, <2>5 DEF PartFromWest, g, low, next
<1>12. IsWalk(0, split, l1, y2, d)
    BY EastIsWalk DEF y2
<1>13. <<c, r>> \in expire_line_segment(0, split, l1, y2, d) \/ (0 = l1 /\ split = y2)
  <2>1. options \in Options /\ l1 <= World /\ c \in Int
    BY SplitFacts
  <2> QED
    BY <1>10, <1>11, <1>12, <2>1, WalkCovers
<1> QED
    BY <1>7, <1>13 DEF y2

\* and visits none that the segment does not touch.
LEMMA EastTouches ==
    ASSUME NEW l1, NEW l2, NEW r1, NEW r2, NEW d, NEW split,
           IsSplit(l1, l2, r1, r2, d, split),
           NEW t \in expire_line_segment(0, split, l1, l2 * d, d)
    PROVE  \E c, r \in Int :
                /\ t = <<c, r>>
                /\ \/ c \in 0 .. MapWidth /\ PartTouches(r1 - World, r2, l1, l2, 1, c, r)
                   \/ PartStray(r2, l2, 1, r)
<1> DEFINE a1 == r1 - World
           y2 == l2 * d
<1>1. /\ Unit \in Nat \ {0} /\ World \in Nat /\ l1 \in Nat /\ l2 \in Int /\ r1 \in Nat
      /\ r2 \in Int /\ r1 <= World /\ l1 < r1 /\ options \in Options /\ d \in Nat \ {0}
      /\ split \in Int /\ d = l1 - a1 /\ MapWidth \in Nat \ {0}
      /\ World = MapWidth * Unit
    BY SplitFacts
<1>2. l1 \in Nat \ {0} /\ IsWalk(0, split, l1, y2, d)
    BY <1>1, EastIsWalk
<1>3. y2 \in Int
    BY <1>1
<1>4. a1 \in Int /\ a1 <= 0
    BY <1>1
<1>5. PICK c \in Int, r \in Int :
            /\ t = <<c, r>>
            /\ \/ c \in (0 \div Unit) .. (l1 \div Unit) /\ PartTouches(0, split, l1, y2, d, c, r)
               \/ PartStray(split, y2, d, r)
  <2>1. l1 <= World
    BY <1>1
  <2> QED
    BY <1>1, <1>2, <2>1, WalkTouches
<1>6. CASE PartStray(split, y2, d, r)
  <2>1. /\ Least(l2, r2) * d <= split /\ split <= Greatest(l2, r2) * d
        /\ Least(l2, r2) * d <= y2 /\ y2 <= Greatest(l2, r2) * d
    BY <1>1, SplitFacts, EndsBetween
  <2> HIDE DEF y2
  <2>2. PartStray(r2, l2, 1, r)
    BY <1>1, <1>3, <1>6, <2>1, StrayOfPart
  <2> QED
    BY <1>5, <2>2
<1>7. SUFFICES ASSUME c \in (0 \div Unit) .. (l1 \div Unit), PartTouches(0, split, l1, y2, d, c, r)
               PROVE  c \in 0 .. MapWidth /\ PartTouches(a1, r2, l1, l2, 1, c, r)
    BY <1>5, <1>6
<1>8. c \in 0 .. MapWidth /\ c * Unit \in Nat /\ (c + 1) * Unit \in Nat \ {0}
  <2>1. 0 \div Unit = 0 /\ l1 \div Unit \in Int
    BY <1>1
  <2>2. c \in Int /\ 0 <= c /\ c <= l1 \div Unit
    BY <1>7, <2>1
  <2>3. l1 < (MapWidth + 1) * Unit
    BY <1>1
  <2>4. l1 \div Unit <= MapWidth
    BY <1>1, <2>3, DivAtMost
  <2> QED
    BY <1>1, <2>1, <2>2, <2>4
<1>9. c * Unit <= l1
  <2>2. c \in Int
    BY <1>5
  <2>1. c <= l1 \div Unit
    BY <1>1, <1>7
  <2> QED
    <3>1. l1 \in Int /\ Unit \in Nat \ {0}
      BY <1>1
    <3> QED
      BY <2>1, <2>2, <3>1, DivAtMost
<1> HIDE DEF a1, y2
<1>10. WestIn(a1, c) = c * Unit /\ WestIn(0, c) = c * Unit /\ EastIn(l1, c) \in Int
  <2>1. WestIn(a1, c) = c * Unit
    BY <1>4, <1>8 DEF WestIn, Greatest
  <2>2. WestIn(0, c) = c * Unit
    BY <1>8 DEF WestIn, Greatest
  <2>3. EastIn(l1, c) \in Int
    BY <1>1, <1>8 DEF EastIn, Least
  <2> QED
    BY <2>1, <2>2, <2>3
<1>11. \A x \in Int : /\ Height(0, split, l1, y2, x) = Height(a1, r2, l1, l2, x) * l1
                      /\ Height(a1, r2, l1, l2, x) \in Int
    BY EastHeights DEF a1, y2
<1>12. \A x \in {WestIn(0, c), EastIn(l1, c)} :
            \E z \in {WestIn(a1, c), EastIn(l1, c)} :
                Height(0, split, l1, y2, x) = Height(a1, r2, l1, l2, z) * (l1 - 0)
  <2>1. l1 - 0 = l1 /\ c * Unit \in Int
    BY <1>1, <1>8
  <2> QED
    BY <1>10, <1>11, <2>1
<1>13. /\ Height(a1, r2, l1, l2, WestIn(a1, c)) \in Int
       /\ Height(a1, r2, l1, l2, EastIn(l1, c)) \in Int
    BY <1>8, <1>10, <1>11
<1>14. PartTouches(a1, r2, l1, l2, 1, c, r)
  <2>1. /\ l1 \in Int /\ l2 \in Int /\ split \in Int /\ 0 < l1 /\ c \in Int /\ r \in Int /\ 0 \in Int
        /\ a1 <= (c + 1) * Unit /\ l1 >= c * Unit
    BY <1>1, <1>2, <1>4, <1>5, <1>8, <1>9
  <2>2. d = l1 - a1
    BY <1>1 DEF a1
  <2> QED
    BY <1>1, <1>3, <1>4, <1>7, <1>12, <1>13, <2>1, <2>2, CutTouches
<1> QED
    BY <1>8, <1>14

\* The part west of the meridian, which lies a map's width further to the east.
LEMMA WestIsWalk ==
    ASSUME NEW l1, NEW l2, NEW r1, NEW r2, NEW d, NEW split,
           IsSplit(l1, l2, r1, r2, d, split)
    PROVE  /\ IsWalk(r1, r2 * d, World, split, d) /\ r2 * d \in Int
           /\ r1 = World => expire_line_segment(r1, r2 * d, World, split, d) = {}
<1>1. /\ Unit \in Nat \ {0} /\ World \in Nat /\ r1 \in Nat /\ r1 <= World
      /\ d \in Nat \ {0} /\ split \in Int /\ r2 \in Int /\ l1 \in Nat /\ l2 \in Int
      /\ split = l2 * (World - r1) + r2 * l1 /\ d = l1 - (r1 - World)
    BY SplitFacts
<1>2. r2 * d \in Int
    BY <1>1
<1>3. IsWalk(r1, r2 * d, World, split, d)
    BY <1>1, <1>2 DEF IsWalk
<1>4. r1 = World => split = r2 * d
  <2>1. r1 = World => World - r1 = 0 /\ d = l1
    BY <1>1
  <2>2. r1 = World => l2 * (World - r1) = 0 /\ r2 * l1 = r2 * d
    BY <1>1, <2>1
  <2> QED
    BY <1>1, <1>2, <2>2
<1> QED
    BY <1>2, <1>3, <1>4 DEF expire_line_segment

\* This part has the heights of the whole segment, too.
LEMMA WestHeights ==
    ASSUME NEW l1, NEW l2, NEW r1, NEW r2, NEW d, NEW split,
           IsSplit(l1, l2, r1, r2, d, split)
    PROVE  \A x \in Int :
             /\ Height(r1, r2 * d, World, split, x + World)
                  = Height(r1 - World, r2, l1, l2, x) * (World - r1)
             /\ Height(r1 - World, r2, l1, l2, x) \in Int
<1> DEFINE a1 == r1 - World
           y1 == r2 * d
<1>1. /\ l1 \in Int /\ l2 \in Int /\ r2 \in Int /\ a1 \in Int /\ d = l1 - a1
      /\ World \in Int /\ r1 = a1 + World
    BY SplitFacts
<1>2. split = l2 * (l1 - a1) + (r2 - l2) * l1
    BY <1>1 DEF IsSplit
<1>3. y1 = r2 * (l1 - a1)
    BY <1>1
<1> HIDE DEF a1, y1
<1>4. SUFFICES ASSUME NEW x \in Int
               PROVE  /\ Height(r1, y1, World, split, x + World)
                           = Height(a1, r2, l1, l2, x) * (World - r1)
                      /\ Height(a1, r2, l1, l2, x) \in Int
    BY DEF a1, y1
<1>5. Height(r1, y1, World, split, x + World) = Height(a1, r2, l1, l2, x) * (World - r1)
    BY <1>1, <1>2, <1>3, HeightWest
<1>6. Height(a1, r2, l1, l2, x) \in Int
    BY <1>1 DEF Height
<1> QED
    BY <1>5, <1>6

\* Columns left of the map.
LEMMA WestColumns ==
    ASSUME NEW l1, NEW l2, NEW r1, NEW r2, NEW d, NEW split,
           IsSplit(l1, l2, r1, r2, d, split), NEW c \in Int
    PROVE  /\ c * Unit \in Int /\ (c + 1) * Unit \in Int /\ (c + 1) * Unit = c * Unit + Unit
           /\ (c + MapWidth) * Unit = c * Unit + World
           /\ (c + MapWidth + 1) * Unit = (c + 1) * Unit + World
           /\ WestIn(r1, c + MapWidth) = WestIn(r1 - World, c) + World
           /\ WestIn(r1 - World, c) \in Int
           /\ c < 0 => /\ EastIn(World, c + MapWidth) = EastIn(l1, c) + World
                       /\ (c + 1) * Unit <= 0
           /\ EastIn(l1, c) \in Int
<1>1. /\ Unit \in Nat \ {0} /\ World \in Nat /\ l1 \in Nat /\ r1 \in Nat
      /\ World = MapWidth * Unit /\ MapWidth \in Nat \ {0}
    BY SplitFacts
<1>2. c * Unit \in Int /\ (c + 1) * Unit \in Int /\ (c + 1) * Unit = c * Unit + Unit
    BY <1>1
<1>3. (c + MapWidth) * Unit = c * Unit + World
    BY <1>1
<1>4. (c + MapWidth + 1) * Unit = (c + 1) * Unit + World
    BY <1>1
<1>5. WestIn(r1, c + MapWidth) = WestIn(r1 - World, c) + World /\ WestIn(r1 - World, c) \in Int
    BY <1>1, <1>2, <1>3 DEF WestIn, Greatest
<1>6. EastIn(l1, c) \in Int
    BY <1>1, <1>2 DEF EastIn, Least
<1>7. ASSUME c < 0
      PROVE  EastIn(World, c + MapWidth) = EastIn(l1, c) + World /\ (c + 1) * Unit <= 0
  <2>1. (c + 1) * Unit <= 0
    BY <1>1, <1>7
  <2>2. EastIn(l1, c) = (c + 1) * Unit
    BY <1>1, <1>2, <2>1 DEF EastIn, Least
  <2>3. EastIn(World, c + MapWidth) = (c + 1) * Unit + World
    BY <1>1, <1>2, <1>4, <2>1 DEF EastIn, Least
  <2> QED
    BY <2>1, <2>2, <2>3
<1> QED
    BY <1>2, <1>3, <1>4, <1>5, <1>6, <1>7

\* If this part runs to the north so does the segment.
LEMMA WestRunsNorth ==
    ASSUME NEW l1, NEW l2, NEW r1, NEW r2, NEW d, NEW split,
           IsSplit(l1, l2, r1, r2, d, split), r1 < World,
           PartNorth(r1, r2 * d, World, split)
    PROVE  PartNorth(r1 - World, r2, l1, l2)
<1> DEFINE m == World - r1
           a1 == r1 - World
<1>1. /\ Unit \in Nat \ {0} /\ l1 \in Nat /\ l2 \in Int /\ r2 \in Int /\ m \in Nat \ {0}
      /\ a1 \in Int /\ a1 < 0 /\ d = m + l1 /\ split = l2 * m + r2 * l1
  <2>1. /\ Unit \in Nat \ {0} /\ l1 \in Nat /\ l2 \in Int /\ r2 \in Int
        /\ World \in Nat /\ r1 \in Nat /\ d = l1 - (r1 - World)
        /\ split = l2 * m + r2 * l1
    BY SplitFacts
  <2>2. m \in Nat \ {0} /\ a1 \in Int /\ a1 < 0 /\ d = m + l1
    BY <2>1
  <2> QED
    BY <2>1, <2>2
<1>2. split < r2 * d
    BY DEF PartNorth
<1> HIDE DEF m
<1>3. r2 * d = r2 * m + r2 * l1 /\ r2 * m \in Int /\ r2 * l1 \in Int /\ l2 * m \in Int
    BY <1>1
<1>4. l2 * m < r2 * m
    BY <1>1, <1>2, <1>3
<1>5. l2 < r2
    BY <1>1, <1>4, Factor
<1>6. l1 \div Unit \in Nat
    BY <1>1
<1>7. a1 \div Unit <= -1
  <2>1. -1 \in Int /\ a1 < (-1 + 1) * Unit
    BY <1>1
  <2> QED
    BY <1>1, <2>1, DivAtMost
<1>8. a1 \div Unit \in Int
    BY <1>1, DivFacts
<1>9. a1 \div Unit # l1 \div Unit
    BY <1>6, <1>7, <1>8
<1> QED
    BY <1>5, <1>9 DEF PartNorth

\* The walk over it misses no tile that the segment passes in the west,
LEMMA WestCovers ==
    ASSUME NEW l1, NEW l2, NEW r1, NEW r2, NEW d, NEW split,
           IsSplit(l1, l2, r1, r2, d, split),
           NEW c \in Int, c < 0, NEW r \in Nat,
           PartPasses(r1 - World, r2, l1, l2, 1, c, r),
           PartNorth(r1 - World, r2, l1, l2) => PartFromWest(r1 - World, r2, l1, l2, 1, c, r)
    PROVE  <<c + MapWidth, r>> \in expire_line_segment(r1, r2 * d, World, split, d)
<1> DEFINE a1 == r1 - World
           y1 == r2 * d
           k == c + MapWidth
           w == World - r1
<1>1. /\ Unit \in Nat \ {0} /\ World \in Nat /\ l1 \in Nat /\ l2 \in Int /\ r1 \in Nat /\ r2 \in Int
      /\ r1 <= World /\ d \in Nat \ {0} /\ split \in Int /\ d = l1 - a1 /\ MapWidth \in Nat \ {0}
      /\ World = MapWidth * Unit
    BY SplitFacts
<1>2. a1 \in Int /\ y1 \in Int /\ k \in Int /\ a1 # l1
    BY <1>1
<1>3. /\ c * Unit \in Int /\ (c + 1) * Unit \in Int /\ (c + 1) * Unit = c * Unit + Unit
      /\ k * Unit = c * Unit + World
      /\ (k + 1) * Unit = (c + 1) * Unit + World
      /\ WestIn(r1, k) = WestIn(a1, c) + World /\ WestIn(a1, c) \in Int
      /\ EastIn(World, k) = EastIn(l1, c) + World /\ EastIn(l1, c) \in Int
      /\ (c + 1) * Unit <= 0
    BY WestColumns
<1>4. a1 < (c + 1) * Unit
    BY <1>2 DEF PartPasses
<1>5. r1 < World /\ w \in Nat \ {0}
    BY <1>1, <1>3, <1>4
<1>6. \A x \in Int : /\ Height(r1, y1, World, split, x + World) = Height(a1, r2, l1, l2, x) * w
                     /\ Height(a1, r2, l1, l2, x) \in Int
    BY WestHeights
<1>7. r1 = a1 + World /\ r1 \div Unit = (a1 \div Unit) + MapWidth
  <2> DEFINE q == a1 \div Unit
  <2>1. q \in Int /\ q * Unit <= a1 /\ a1 < q * Unit + Unit
    BY <1>1, <1>2, DivFacts
  <2>2. r1 = a1 + World
    BY <1>1
  <2>3. a1 \in Int
    BY <1>2
  <2> HIDE DEF q, a1
  <2>4. (q + MapWidth) * Unit = q * Unit + World /\ q * Unit \in Int
    BY <1>1, <2>1
  <2>5. q + MapWidth \in Int /\ (q + MapWidth) * Unit <= r1
        /\ r1 < (q + MapWidth) * Unit + Unit
    BY <1>1, <2>1, <2>2, <2>3, <2>4
  <2>6. r1 \div Unit = q + MapWidth
    BY <1>1, <2>5, DivIs
  <2> QED
    BY <2>2, <2>6 DEF q
<1>8. /\ PartPasses(a1, r2, l1, l2, 1, c, r)
      /\ PartNorth(a1, r2, l1, l2) => PartFromWest(a1, r2, l1, l2, 1, c, r)
      /\ PartNorth(r1, y1, World, split) => PartNorth(a1, r2, l1, l2)
    BY <1>5, WestRunsNorth
<1>9. IsWalk(r1, y1, World, split, d) /\ World = r1 + w
    BY <1>1, WestIsWalk
<1>10. y1 = r2 * d
    OBVIOUS
<1> HIDE DEF a1, y1, k, w
<1>11. PartPasses(r1, y1, World, split, d, k, r)
  <2>1. /\ Height(a1, r2, l1, l2, WestIn(a1, c)) \in Int
        /\ Height(a1, r2, l1, l2, EastIn(l1, c)) \in Int
    BY <1>3, <1>6
  <2>2. World - r1 = w
    BY DEF w
  <2>3. Height(r1, y1, World, split, WestIn(r1, k))
          = Height(a1, r2, l1, l2, WestIn(a1, c)) * (World - r1)
    BY <1>3, <1>6, <2>2
  <2>4. Height(r1, y1, World, split, EastIn(World, k))
          = Height(a1, r2, l1, l2, EastIn(l1, c)) * (World - r1)
    BY <1>3, <1>6, <2>2
  <2>5. r1 < (k + 1) * Unit /\ World > k * Unit
    BY <1>1, <1>2, <1>3, <1>4, <1>7
  <2>6. /\ l1 \in Int /\ l2 \in Int /\ r2 \in Int /\ split \in Int /\ y1 \in Int /\ a1 \in Int
        /\ d \in Nat \ {0} /\ d = l1 - a1 /\ r1 < World /\ Unit \in Nat \ {0} /\ k \in Int
        /\ r1 \in Int /\ World \in Int /\ r \in Int
    BY <1>1, <1>2, <1>5
  <2> QED
    BY <1>8, <2>1, <2>3, <2>4, <2>5, <2>6, CutPasses
<1>12. ASSUME PartFromWest(a1, r2, l1, l2, 1, c, r)
       PROVE  PartFromWest(r1, y1, World, split, d, k, r)
  <2> DEFINE low == r * ((Unit * 1) * d)
             next == (r + 1) * ((Unit * 1) * d)
             high == (Unit * d) * w
             g == Height(a1, r2, l1, l2, c * Unit)
  <2>1. CASE c = a1 \div Unit /\ r = r2 \div (Unit * 1)
    <3> DEFINE K == Unit * d
    <3>1. \E e \in Nat \ {0} : y1 = r2 * e /\ K = Unit * e
      BY <1>1, <1>10
    <3>2. r2 \in Int /\ Unit * 1 = Unit
      BY <1>1
    <3> HIDE DEF K
    <3>3. y1 \div K = r2 \div Unit
      BY <1>1, <3>1, <3>2, Reduced
    <3> QED
      BY <1>7, <2>1, <3>2, <3>3 DEF PartFromWest, K, k
  <2>2. CASE a1 < c * Unit /\ c * Unit <= l1 /\ low <= g /\ g < next
    <3>1. low \in Int /\ next \in Int
      BY <1>1
    <3>2. low * w = r * high /\ next * w = (r + 1) * high
      <4>1. low * w = r * high
        BY <1>1, <1>5
      <4>2. next * w = (r + 1) * high
        BY <1>1, <1>5
      <4> QED
        BY <4>1, <4>2
    <3>3. g \in Int /\ Height(r1, y1, World, split, k * Unit) = g * w
      BY <1>3, <1>6
    <3> HIDE DEF low, next, high, g
    <3>4. low * w <= g * w /\ g * w < next * w
      BY <1>5, <2>2, <3>1, <3>3, Factor
    <3>5. r1 < k * Unit /\ k * Unit <= World /\ World - r1 = w
      <4>1. c * Unit <= 0
        BY <1>1, <1>3
      <4> QED
        BY <1>1, <1>2, <1>3, <1>7, <2>2, <4>1 DEF w
    <3>6. /\ r * high <= Height(r1, y1, World, split, k * Unit)
          /\ Height(r1, y1, World, split, k * Unit) < (r + 1) * high
      BY <3>2, <3>3, <3>4
    <3> QED
      BY <3>5, <3>6 DEF PartFromWest, high
  <2>3. l1 - a1 = d
    BY <1>1, <1>2
  <2> HIDE DEF low, next
  <2> QED
    BY <1>12, <2>1, <2>2, <2>3 DEF PartFromWest, g, low, next
<1>13. <<k, r>> \in expire_line_segment(r1, y1, World, split, d) \/ (r1 = World /\ y1 = split)
  <2>1. options \in Options /\ World <= World
    BY <1>1, SplitFacts
  <2> QED
    BY <1>2, <1>8, <1>9, <1>11, <1>12, <2>1, WalkCovers
<1>14. r1 # World
    BY <1>1, <1>5
<1> QED
    BY <1>13, <1>14 DEF y1, k

\* and visits none that the segment does not touch.
LEMMA WestTouches ==
    ASSUME NEW l1, NEW l2, NEW r1, NEW r2, NEW d, NEW split,
           IsSplit(l1, l2, r1, r2, d, split),
           NEW t \in expire_line_segment(r1, r2 * d, World, split, d)
    PROVE  \E c, r \in Int :
                /\ t = <<c + MapWidth, r>>
                /\ \/ c \in -MapWidth .. 0 /\ PartTouches(r1 - World, r2, l1, l2, 1, c, r)
                   \/ PartStray(r2, l2, 1, r)
<1> DEFINE a1 == r1 - World
           y1 == r2 * d
           w == World - r1
<1>1. /\ Unit \in Nat \ {0} /\ World \in Nat /\ l1 \in Nat /\ l2 \in Int /\ r1 \in Nat
      /\ r2 \in Int /\ r1 <= World /\ options \in Options /\ d \in Nat \ {0}
      /\ split \in Int /\ d = l1 - a1 /\ MapWidth \in Nat \ {0}
      /\ World = MapWidth * Unit
    BY SplitFacts
<1>2. r1 < World /\ IsWalk(r1, y1, World, split, d) /\ y1 \in Int
    BY <1>1, WestIsWalk
<1>4. a1 \in Int /\ a1 <= 0 /\ w \in Nat \ {0}
    BY <1>1, <1>2
<1>5. PICK k \in Int, r \in Int :
            /\ t = <<k, r>>
            /\ \/ /\ k \in (r1 \div Unit) .. (World \div Unit)
                  /\ PartTouches(r1, y1, World, split, d, k, r)
               \/ PartStray(y1, split, d, r)
  <2>1. World <= World
    BY <1>1
  <2> QED
    BY <1>1, <1>2, <2>1, WalkTouches
<1> DEFINE c == k - MapWidth
<1>3. c \in Int /\ k = c + MapWidth
    BY <1>1, <1>5
<1>6. CASE PartStray(y1, split, d, r)
  <2>1. /\ Least(l2, r2) * d <= split /\ split <= Greatest(l2, r2) * d
        /\ Least(l2, r2) * d <= y1 /\ y1 <= Greatest(l2, r2) * d
    BY <1>1, SplitFacts, EndsBetween
  <2> HIDE DEF y1
  <2>2. PartStray(r2, l2, 1, r)
    BY <1>1, <1>2, <1>6, <2>1, StrayOfPart
  <2> HIDE DEF c
  <2> QED
    BY <1>3, <1>5, <2>2
<1>9. SUFFICES ASSUME k \in (r1 \div Unit) .. (World \div Unit),
                      PartTouches(r1, y1, World, split, d, k, r)
               PROVE  c \in -MapWidth .. 0 /\ PartTouches(a1, r2, l1, l2, 1, c, r)
  <2> HIDE DEF c
  <2> QED
    BY <1>3, <1>5, <1>6
<1>7. World \div Unit = MapWidth /\ r1 \div Unit \in Nat
    BY <1>1, DivIs
<1>8. c \in -MapWidth .. 0 /\ k = c + MapWidth /\ k \in Int /\ r1 \div Unit <= k
    BY <1>1, <1>7, <1>9
<1>10. c \in Int /\ c <= 0
    BY <1>8
<1> HIDE DEF c
<1>11. /\ c * Unit \in Int /\ (c + 1) * Unit \in Int /\ (c + 1) * Unit = c * Unit + Unit
       /\ k * Unit = c * Unit + World
       /\ (k + 1) * Unit = (c + 1) * Unit + World
       /\ WestIn(r1, k) = WestIn(a1, c) + World /\ WestIn(a1, c) \in Int
       /\ EastIn(l1, c) \in Int
       /\ c < 0 => EastIn(World, k) = EastIn(l1, c) + World
    BY <1>8, <1>10, WestColumns
<1>12. a1 <= (c + 1) * Unit /\ l1 >= c * Unit
  <2>1. r1 < (k + 1) * Unit
    <3>1. r1 \in Int /\ k \in Int /\ r1 \div Unit <= k /\ Unit \in Nat \ {0}
      BY <1>1, <1>8
    <3> QED
      BY <3>1, DivAtMost
  <2>2. c * Unit <= 0
    BY <1>1, <1>10
  <2> QED
    BY <1>1, <1>11, <2>1, <2>2
<1> HIDE DEF a1, y1, w
<1>13. \A x \in Int : /\ Height(r1, y1, World, split, x + World) = Height(a1, r2, l1, l2, x) * w
                      /\ Height(a1, r2, l1, l2, x) \in Int
    BY WestHeights DEF a1, y1, w
<1>14. w = World - r1
    BY DEF w
<1>15. /\ Height(a1, r2, l1, l2, WestIn(a1, c)) \in Int
       /\ Height(a1, r2, l1, l2, EastIn(l1, c)) \in Int
    BY <1>11, <1>13
<1>16. Height(r1, y1, World, split, WestIn(r1, k)) = Height(a1, r2, l1, l2, WestIn(a1, c)) * w
    BY <1>11, <1>13
<1>17. \A x \in {WestIn(r1, k), EastIn(World, k)} :
            \E z \in {WestIn(a1, c), EastIn(l1, c)} :
                Height(r1, y1, World, split, x) = Height(a1, r2, l1, l2, z) * (World - r1)
  <2>1. CASE c < 0
    <3>1. Height(r1, y1, World, split, EastIn(World, k))
            = Height(a1, r2, l1, l2, EastIn(l1, c)) * w
      BY <1>11, <1>13, <2>1
    <3> QED
      BY <1>14, <1>16, <3>1
  <2>2. CASE c = 0
    <3>1. c * Unit = 0
      BY <1>1, <2>2
    <3>2. WestIn(a1, c) = 0
      BY <1>4, <3>1 DEF WestIn, Greatest
    <3>3. EastIn(World, k) = World
      BY <1>1, <1>11, <3>1 DEF EastIn, Least
    <3>4. WestIn(r1, k) = World
      BY <1>1, <1>11, <3>2
    <3> QED
      BY <1>14, <1>16, <3>3, <3>4
  <2> QED
    BY <1>10, <2>1, <2>2
<1>18. PartTouches(a1, r2, l1, l2, 1, c, r)
  <2>1. /\ l1 \in Int /\ l2 \in Int /\ r2 \in Int /\ split \in Int /\ y1 \in Int /\ k \in Int
        /\ r \in Int /\ r1 \in Int /\ World \in Int
    BY <1>1, <1>2, <1>5, <1>8
  <2>2. d = l1 - a1
    BY <1>1 DEF a1
  <2> QED
    BY <1>1, <1>2, <1>4, <1>9, <1>10, <1>12, <1>15, <1>17, <2>1, <2>2, CutTouches
<1> QED
    BY <1>8, <1>18

-----------------------------------------------------------------------------
(* Segments, split or not.                                                   *)

\* Both ends of a segment, from left to right on the map.
IsLeftRight(l1, l2, r1, r2) ==
    /\ options \in Options
    /\ l1 \in 0 .. World /\ r1 \in 0 .. World /\ l1 <= r1
    /\ l2 \in -Beyond .. World + Beyond /\ r2 \in -Beyond .. World + Beyond

IsFar(l1, r1) == r1 - l1 > World \div 2
SplitAt(l1, l2, r1, r2) == l2 * (World + l1 - r1) + (r2 - l2) * l1

\* expire_line_segment_180secure() and WestEast, for the numbers.
Walked(l1, l2, r1, r2) ==
    LET d == World + l1 - r1
        split == SplitAt(l1, l2, r1, r2)
    IN IF r1 - l1 <= World \div 2
       THEN expire_line_segment(l1, l2, r1, r2, 1)
       ELSE IF d = 0
       THEN expire_line_segment(0, l2, 0, r2, 1)
       ELSE expire_line_segment(0, split, l1, l2 * d, d)
            \cup expire_line_segment(r1, r2 * d, World, split, d)

Line(l1, l2, r1, r2) ==
    IF IsFar(l1, r1) THEN <<<<r1 - World, r2>>, <<l1, l2>>>> ELSE <<<<l1, l2>>, <<r1, r2>>>>

\* Both ends are between the limits.
LEMMA LeftRightFacts ==
    ASSUME NEW l1, NEW l2, NEW r1, NEW r2, IsLeftRight(l1, l2, r1, r2)
    PROVE  /\ Unit \in Nat \ {0} /\ World \in Nat /\ MapWidth \in Nat \ {0} /\ World \div 2 \in Nat
           /\ World = MapWidth * Unit
           /\ l1 \in Nat /\ l2 \in Int /\ r1 \in Nat /\ r2 \in Int
           /\ l1 <= r1 /\ r1 <= World /\ Beyond \in Nat
           /\ -Beyond <= l2 /\ -Beyond <= r2 /\ l2 <= World + Beyond /\ r2 <= World + Beyond
           /\ IsWalk(l1, l2, r1, r2, 1) /\ IsWalk(0, l2, 0, r2, 1) /\ options \in Options
<1>0. Beyond \in Nat
    BY WorldAssumption
<1>1. /\ Unit \in Nat \ {0} /\ World \in Nat /\ MapWidth \in Nat \ {0} /\ World \div 2 \in Nat
      /\ World = MapWidth * Unit
    BY MapFacts DEF IsLeftRight
<1>2. /\ l1 \in Nat /\ l2 \in Int /\ r1 \in Nat /\ r2 \in Int
      /\ l1 <= r1 /\ r1 <= World
      /\ -Beyond <= l2 /\ -Beyond <= r2 /\ l2 <= World + Beyond /\ r2 <= World + Beyond
    BY <1>0, <1>1 DEF IsLeftRight
<1>3. IsWalk(l1, l2, r1, r2, 1) /\ IsWalk(0, l2, 0, r2, 1)
    BY <1>1, <1>2 DEF IsWalk
<1>4. options \in Options
    BY DEF IsLeftRight
<1> QED
    BY <1>0, <1>1, <1>2, <1>3, <1>4

\* Segments over the meridian are split, unless they run along it.
LEMMA FarIsSplit ==
    ASSUME NEW l1, NEW l2, NEW r1, NEW r2, IsLeftRight(l1, l2, r1, r2), IsFar(l1, r1),
           World + l1 - r1 # 0
    PROVE  IsSplit(l1, l2, r1, r2, World + l1 - r1, SplitAt(l1, l2, r1, r2))
<1>1. l2 \in Int /\ r2 \in Int
    BY LeftRightFacts
<1> QED
    BY <1>1 DEF IsSplit, SplitAt, IsFar, IsLeftRight

\* A walk of whole rows covers what the line passes, and stays on the map.
LEMMA PlainCovers ==
    ASSUME NEW x1, NEW y1, NEW x2, NEW y2, IsWalk(x1, y1, x2, y2, 1),
           options \in Options, x2 <= World,
           NEW c \in Int, NEW r \in Nat, PartPasses(x1, y1, x2, y2, 1, c, r),
           PartNorth(x1, y1, x2, y2) => PartFromWest(x1, y1, x2, y2, 1, c, r)
    PROVE  <<c, r>> \in expire_line_segment(x1, y1, x2, y2, 1) /\ c >= 0
<1>1. ~(x1 = x2 /\ y1 = y2)
    BY DEF PartPasses
<1>2. <<c, r>> \in expire_line_segment(x1, y1, x2, y2, 1)
    BY <1>1, WalkCovers
<1>3. x1 \in Nat /\ Unit \in Nat \ {0}
    BY DEF IsWalk
<1>4. x1 \div Unit = c \/ x1 < (c + 1) * Unit
    BY DEF PartPasses
<1>5. x1 \div Unit <= c
    BY <1>3, <1>4, DivAtMost
<1>6. x1 \div Unit \in Nat
    BY <1>3
<1> QED
    BY <1>2, <1>5, <1>6

\* and it visits no tile that the segment does not touch, but north of the map.
LEMMA PlainTouches ==
    ASSUME NEW x1, NEW y1, NEW x2, NEW y2, IsWalk(x1, y1, x2, y2, 1), options \in Options,
           x2 <= World, NEW t \in expire_line_segment(x1, y1, x2, y2, 1)
    PROVE  \E c, r \in Int :
                /\ t = <<c, r>>
                /\ \/ c \in 0 .. MapWidth /\ PartTouches(x1, y1, x2, y2, 1, c, r)
                   \/ PartStray(y1, y2, 1, r)
<1>1. /\ Unit \in Nat \ {0} /\ World \in Nat /\ MapWidth \in Nat \ {0} /\ World = MapWidth * Unit
      /\ x1 \in Nat /\ x2 \in Nat
    BY MapFacts DEF IsWalk
<1>2. PICK c \in Int, r \in Int :
            /\ t = <<c, r>>
            /\ \/ c \in (x1 \div Unit) .. (x2 \div Unit) /\ PartTouches(x1, y1, x2, y2, 1, c, r)
               \/ PartStray(y1, y2, 1, r)
    BY WalkTouches
<1>3. x1 \div Unit \in Nat /\ x2 \div Unit \in Int
    BY <1>1
<1>4. x2 \div Unit <= MapWidth
  <2>1. x2 < (MapWidth + 1) * Unit
    BY <1>1
  <2> QED
    BY <1>1, <2>1, DivAtMost
<1>5. c \in (x1 \div Unit) .. (x2 \div Unit) => c \in 0 .. MapWidth
    BY <1>1, <1>3, <1>4
<1> QED
    BY <1>2, <1>5

\* A line on the meridian that runs the other way.
LEMMA TurnedPart ==
    ASSUME NEW y1 \in Int, NEW y2 \in Int, NEW c \in Int, NEW r \in Int
    PROVE  /\ PartPasses(0, y1, 0, y2, 1, c, r) => PartPasses(0, y2, 0, y1, 1, c, r)
           /\ PartTouches(0, y1, 0, y2, 1, c, r) => PartTouches(0, y2, 0, y1, 1, c, r)
           /\ PartStray(y1, y2, 1, r) => PartStray(y2, y1, 1, r)
           /\ ~PartNorth(0, y1, 0, y2)
BY DEF PartPasses, PartTouches, PartNorth, PartStray

\* The tiles a line passes are those the code walks over.
LEMMA LineCovers ==
    ASSUME NEW l1, NEW l2, NEW r1, NEW r2, IsLeftRight(l1, l2, r1, r2),
           NEW c \in Columns, NEW r \in Nat,
           Passes(Line(l1, l2, r1, r2), c, r),
           Northward(Line(l1, l2, r1, r2)) => FromTheWest(Line(l1, l2, r1, r2), c, r)
    PROVE  \E k \in Int : <<k, r>> \in Walked(l1, l2, r1, r2) /\ Id(k, r) = Id(Around(c), r)
<1>1. /\ Unit \in Nat \ {0} /\ World \in Nat /\ MapWidth \in Nat \ {0} /\ World \div 2 \in Nat
      /\ l1 \in Int /\ l2 \in Int /\ r1 \in Int /\ r2 \in Int /\ options \in Options
      /\ IsWalk(l1, l2, r1, r2, 1) /\ IsWalk(0, l2, 0, r2, 1) /\ r1 <= World /\ 0 <= World
    BY LeftRightFacts
<1>2. c \in Int /\ c \in -MapWidth .. MapWidth
    BY <1>1 DEF Columns
<1>3. c >= 0 => Id(c, r) = Id(Around(c), r)
    BY <1>1, <1>2, AroundFacts
<1>4. ASSUME ~IsFar(l1, r1) PROVE <<c, r>> \in Walked(l1, l2, r1, r2) /\ c >= 0
  <2>1. Line(l1, l2, r1, r2) = <<<<l1, l2>>, <<r1, r2>>>>
    BY <1>4 DEF Line
  <2>2. PartPasses(l1, l2, r1, r2, 1, c, r)
    BY <1>1, <1>2, <2>1, PassesAsPart
  <2>3. PartNorth(l1, l2, r1, r2) => PartFromWest(l1, l2, r1, r2, 1, c, r)
    BY <1>1, <1>2, <2>1, FromWestAsPart
  <2>4. <<c, r>> \in expire_line_segment(l1, l2, r1, r2, 1) /\ c >= 0
    BY <1>1, <1>2, <2>2, <2>3, PlainCovers
  <2>5. r1 - l1 <= World \div 2
    BY <1>1, <1>4 DEF IsFar
  <2> QED
    BY <2>4, <2>5 DEF Walked
<1>5. ASSUME IsFar(l1, r1)
      PROVE  /\ PartPasses(r1 - World, r2, l1, l2, 1, c, r)
             /\ PartNorth(r1 - World, r2, l1, l2)
                  => PartFromWest(r1 - World, r2, l1, l2, 1, c, r)
             /\ ~(r1 - l1 <= World \div 2)
  <2> DEFINE a1 == r1 - World
  <2>1. Line(l1, l2, r1, r2) = <<<<a1, r2>>, <<l1, l2>>>>
    BY <1>5 DEF Line
  <2>2. a1 \in Int
    BY <1>1
  <2> HIDE DEF a1
  <2>3. PartPasses(a1, r2, l1, l2, 1, c, r)
    BY <1>1, <1>2, <2>1, <2>2, PassesAsPart
  <2>4. PartNorth(a1, r2, l1, l2) => PartFromWest(a1, r2, l1, l2, 1, c, r)
    BY <1>1, <1>2, <2>1, <2>2, FromWestAsPart
  <2>5. ~(r1 - l1 <= World \div 2)
    BY <1>1, <1>5 DEF IsFar
  <2> QED
    BY <2>3, <2>4, <2>5 DEF a1
<1> DEFINE d == World + l1 - r1
           split == SplitAt(l1, l2, r1, r2)
<1>6. ASSUME IsFar(l1, r1), d = 0 PROVE <<c, r>> \in Walked(l1, l2, r1, r2) /\ c >= 0
  <2>1. r1 - World = 0 /\ l1 = 0
    BY <1>6, LeftRightFacts
  <2>2. PartPasses(0, r2, 0, l2, 1, c, r)
    BY <1>5, <1>6, <2>1
  <2>3. PartPasses(0, l2, 0, r2, 1, c, r) /\ ~PartNorth(0, l2, 0, r2)
    BY <1>1, <1>2, <2>2, TurnedPart
  <2>4. <<c, r>> \in expire_line_segment(0, l2, 0, r2, 1) /\ c >= 0
    BY <1>1, <1>2, <2>3, PlainCovers
  <2> QED
    BY <1>5, <1>6, <2>4 DEF Walked
<1>7. ASSUME IsFar(l1, r1), d # 0
      PROVE  \E k \in Int : <<k, r>> \in Walked(l1, l2, r1, r2) /\ Id(k, r) = Id(Around(c), r)
  <2>1. IsSplit(l1, l2, r1, r2, d, split)
    BY <1>7, FarIsSplit
  <2>2. Walked(l1, l2, r1, r2) = expire_line_segment(0, split, l1, l2 * d, d)
                                 \cup expire_line_segment(r1, r2 * d, World, split, d)
    BY <1>5, <1>7 DEF Walked
  <2> HIDE DEF d, split
  <2>3. CASE c >= 0
    <3>1. c \in Nat
      BY <1>2, <2>3
    <3>2. <<c, r>> \in expire_line_segment(0, split, l1, l2 * d, d)
      BY <1>5, <1>7, <2>1, <3>1, EastCovers
    <3> QED
      BY <1>2, <1>3, <2>2, <2>3, <3>2
  <2>4. CASE c < 0
    <3>1. <<c + MapWidth, r>> \in expire_line_segment(r1, r2 * d, World, split, d)
      BY <1>2, <1>5, <1>7, <2>1, <2>4, WestCovers
    <3>2. Around(c) = c + MapWidth /\ c + MapWidth \in Int
      BY <1>1, <1>2, <2>4, AroundFacts
    <3> QED
      BY <2>2, <3>1, <3>2
  <2> QED
    BY <1>2, <2>3, <2>4
<1> QED
    BY <1>2, <1>3, <1>4, <1>6, <1>7

\* A tile that is touched, by its own number or by that of another column,
LEMMA TouchedIsTile ==
    ASSUME NEW a1 \in Int, NEW a2 \in Int, NEW b1 \in Int, NEW b2 \in Int, a1 <= b1,
           options \in Options,
           -Beyond <= a2, -Beyond <= b2, a2 <= World + Beyond, b2 <= World + Beyond,
           NEW c \in Columns, NEW r \in Int, PartTouches(a1, a2, b1, b2, 1, c, r)
    PROVE  <<Around(c), r>> \in TouchedTiles(<<<<a1, a2>>, <<b1, b2>>>>)
<1> DEFINE line == <<<<a1, a2>>, <<b1, b2>>>>
           touched == {s \in Columns \X Rows : Touches(line, s[1], s[2])}
           u == <<c, r>>
<1>1. /\ Unit \in Nat \ {0} /\ World \in Int /\ MapWidth \in Nat \ {0}
      /\ Beyond \in Int /\ c \in Int
    BY MapFacts, WorldAssumption DEF Columns
<1>2. Touches(line, c, r)
    BY <1>1, TouchesAsPart
<1>3. -Beyond <= South(r) * Unit /\ North(r) * Unit <= World + Beyond
  <2> DEFINE low == -Beyond
             high == World + Beyond
  <2>1. low \in Int /\ high \in Int /\ low <= a2 /\ low <= b2 /\ a2 <= high /\ b2 <= high
    BY <1>1
  <2> HIDE DEF low, high
  <2>2. low <= South(r) * Unit /\ North(r) * Unit <= high
    BY <1>1, <2>1, TouchedBetween
  <2> QED
    BY <2>2 DEF low, high
<1>4. r \in Rows
    BY <1>3, RowInRows
<1>5. u \in touched /\ u[1] = c /\ u[2] = r
    BY <1>2, <1>4
<1>6. TouchedTiles(line) = {<<Around(s[1]), s[2]>> : s \in touched}
    BY DEF TouchedTiles
<1> HIDE DEF touched, u, line
<1>7. <<Around(c), r>> \in TouchedTiles(line)
    BY <1>5, <1>6
<1> QED
    BY <1>7 DEF line

\* and one that is only in a row of the line.
LEMMA StrayIsTile ==
    ASSUME NEW a1 \in Int, NEW a2 \in Int, NEW b1 \in Int, NEW b2 \in Int,
           options \in Options,
           -Beyond <= a2, -Beyond <= b2, a2 <= World + Beyond, b2 <= World + Beyond,
           NEW c \in Int, NEW r \in Int, PartStray(a2, b2, 1, r)
    PROVE  \E t \in StrayTiles(<<<<a1, a2>>, <<b1, b2>>>>) : Id(c, r) = Id(t[1], t[2])
<1> DEFINE line == <<<<a1, a2>>, <<b1, b2>>>>
           n == North(r) * Unit
           s == South(r) * Unit
           k == c % MapWidth
           u == <<k, r>>
<1>1. /\ Unit \in Nat \ {0} /\ World \in Int /\ MapWidth \in Nat \ {0} /\ Beyond \in Int
      /\ n \in Int /\ s \in Int
      /\ North(r) * (Unit * 1) = n /\ South(r) * (Unit * 1) = s
  <2>1. /\ Unit \in Nat \ {0} /\ World \in Int /\ MapWidth \in Nat \ {0} /\ Beyond \in Int
    BY MapFacts, WorldAssumption
  <2>2. North(r) \in Int /\ South(r) \in Int /\ n \in Int /\ s \in Int /\ Unit * 1 = Unit
    BY <2>1, NorthSouth
  <2> QED
    BY <2>1, <2>2
<1>2. /\ r <= 0 /\ (a2 < 0 \/ b2 < 0)
      /\ a2 <= s \/ b2 <= s
      /\ a2 >= n \/ b2 >= n
    BY <1>1 DEF PartStray
<1>3. k \in 0 .. MapWidth - 1 /\ Id(c, r) = Id(k, r)
  <2>1. k \in 0 .. MapWidth - 1
    BY <1>1
  <2> QED
    BY <2>1, RemainderId
<1> HIDE DEF n, s, k
<1>4. /\ Least(a2, b2) < 0 /\ Least(a2, b2) <= s /\ Greatest(a2, b2) >= n
      /\ -Beyond <= s /\ n <= World + Beyond
    BY <1>1, <1>2 DEF Least, Greatest
<1>5. r \in Rows
    BY <1>4, RowInRows DEF n, s
<1>6. u \in StrayTiles(line)
  <2>1. line[1][2] = a2 /\ line[2][2] = b2 /\ u[2] = r /\ u \in (0 .. MapWidth - 1) \X Rows
    BY <1>3, <1>5
  <2> HIDE DEF line, u
  <2> QED
    BY <1>2, <1>4, <2>1 DEF StrayTiles, n, s
<1>7. u[1] = k /\ u[2] = r
    OBVIOUS
<1> HIDE DEF u, line
<1>8. \E t \in StrayTiles(line) : Id(c, r) = Id(t[1], t[2])
    BY <1>3, <1>6, <1>7
<1> QED
    BY <1>8 DEF line

\* The code walks over tiles the line touches only, but for those north of the map.
LEMMA LineTouches ==
    ASSUME NEW l1, NEW l2, NEW r1, NEW r2, IsLeftRight(l1, l2, r1, r2),
           NEW t \in Walked(l1, l2, r1, r2)
    PROVE  \E u \in TouchedTiles(Line(l1, l2, r1, r2)) \cup StrayTiles(Line(l1, l2, r1, r2)) :
                Id(t[1], t[2]) = Id(u[1], u[2])
<1> DEFINE line == Line(l1, l2, r1, r2)
           a1 == r1 - World
           Goal == \E u \in TouchedTiles(line) \cup StrayTiles(line) : Id(t[1], t[2]) = Id(u[1], u[2])
<1> SUFFICES Goal
    OBVIOUS
<1>1. /\ Unit \in Nat \ {0} /\ World \in Nat /\ MapWidth \in Nat \ {0} /\ World \div 2 \in Nat
      /\ l1 \in Int /\ l2 \in Int /\ r1 \in Int /\ r2 \in Int /\ options \in Options
      /\ IsWalk(l1, l2, r1, r2, 1) /\ IsWalk(0, l2, 0, r2, 1)
      /\ r1 <= World /\ 0 <= World /\ 0 <= l1 /\ l1 <= r1 /\ Beyond \in Nat
      /\ -Beyond <= l2 /\ -Beyond <= r2 /\ l2 <= World + Beyond /\ r2 <= World + Beyond
    BY LeftRightFacts
<1>2. a1 \in Int /\ a1 <= l1
    BY <1>1
<1> HIDE DEF a1
<1>3. ASSUME NEW x1 \in Int, NEW y1 \in {l2, r2}, NEW x2 \in Int, NEW y2 \in {l2, r2}, x1 <= x2,
             line = <<<<x1, y1>>, <<x2, y2>>>>,
             NEW c \in Columns, NEW k \in Int, NEW r \in Int, t = <<k, r>>,
             Id(k, r) = Id(Around(c), r), PartTouches(x1, y1, x2, y2, 1, c, r)
      PROVE  Goal
  <2>1. y1 \in Int /\ y2 \in Int
    BY <1>1
  <2>2. /\ -Beyond <= y1 /\ -Beyond <= y2 /\ y1 <= World + Beyond /\ y2 <= World + Beyond
    BY <1>1
  <2>3. <<Around(c), r>> \in TouchedTiles(<<<<x1, y1>>, <<x2, y2>>>>)
    BY <1>1, <1>3, <2>1, <2>2, TouchedIsTile
  <2> DEFINE u == <<Around(c), r>>
  <2>4. u \in TouchedTiles(line) /\ u[1] = Around(c) /\ u[2] = r /\ t[1] = k /\ t[2] = r
    BY <1>3, <2>3
  <2> HIDE DEF u, line
  <2> QED
    BY <1>3, <2>4
<1>4. ASSUME NEW x1 \in Int, NEW y1 \in {l2, r2}, NEW x2 \in Int, NEW y2 \in {l2, r2},
             line = <<<<x1, y1>>, <<x2, y2>>>>,
             NEW k \in Int, NEW r \in Int, t = <<k, r>>, PartStray(y1, y2, 1, r)
      PROVE  Goal
  <2>1. y1 \in Int /\ y2 \in Int
    BY <1>1
  <2>2. /\ -Beyond <= y1 /\ -Beyond <= y2 /\ y1 <= World + Beyond /\ y2 <= World + Beyond
    BY <1>1
  <2>3. \E u \in StrayTiles(<<<<x1, y1>>, <<x2, y2>>>>) : Id(k, r) = Id(u[1], u[2])
    BY <1>1, <1>4, <2>1, <2>2, StrayIsTile
  <2>4. t[1] = k /\ t[2] = r
    BY <1>4
  <2> HIDE DEF line
  <2> QED
    BY <1>4, <2>3, <2>4
<1>5. \A r : \A c \in 0 .. MapWidth : c \in Columns /\ c \in Int /\ Id(c, r) = Id(Around(c), r)
  <2>1. TAKE r
  <2> TAKE c \in 0 .. MapWidth
  <2>2. c \in -MapWidth .. MapWidth /\ c >= 0 /\ c \in Int
    BY <1>1
  <2> QED
    BY <1>1, <2>2, AroundFacts DEF Columns
<1> DEFINE d == World + l1 - r1
           split == SplitAt(l1, l2, r1, r2)
<1>6. IsFar(l1, r1) => line = <<<<a1, r2>>, <<l1, l2>>>> /\ ~(r1 - l1 <= World \div 2)
    BY <1>1 DEF Line, IsFar, a1
<1>7. ~IsFar(l1, r1) => line = <<<<l1, l2>>, <<r1, r2>>>> /\ r1 - l1 <= World \div 2
    BY <1>1 DEF Line, IsFar
<1> HIDE DEF line, Goal
<1>8. CASE ~IsFar(l1, r1)
  <2>1. t \in expire_line_segment(l1, l2, r1, r2, 1)
    BY <1>7, <1>8 DEF Walked
  <2>2. PICK c \in Int, r \in Int :
            /\ t = <<c, r>>
            /\ \/ c \in 0 .. MapWidth /\ PartTouches(l1, l2, r1, r2, 1, c, r)
               \/ PartStray(l2, r2, 1, r)
    BY <1>1, <2>1, PlainTouches
  <2>3. CASE PartStray(l2, r2, 1, r)
    BY <1>1, <1>4, <1>7, <1>8, <2>2, <2>3
  <2>4. CASE c \in 0 .. MapWidth /\ PartTouches(l1, l2, r1, r2, 1, c, r)
    <3>1. c \in Columns /\ Id(c, r) = Id(Around(c), r)
      BY <1>5, <2>4
    <3> QED
      BY <1>1, <1>3, <1>7, <1>8, <2>2, <2>4, <3>1
  <2> QED
    BY <2>2, <2>3, <2>4
<1>9. CASE IsFar(l1, r1) /\ d = 0
  <2>1. a1 = 0 /\ l1 = 0
    BY <1>1, <1>9 DEF a1
  <2>2. t \in expire_line_segment(0, l2, 0, r2, 1)
    BY <1>6, <1>9 DEF Walked
  <2>3. PICK c \in Int, r \in Int :
            /\ t = <<c, r>>
            /\ \/ c \in 0 .. MapWidth /\ PartTouches(0, l2, 0, r2, 1, c, r)
               \/ PartStray(l2, r2, 1, r)
    BY <1>1, <2>2, PlainTouches
  <2>4. line = <<<<0, r2>>, <<0, l2>>>>
    BY <1>6, <1>9, <2>1
  <2>5. CASE PartStray(l2, r2, 1, r)
    <3>1. PartStray(r2, l2, 1, r)
      BY <1>1, <2>5, TurnedPart
    <3> QED
      BY <1>4, <2>3, <2>4, <3>1
  <2>6. CASE c \in 0 .. MapWidth /\ PartTouches(0, l2, 0, r2, 1, c, r)
    <3>1. c \in Columns /\ Id(c, r) = Id(Around(c), r)
      BY <1>5, <2>6
    <3>2. PartTouches(0, r2, 0, l2, 1, c, r)
      BY <1>1, <2>6, TurnedPart
    <3> QED
      BY <1>3, <2>3, <2>4, <3>1, <3>2
  <2> QED
    BY <2>3, <2>5, <2>6
<1>10. CASE IsFar(l1, r1) /\ d # 0
  <2>1. IsSplit(l1, l2, r1, r2, d, split)
    BY <1>10, FarIsSplit
  <2>2. t \in expire_line_segment(0, split, l1, l2 * d, d)
             \cup expire_line_segment(r1, r2 * d, World, split, d)
    BY <1>6, <1>10 DEF Walked
  <2> HIDE DEF d, split
  <2>3. CASE t \in expire_line_segment(0, split, l1, l2 * d, d)
    <3>1. PICK c \in Int, r \in Int :
              /\ t = <<c, r>>
              /\ \/ c \in 0 .. MapWidth /\ PartTouches(a1, r2, l1, l2, 1, c, r)
                 \/ PartStray(r2, l2, 1, r)
      BY <2>1, <2>3, EastTouches DEF a1
    <3>2. CASE PartStray(r2, l2, 1, r)
      BY <1>1, <1>2, <1>4, <1>6, <1>10, <3>1, <3>2
    <3>3. CASE c \in 0 .. MapWidth /\ PartTouches(a1, r2, l1, l2, 1, c, r)
      <4>1. c \in Columns /\ Id(c, r) = Id(Around(c), r)
        BY <1>5, <3>3
      <4> QED
        BY <1>1, <1>2, <1>3, <1>6, <1>10, <3>1, <3>3, <4>1
    <3> QED
      BY <3>1, <3>2, <3>3
  <2>4. CASE t \in expire_line_segment(r1, r2 * d, World, split, d)
    <3>1. PICK c \in Int, r \in Int :
              /\ t = <<c + MapWidth, r>>
              /\ \/ c \in -MapWidth .. 0 /\ PartTouches(a1, r2, l1, l2, 1, c, r)
                 \/ PartStray(r2, l2, 1, r)
      BY <2>1, <2>4, WestTouches DEF a1
    <3>2. c + MapWidth \in Int
      BY <1>1
    <3>3. CASE PartStray(r2, l2, 1, r)
      BY <1>1, <1>2, <1>4, <1>6, <1>10, <3>1, <3>2, <3>3
    <3>4. CASE c \in -MapWidth .. 0 /\ PartTouches(a1, r2, l1, l2, 1, c, r)
      <4>1. c \in -MapWidth .. MapWidth
        BY <1>1, <3>4
      <4>2. Id(c + MapWidth, r) = Id(Around(c), r)
        <5>1. CASE c < 0
          BY <1>1, <4>1, <5>1, AroundFacts
        <5>2. CASE c = 0
          <6>1. c + MapWidth = MapWidth /\ MapWidth \in 0 .. MapWidth
            BY <1>1, <5>2
          <6>2. Id(MapWidth, r) = Id(Around(MapWidth), r)
            BY <1>5, <6>1
          <6>3. Around(MapWidth) = 0 /\ Around(c) = 0
            BY <1>1, <5>2 DEF Around
          <6> QED
            BY <6>1, <6>2, <6>3
        <5>3. c < 0 \/ c = 0
          BY <3>4
        <5> QED
          BY <5>1, <5>2, <5>3
      <4>3. c \in Columns
        BY <4>1 DEF Columns
      <4> QED
        BY <1>1, <1>2, <1>3, <1>6, <1>10, <3>1, <3>2, <3>4, <4>2, <4>3
    <3> QED
      BY <3>1, <3>3, <3>4
  <2> QED
    BY <2>2, <2>3, <2>4
<1> QED
    BY <1>8, <1>9, <1>10

-----------------------------------------------------------------------------
(* Places.                                                                   *)

\* coords_to_tile() limits rows, though not to those of the map.
LEMMA PlaceOnMap ==
    ASSUME NEW p \in Grid
    PROVE  \E x \in 0 .. World, y \in -Beyond .. World + Beyond : coords_to_tile(p) = <<x, y>>
<1>1. World \in Nat /\ Beyond \in Nat
    BY WorldAssumption
<1>2. p[1] \in 0 .. World /\ p[2] \in Int
    BY DEF Grid
<1>3. Greatest(-Beyond, Least(p[2], World + Beyond)) \in -Beyond .. World + Beyond
    BY <1>1, <1>2 DEF Greatest, Least
<1> QED
    BY <1>2, <1>3 DEF coords_to_tile

\* expire_line_segment_180secure() orders the ends of a segment as WestEast does.
LEMMA EndsOf ==
    ASSUME options \in Options, NEW p \in Grid, NEW q \in Grid
    PROVE  \E l1, l2, r1, r2 :
             /\ IsLeftRight(l1, l2, r1, r2)
             /\ expire_line_segment_180secure(p, q) = Walked(l1, l2, r1, r2)
             /\ WestEast(p, q) = Line(l1, l2, r1, r2)
<1>1. World \in Nat
    BY MapFacts
<1>2. PICK a1 \in 0 .. World, a2 \in -Beyond .. World + Beyond : coords_to_tile(p) = <<a1, a2>>
    BY PlaceOnMap
<1>3. PICK b1 \in 0 .. World, b2 \in -Beyond .. World + Beyond : coords_to_tile(q) = <<b1, b2>>
    BY PlaceOnMap
<1>4. <<a1, a2>>[1] = a1 /\ <<a1, a2>>[2] = a2 /\ <<b1, b2>>[1] = b1 /\ <<b1, b2>>[2] = b2
    OBVIOUS
<1>5. CASE a1 > b1
  <2>1. IsLeftRight(b1, b2, a1, a2)
    BY <1>1, <1>5 DEF IsLeftRight
  <2>2. expire_line_segment_180secure(p, q) = Walked(b1, b2, a1, a2)
    BY <1>2, <1>3, <1>4, <1>5 DEF expire_line_segment_180secure, Walked, SplitAt
  <2>3. WestEast(p, q) = Line(b1, b2, a1, a2)
    BY <1>2, <1>3, <1>4, <1>5 DEF WestEast, Line, IsFar
  <2> QED
    BY <2>1, <2>2, <2>3
<1>6. CASE ~(a1 > b1)
  <2>1. IsLeftRight(a1, a2, b1, b2)
    BY <1>1, <1>6 DEF IsLeftRight
  <2>2. expire_line_segment_180secure(p, q) = Walked(a1, a2, b1, b2)
    BY <1>2, <1>3, <1>4, <1>6 DEF expire_line_segment_180secure, Walked, SplitAt
  <2>3. WestEast(p, q) = Line(a1, a2, b1, b2)
    BY <1>2, <1>3, <1>4, <1>6 DEF WestEast, Line, IsFar
  <2> QED
    BY <2>1, <2>2, <2>3
<1> QED
    BY <1>5, <1>6

\* For any two places: all due tiles of a segment are expired,
LEMMA SegmentCovered ==
    ASSUME options \in Options, NEW p \in Grid, NEW q \in Grid
    PROVE  IdsOf(DueTiles(WestEast(p, q))) \subseteq IdsOf(expire_line_segment_180secure(p, q))
<1>1. PICK l1, l2, r1, r2 :
         /\ IsLeftRight(l1, l2, r1, r2)
         /\ expire_line_segment_180secure(p, q) = Walked(l1, l2, r1, r2)
         /\ WestEast(p, q) = Line(l1, l2, r1, r2)
    BY EndsOf
<1>2. MapWidth \in Nat
    BY MapFacts
<1>3. SUFFICES ASSUME NEW c \in Columns, NEW r \in 0 .. MapWidth - 1,
                      Passes(Line(l1, l2, r1, r2), c, r),
                      Northward(Line(l1, l2, r1, r2))
                        => FromTheWest(Line(l1, l2, r1, r2), c, r)
               PROVE  Id(Around(c), r) \in IdsOf(Walked(l1, l2, r1, r2))
    BY <1>1 DEF IdsOf, DueTiles, Id
<1>4. r \in Nat
    BY <1>2
<1>5. PICK k \in Int : <<k, r>> \in Walked(l1, l2, r1, r2) /\ Id(k, r) = Id(Around(c), r)
    BY <1>1, <1>3, <1>4, LineCovers
<1> QED
    BY <1>5 DEF IdsOf, Id

\* and none that it does not touch, but north of the map.
LEMMA SegmentTouched ==
    ASSUME options \in Options, NEW p \in Grid, NEW q \in Grid
    PROVE  IdsOf(expire_line_segment_180secure(p, q))
             \subseteq IdsOf(TouchedTiles(WestEast(p, q)) \cup StrayTiles(WestEast(p, q)))
<1>1. PICK l1, l2, r1, r2 :
         /\ IsLeftRight(l1, l2, r1, r2)
         /\ expire_line_segment_180secure(p, q) = Walked(l1, l2, r1, r2)
         /\ WestEast(p, q) = Line(l1, l2, r1, r2)
    BY EndsOf
<1> DEFINE touched == TouchedTiles(Line(l1, l2, r1, r2)) \cup StrayTiles(Line(l1, l2, r1, r2))
<1>2. SUFFICES ASSUME NEW t \in Walked(l1, l2, r1, r2)
               PROVE  Id(t[1], t[2]) \in IdsOf(touched)
    BY <1>1 DEF IdsOf, Id
<1>3. PICK u \in touched : Id(t[1], t[2]) = Id(u[1], u[2])
    BY <1>1, <1>2, LineTouches
<1> HIDE DEF touched
<1> QED
    BY <1>3 DEF IdsOf, Id

\* The tile of a place.
LEMMA PointTile ==
    ASSUME options \in Options, NEW p \in Grid
    PROVE  expire_from_point(p)
             = {<<Around(coords_to_tile(p)[1] \div Unit), Trunc(coords_to_tile(p)[2], Unit)>>}
<1>1. Unit \in Nat \ {0} /\ MapWidth \in Nat \ {0}
    BY MapFacts
<1>2. PICK x \in 0 .. World, y \in -Beyond .. World + Beyond : coords_to_tile(p) = <<x, y>>
    BY PlaceOnMap
<1>3. x \div Unit \in Nat
  <2>1. x \in Nat
    BY MapFacts
  <2> QED
    BY <1>1, <2>1
<1>4. \A n \in Nat : normalise_tile_x_coord(n) = Around(n)
    BY <1>1 DEF normalise_tile_x_coord, Around
<1>5. coords_to_tile(p)[1] = x
    BY <1>2
<1> QED
    BY <1>3, <1>4, <1>5 DEF expire_from_point

\* The tiles of all nodes of a line, those of the map and others.
LEMMA NodeTiles ==
    ASSUME options \in Options, NEW line \in Seq(Grid)
    PROVE  /\ expire_nodes_of(line) = TilesAt(line, Int)
           /\ TilesAt(line, OnMap) \subseteq TilesAt(line, Int)
<1> DEFINE tile(q) == <<Around(q[1] \div Unit), Trunc(q[2], Unit)>>
           places == {coords_to_tile(line[i]) : i \in DOMAIN line}
<1>1. \A i \in DOMAIN line : line[i] \in Grid
    OBVIOUS
<1>2. \A i \in DOMAIN line : expire_from_point(line[i]) = {tile(coords_to_tile(line[i]))}
    BY <1>1, PointTile
<1>3. \A q \in places : q[2] \in Int
  <2>1. SUFFICES ASSUME NEW i \in DOMAIN line PROVE coords_to_tile(line[i])[2] \in Int
    OBVIOUS
  <2>2. PICK x \in 0 .. World, y \in -Beyond .. World + Beyond : coords_to_tile(line[i]) = <<x, y>>
    BY <1>1, PlaceOnMap
  <2>3. y \in Int
    BY WorldAssumption
  <2> QED
    BY <2>2, <2>3
<1>4. expire_nodes_of(line) = {tile(q) : q \in places}
  <2> HIDE DEF tile
  <2> QED
    BY <1>2 DEF expire_nodes_of
<1>5. \A rows : TilesAt(line, rows) = {tile(q) : q \in {e \in places : e[2] \in rows}}
    BY DEF TilesAt
<1> HIDE DEF tile, places
<1>6. {e \in places : e[2] \in Int} = places
    BY <1>3
<1>7. expire_nodes_of(line) = TilesAt(line, Int)
    BY <1>4, <1>5, <1>6
<1>8. {e \in places : e[2] \in OnMap} \subseteq places
    OBVIOUS
<1> QED
    BY <1>5, <1>6, <1>7, <1>8

-----------------------------------------------------------------------------
(* Geometries.                                                               *)

\* The tiles that a segment allows to be expired, and those of a line.
Both(s) == TouchedTiles(s) \cup StrayTiles(s)
Touched(line) == UNION {Both(s) : s \in Segments(line)}

\* Both of all segments of a line.
LEMMA LineTiles ==
    ASSUME options \in Options, NEW line \in Seq(Grid)
    PROVE  /\ IdsOf(UNION {DueTiles(s) : s \in Segments(line)})
                \subseteq IdsOf(expire_from_coordinates(line))
           /\ IdsOf(expire_from_coordinates(line))
                \subseteq IdsOf(TilesAt(line, Int) \cup Touched(line))
<1> DEFINE I == 1 .. Len(line) - 1
           walked == UNION {expire_line_segment_180secure(line[i], line[i + 1]) : i \in I}
<1>1. Len(line) \in Nat /\ DOMAIN line = 1 .. Len(line)
    OBVIOUS
<1>2. \A i \in I : line[i] \in Grid /\ line[i + 1] \in Grid
  <2> TAKE i \in I
  <2>1. i \in 1 .. Len(line) /\ i + 1 \in 1 .. Len(line)
    BY <1>1
  <2> QED
    BY <1>1, <2>1
<1>3. Segments(line) = {WestEast(line[i], line[i + 1]) : i \in I}
    BY DEF Segments
<1>4. walked \subseteq expire_from_coordinates(line)
    BY DEF expire_from_coordinates
<1>5. expire_from_coordinates(line) \subseteq TilesAt(line, Int) \cup walked
  <2>1. expire_nodes_of(line) = TilesAt(line, Int)
    BY NodeTiles
  <2> QED
    BY <2>1 DEF expire_from_coordinates
<1> HIDE DEF I
<1>6. IdsOf(UNION {DueTiles(s) : s \in Segments(line)}) \subseteq IdsOf(walked)
  <2>1. SUFFICES ASSUME NEW i \in I, NEW t \in DueTiles(WestEast(line[i], line[i + 1]))
                 PROVE  Id(t[1], t[2]) \in IdsOf(walked)
    BY <1>3 DEF IdsOf, Id
  <2>2. IdsOf(DueTiles(WestEast(line[i], line[i + 1])))
          \subseteq IdsOf(expire_line_segment_180secure(line[i], line[i + 1]))
    BY <1>2, SegmentCovered
  <2>3. Id(t[1], t[2]) \in IdsOf(DueTiles(WestEast(line[i], line[i + 1])))
    BY <2>1 DEF IdsOf, Id
  <2>4. Id(t[1], t[2]) \in IdsOf(expire_line_segment_180secure(line[i], line[i + 1]))
    BY <2>2, <2>3
  <2>5. expire_line_segment_180secure(line[i], line[i + 1]) \subseteq walked
    OBVIOUS
  <2> HIDE DEF walked
  <2> QED
    BY <2>4, <2>5 DEF IdsOf
<1>7. IdsOf(walked) \subseteq IdsOf(Touched(line))
  <2>1. SUFFICES ASSUME NEW i \in I,
                        NEW t \in expire_line_segment_180secure(line[i], line[i + 1])
                 PROVE  Id(t[1], t[2]) \in IdsOf(Touched(line))
    BY DEF IdsOf, Id
  <2>2. IdsOf(expire_line_segment_180secure(line[i], line[i + 1]))
          \subseteq IdsOf(Both(WestEast(line[i], line[i + 1])))
    BY <1>2, SegmentTouched DEF Both
  <2>3. Id(t[1], t[2]) \in IdsOf(expire_line_segment_180secure(line[i], line[i + 1]))
    BY <2>1 DEF IdsOf, Id
  <2>4. Id(t[1], t[2]) \in IdsOf(Both(WestEast(line[i], line[i + 1])))
    BY <2>2, <2>3
  <2>5. WestEast(line[i], line[i + 1]) \in Segments(line)
    BY <1>3
  <2>6. Both(WestEast(line[i], line[i + 1]))
          \subseteq Touched(line)
    BY <2>5 DEF Touched
  <2> QED
    BY <2>4, <2>6 DEF IdsOf
<1> HIDE DEF walked
<1>8. \A A, B : /\ A \subseteq B => IdsOf(A) \subseteq IdsOf(B)
                /\ IdsOf(A \cup B) = IdsOf(A) \cup IdsOf(B)
    BY DEF IdsOf
<1>9. IdsOf(walked) \subseteq IdsOf(expire_from_coordinates(line))
    BY <1>4, <1>8
<1>10. IdsOf(expire_from_coordinates(line)) \subseteq IdsOf(TilesAt(line, Int)) \cup IdsOf(walked)
  <2> DEFINE at == TilesAt(line, Int)
  <2>1. expire_from_coordinates(line) \subseteq at \cup walked
    BY <1>5
  <2> HIDE DEF at
  <2>2. IdsOf(at \cup walked) = IdsOf(at) \cup IdsOf(walked)
    BY <1>8
  <2>3. IdsOf(expire_from_coordinates(line)) \subseteq IdsOf(at \cup walked)
    BY <1>8, <2>1
  <2> QED
    BY <2>2, <2>3 DEF at
<1>11. IdsOf(TilesAt(line, Int) \cup Touched(line))
         = IdsOf(TilesAt(line, Int)) \cup IdsOf(Touched(line))
    BY <1>8
<1> QED
    BY <1>6, <1>7, <1>9, <1>10, <1>11

\* A geometry of the history.
Geometry(kind, geometry) == [kind |-> kind, nodes |-> geometry]

\* Does a set of tiles suit a geometry?
Suits(tiles, g) ==
    IdsOf(Due(g)) \subseteq IdsOf(tiles) /\ IdsOf(tiles) \subseteq IdsOf(Allowed(g))

\* Each action expires what suits its geometry.
LEMMA NodeSuits ==
    ASSUME options \in Options, NEW p \in Nodes
    PROVE  Suits(expire_from_point(p), Geometry("node", <<p>>))
<1>1. p \in Grid /\ <<p>> \in Seq(Grid) /\ DOMAIN <<p>> = {1} /\ <<p>>[1] = p
    BY PlacesAssumption
<1>2. expire_nodes_of(<<p>>) = expire_from_point(p)
    BY <1>1 DEF expire_nodes_of
<1>3. expire_from_point(p) = TilesAt(<<p>>, Int)
    BY <1>1, <1>2, NodeTiles
<1>4. Due(Geometry("node", <<p>>)) \subseteq TilesAt(<<p>>, Int)
    BY <1>1, NodeTiles DEF Due, Geometry
<1>5. TilesAt(<<p>>, Int) \subseteq Allowed(Geometry("node", <<p>>))
    BY DEF Allowed, Geometry
<1> QED
    BY <1>3, <1>4, <1>5 DEF Suits, IdsOf

\* A way of the diff: its nodes if it is long.
LEMMA WaySuits ==
    ASSUME options \in Options, NEW l \in Lines
    PROVE  Suits(expire_from_node_refs(l), Geometry("way", l))
<1>1. l \in Seq(Grid)
    BY PlacesAssumption
<1>2. expire_from_node_refs(l) = IF IsLong(l) THEN TilesAt(l, Int) ELSE {}
    BY <1>1, NodeTiles DEF expire_from_node_refs
<1>3. Due(Geometry("way", l)) \subseteq IF IsLong(l) THEN TilesAt(l, Int) ELSE {}
    BY <1>1, NodeTiles DEF Due, Geometry
<1>4. TilesAt(l, Int) \subseteq Allowed(Geometry("way", l))
    BY DEF Allowed, Geometry
<1> QED
    BY <1>2, <1>3, <1>4 DEF Suits, IdsOf

\* A way before the diff: its line, and its nodes if it is long.
LEMMA OldWaySuits ==
    ASSUME options \in Options, NEW l \in Lines
    PROVE  Suits(expire_from_coordinates(l), Geometry("old_way", l))
<1> DEFINE g == Geometry("old_way", l)
           due == UNION {DueTiles(s) : s \in Segments(l)}
           long == IF IsLong(l) THEN TilesAt(l, OnMap) ELSE {}
           tiles == expire_from_coordinates(l)
<1>1. l \in Seq(Grid)
    BY PlacesAssumption
<1>2. IdsOf(due) \subseteq IdsOf(tiles)
    BY <1>1, LineTiles
<1>3. IdsOf(tiles) \subseteq IdsOf(Allowed(g))
  <2>1. Allowed(g) = TilesAt(l, Int) \cup Touched(l)
    BY DEF Allowed, Geometry, Touched, Both
  <2> QED
    BY <1>1, <2>1, LineTiles
<1>4. long \subseteq tiles
    BY <1>1, NodeTiles DEF expire_from_coordinates
<1>5. Due(g) = due \cup long
    BY DEF Due, Geometry
<1> HIDE DEF g, due, long, tiles
<1>6. IdsOf(Due(g)) \subseteq IdsOf(tiles)
    BY <1>2, <1>4, <1>5 DEF IdsOf
<1> QED
    BY <1>3, <1>6 DEF Suits, g, tiles

\* What is left out asks for nothing.
LEMMA NothingSuits ==
    ASSUME NEW l, NEW kind \in {"none", "relation_way"}
    PROVE  Suits({}, Geometry(kind, l))
BY DEF Suits, Geometry, Due, Allowed, IdsOf

\* The invariant: both properties hold of a configuration that does not change.
TilesInv == options \in Options /\ PassedTilesExpired /\ OnlyTouchedTilesExpired

\* What the geometries ask for depends on the configuration alone.
LEMMA SameTiles ==
    ASSUME options' = options
    PROVE  \A g : IdsOf(Due(g))' = IdsOf(Due(g)) /\ IdsOf(Allowed(g))' = IdsOf(Allowed(g))
<1>1. Zoom' = Zoom /\ MapWidth' = MapWidth
    BY DEF Zoom, MapWidth
<1>2. Unit' = Unit
    BY <1>1 DEF Unit
<1>3. \A s : TouchedTiles(s)' = TouchedTiles(s)
    BY <1>1, <1>2 DEF TouchedTiles, Columns, Rows, Around, Touches, RowsIn
<1>4. \A s : StrayTiles(s)' = StrayTiles(s)
    BY <1>1, <1>2 DEF StrayTiles, Rows
<1>5. \A s : DueTiles(s)' = DueTiles(s)
    BY <1>1, <1>2 DEF DueTiles, Columns, Around, Passes, RowsIn, Northward, FromTheWest
<1>6. \A l, rows : TilesAt(l, rows)' = TilesAt(l, rows)
    BY <1>1, <1>2 DEF TilesAt, Around
<1>7. \A t : IdsOf(t)' = IdsOf(t)
    BY <1>1 DEF IdsOf
<1>8. TAKE g
<1>9. Due(g)' = Due(g)
    BY <1>5, <1>6 DEF Due
<1>10. Allowed(g)' = Allowed(g)
    BY <1>3, <1>4, <1>6 DEF Allowed
<1> QED
    BY <1>1, <1>9, <1>10 DEF IdsOf

\* One geometry more, with tiles that suit it.
LEMMA ExpireKeeps ==
    ASSUME TilesInv, options' = options, NEW tiles, NEW g, Suits(tiles, g),
           dirty' = dirty \cup IdsOf(tiles), done' = done \cup {g}
    PROVE  TilesInv'
<1>1. options' \in Options
    BY DEF TilesInv
<1>2. \A h : IdsOf(Due(h))' = IdsOf(Due(h)) /\ IdsOf(Allowed(h))' = IdsOf(Allowed(h))
    BY SameTiles
<1>3. PassedTilesExpired'
  <2>1. \A h \in done : IdsOf(Due(h)) \subseteq dirty
    BY DEF TilesInv, PassedTilesExpired
  <2>2. \A h \in done' : IdsOf(Due(h)) \subseteq dirty'
    BY <2>1 DEF Suits
  <2> QED
    BY <1>2, <2>2 DEF PassedTilesExpired
<1>4. OnlyTouchedTilesExpired'
  <2>1. dirty \subseteq UNION {IdsOf(Allowed(h)) : h \in done}
    BY DEF TilesInv, OnlyTouchedTilesExpired
  <2>2. dirty' \subseteq UNION {IdsOf(Allowed(h)) : h \in done'}
    BY <2>1 DEF Suits
  <2> QED
    BY <1>2, <2>2 DEF OnlyTouchedTilesExpired
<1> QED
    BY <1>1, <1>3, <1>4 DEF TilesInv

\* Nothing is expired in the beginning,
LEMMA TilesInit == Init => TilesInv
BY DEF Init, TilesInv, PassedTilesExpired, OnlyTouchedTilesExpired

\* and every action keeps the invariant.
LEMMA TilesStep == TilesInv /\ [Next]_vars => TilesInv'
<1> SUFFICES ASSUME TilesInv, [Next]_vars PROVE TilesInv'
    OBVIOUS
<1>1. options \in Options
    BY DEF TilesInv
<1>2. \A kind, nodes, tiles :
        Expire(kind, nodes, tiles) /\ Suits(tiles, Geometry(kind, nodes)) => TilesInv'
  <2>1. SUFFICES ASSUME NEW kind, NEW nodes, NEW tiles, Expire(kind, nodes, tiles),
                        Suits(tiles, Geometry(kind, nodes))
                 PROVE  TilesInv'
    OBVIOUS
  <2>2. /\ options' = options /\ dirty' = dirty \cup IdsOf(tiles)
        /\ done' = done \cup {Geometry(kind, nodes)}
    BY <2>1 DEF Expire, expire_tile, IdsOf, Geometry
  <2> QED
    BY <2>1, <2>2, ExpireKeeps
<1>3. CASE ExpireNode
    BY <1>1, <1>2, <1>3, NodeSuits DEF ExpireNode
<1>4. CASE ExpireOldWay
    BY <1>1, <1>2, <1>4, OldWaySuits DEF ExpireOldWay
<1>5. CASE ExpireWay
    BY <1>1, <1>2, <1>5, WaySuits DEF ExpireWay
<1>6. CASE ExpireRelationNode
  <2>1. PICK p \in Nodes, route \in BOOLEAN :
          Expire(IF expire_this_relation(route) THEN "node" ELSE "none", <<p>>,
                 IF expire_this_relation(route) THEN expire_from_point(p) ELSE {})
    BY <1>6 DEF ExpireRelationNode
  <2>2. CASE expire_this_relation(route)
    BY <1>1, <1>2, <2>1, <2>2, NodeSuits
  <2>3. CASE ~expire_this_relation(route)
    BY <1>2, <2>1, <2>3, NothingSuits
  <2> QED
    BY <2>2, <2>3
<1>7. CASE ExpireRelationWay
  <2>1. PICK l \in Lines :
          /\ done' = done \cup {Geometry("relation_way", l)}
          /\ options' = options /\ dirty' = dirty
    BY <1>7 DEF ExpireRelationWay, Geometry
  <2>2. dirty' = dirty \cup IdsOf({})
    BY <2>1 DEF IdsOf
  <2>3. Suits({}, Geometry("relation_way", l))
    BY NothingSuits
  <2> QED
    BY <2>1, <2>2, <2>3, ExpireKeeps
<1>8. ASSUME options' = options, dirty' = dirty, done' = done PROVE TilesInv'
    BY <1>8, SameTiles DEF TilesInv, PassedTilesExpired, OnlyTouchedTilesExpired
<1>9. CASE OutputAndDestroy
    BY <1>8, <1>9 DEF OutputAndDestroy
<1>10. CASE UNCHANGED vars
    BY <1>8, <1>10 DEF vars
<1> QED
    BY <1>3, <1>4, <1>5, <1>6, <1>7, <1>9, <1>10 DEF Next

\* The expiry misses no tile: after any geometries that the two handlers of a diff
\* hand over, m_dirty_tiles has the ids of all tiles of the map they pass, for every
\* map, line and width of int and zoom levels up to half of this width, also over the
\* 180th meridian and where lines leave the map; of a segment that runs to the north,
\* of those it does not enter over their southern border.
THEOREM PassedTiles == Spec => []PassedTilesExpired
<1>1. TilesInv => PassedTilesExpired
    BY DEF TilesInv
<1> QED
    BY <1>1, TilesInit, TilesStep, PTL DEF Spec

\* The expiry adds no tile that no geometry touches, at zoom levels up to half of the
\* width of int: neither rounding nor swapped ends nor the split at the 180th meridian
\* lead expire_line_segment() away from a line on the map, and nothing is expired for
\* relations that are left out.  Geometries that leave the map near the poles expire
\* the tiles whose numbers have the low bits of the rows they touch there, and those
\* of StrayTiles; nothing else.
THEOREM OnlyTouchedTiles == Spec => []OnlyTouchedTilesExpired
<1>1. TilesInv => OnlyTouchedTilesExpired
    BY DEF TilesInv
<1> QED
    BY <1>1, TilesInit, TilesStep, PTL DEF Spec

-----------------------------------------------------------------------------
(* Sums.                                                                    *)

\* The sum of the numbers f[s] over the parts of a set S, one number at a time, as
\* MapThenSumSet computes it; Total is that of the whole set.
SumOver(f, S, h) ==
    h = [s \in SUBSET S |-> IF s = {} THEN 0 ELSE f[Chosen(s)] + h[s \ {Chosen(s)}]]
Total(f, S) == (CHOOSE h : SumOver(f, S, h))[S]

\* The parts of a set with up to n elements, and sums over them.
SmallParts(S, n) == {s \in SUBSET S : Cardinality(s) <= n}
SumUpTo(f, S, n, h) ==
    h = [s \in SmallParts(S, n) |-> IF s = {} THEN 0 ELSE f[Chosen(s)] + h[s \ {Chosen(s)}]]

\* Parts of a finite set are finite, and each element counts one.
LEMMA PartSizes ==
    ASSUME NEW S, IsFiniteSet(S)
    PROVE  /\ Cardinality(S) \in Nat
           /\ \A s \in SUBSET S : /\ IsFiniteSet(s) /\ Cardinality(s) \in Nat
                                  /\ Cardinality(s) <= Cardinality(S)
                                  /\ Cardinality(s) = 0 => s = {}
           /\ \A s \in SUBSET S : \A a \in s :
                    Cardinality(s \ {a}) = Cardinality(s) - 1 /\ Cardinality(s) > 0
           /\ \A s \in SUBSET S : s # {} => Chosen(s) \in s
<1>1. Cardinality(S) \in Nat
    BY FS_CardinalityType
<1>2. \A s \in SUBSET S : /\ IsFiniteSet(s) /\ Cardinality(s) \in Nat
                          /\ Cardinality(s) <= Cardinality(S)
    BY FS_Subset, FS_CardinalityType
<1>3. \A s \in SUBSET S : Cardinality(s) = 0 => s = {}
    BY <1>2, FS_EmptySet
<1>4. \A s \in SUBSET S : \A a \in s :
        Cardinality(s \ {a}) = Cardinality(s) - 1 /\ Cardinality(s) > 0
  <2> TAKE s \in SUBSET S
  <2> TAKE a \in s
  <2>1. Cardinality(s \ {a}) = Cardinality(s) - 1
    BY <1>2, FS_RemoveElement
  <2>2. Cardinality(s) # 0
    BY <1>3
  <2> QED
    BY <1>2, <2>1, <2>2
<1>5. \A s \in SUBSET S : s # {} => Chosen(s) \in s
    BY DEF Chosen
<1> QED
    BY <1>1, <1>2, <1>3, <1>4, <1>5

\* Sums are defined up to any number of elements, by the least counterexample,
LEMMA SumsUpTo ==
    ASSUME NEW f, NEW S, IsFiniteSet(S)
    PROVE  \A n \in Nat : \E h : SumUpTo(f, S, n, h)
<1> DEFINE Has(n) == \E h : SumUpTo(f, S, n, h)
           bad == {n \in Nat : ~Has(n)}
<1>1. SUFFICES ASSUME bad # {} PROVE FALSE
    OBVIOUS
<1>2. PICK n \in bad : \A m \in bad : n <= m
    BY <1>1, LeastOf
<1>3. n \in Nat /\ ~Has(n)
    OBVIOUS
<1>4. CASE n = 0
  <2> DEFINE h == [s \in SmallParts(S, 0) |-> 0]
  <2>1. \A s \in SmallParts(S, 0) : s = {}
    BY PartSizes DEF SmallParts
  <2>2. SumUpTo(f, S, 0, h)
    BY <2>1 DEF SumUpTo
  <2> QED
    BY <1>3, <1>4, <2>2
<1>5. CASE n # 0
  <2>1. n - 1 \in Nat /\ n - 1 \notin bad
    BY <1>2, <1>3, <1>5
  <2>2. PICK g : SumUpTo(f, S, n - 1, g)
    BY <2>1
  <2> DEFINE h == [s \in SmallParts(S, n) |->
                    IF s = {} THEN 0 ELSE f[Chosen(s)] + g[s \ {Chosen(s)}]]
  <2>3. \A s \in SmallParts(S, n - 1) : h[s] = g[s]
    <3> TAKE s \in SmallParts(S, n - 1)
    <3>1. s \in SmallParts(S, n)
      BY <1>3, PartSizes DEF SmallParts
    <3>2. g[s] = IF s = {} THEN 0 ELSE f[Chosen(s)] + g[s \ {Chosen(s)}]
      BY <2>2 DEF SumUpTo
    <3> QED
      BY <3>1, <3>2
  <2>4. ASSUME NEW s \in SmallParts(S, n), s # {} PROVE s \ {Chosen(s)} \in SmallParts(S, n - 1)
    <3>1. s \in SUBSET S /\ Cardinality(s) <= n /\ Chosen(s) \in s
      BY <2>4, PartSizes DEF SmallParts
    <3>2. Cardinality(s \ {Chosen(s)}) <= n - 1
      BY <1>3, <3>1, PartSizes
    <3> QED
      BY <3>1, <3>2 DEF SmallParts
  <2>5. h = [s \in SmallParts(S, n) |->
                IF s = {} THEN 0 ELSE f[Chosen(s)] + h[s \ {Chosen(s)}]]
    <3> SUFFICES \A s \in SmallParts(S, n) :
            s # {} => g[s \ {Chosen(s)}] = h[s \ {Chosen(s)}]
      OBVIOUS
    <3> HIDE DEF h
    <3> QED
      BY <2>3, <2>4
  <2> QED
    BY <1>3, <2>5 DEF SumUpTo
<1> QED
    BY <1>4, <1>5

\* and so for all of a finite set.
LEMMA SumExists ==
    ASSUME NEW f, NEW S, IsFiniteSet(S)
    PROVE  \E h : SumOver(f, S, h)
<1> DEFINE n == Cardinality(S)
<1>1. n \in Nat /\ SmallParts(S, n) = SUBSET S
    BY PartSizes DEF SmallParts
<1>2. PICK h : SumUpTo(f, S, n, h)
    BY <1>1, SumsUpTo
<1>3. SumOver(f, S, h)
    BY <1>1, <1>2 DEF SumUpTo, SumOver
<1> QED
    BY <1>3

\* Numbers in, number out, in whatever order they are chosen.
LEMMA SumFacts ==
    ASSUME NEW f, NEW S, IsFiniteSet(S), \A a \in S : f[a] \in Int, NEW h, SumOver(f, S, h)
    PROVE  \A s \in SUBSET S :
             h[s] \in Int /\ (s = {} => h[s] = 0) /\ \A a \in s : h[s] = f[a] + h[s \ {a}]
<1> DEFINE Good(s) == h[s] \in Int /\ (s = {} => h[s] = 0) /\ \A a \in s : h[s] = f[a] + h[s \ {a}]
           bad == {n \in Nat : \E s \in SUBSET S : Cardinality(s) = n /\ ~Good(s)}
<1>1. \A s \in SUBSET S : h[s] = IF s = {} THEN 0 ELSE f[Chosen(s)] + h[s \ {Chosen(s)}]
    BY DEF SumOver
<1>2. SUFFICES ASSUME bad # {} PROVE FALSE
    BY PartSizes
<1>3. PICK n \in bad : \A m \in bad : n <= m
    BY <1>2, LeastOf
<1>4. PICK s \in SUBSET S : Cardinality(s) = n /\ ~Good(s)
    OBVIOUS
<1>5. \A t \in SUBSET S : Cardinality(t) < n => Good(t)
  <2> SUFFICES ASSUME NEW t \in SUBSET S, Cardinality(t) < n, ~Good(t) PROVE FALSE
    OBVIOUS
  <2>1. Cardinality(t) \in bad
    BY PartSizes
  <2> QED
    BY <1>3, <2>1, PartSizes
<1>6. s # {}
  <2> SUFFICES ASSUME s = {} PROVE FALSE
    OBVIOUS
  <2>1. h[s] = 0 /\ \A a \in s : FALSE
    BY <1>1
  <2> QED
    BY <1>4, <2>1
<1> DEFINE c == Chosen(s)
<1>7. c \in s /\ h[s] = f[c] + h[s \ {c}]
    BY <1>1, <1>6, PartSizes
<1>8. n \in Nat /\ \A a \in s : s \ {a} \in SUBSET S /\ Cardinality(s \ {a}) < n
  <2>1. n \in Nat
    OBVIOUS
  <2>2. \A a \in s : Cardinality(s \ {a}) = Cardinality(s) - 1
    BY PartSizes
  <2> QED
    BY <1>4, <2>1, <2>2
<1> HIDE DEF c, Good, bad
<1>9. \A a \in s : h[s \ {a}] \in Int
    BY <1>5, <1>8 DEF Good
<1>10. ASSUME NEW a \in s PROVE h[s] = f[a] + h[s \ {a}]
  <2>1. CASE a = c
    BY <1>7, <2>1
  <2>2. CASE a # c
    <3>1. h[s \ {c}] = f[a] + h[(s \ {c}) \ {a}]
      <4>1. Good(s \ {c}) /\ a \in s \ {c}
        BY <1>5, <1>7, <1>8, <2>2
      <4> QED
        BY <4>1 DEF Good
    <3>2. h[s \ {a}] = f[c] + h[(s \ {a}) \ {c}]
      <4>1. Good(s \ {a}) /\ c \in s \ {a}
        BY <1>5, <1>7, <1>8, <1>10, <2>2
      <4> QED
        BY <4>1 DEF Good
    <3>3. (s \ {a}) \ {c} = (s \ {c}) \ {a}
      OBVIOUS
    <3> DEFINE u == (s \ {c}) \ {a}
    <3>4. h[u] \in Int
      <4>1. u \in SUBSET S /\ Cardinality(u) < n
        <5>1. s \ {c} \in SUBSET S /\ Cardinality(s \ {c}) < n /\ u \in SUBSET (s \ {c})
          BY <1>7, <1>8
        <5>2. Cardinality(u) <= Cardinality(s \ {c})
          BY <5>1, PartSizes, FS_Subset
        <5>3. Cardinality(u) \in Nat /\ Cardinality(s \ {c}) \in Nat /\ u \in SUBSET S
          BY <5>1, PartSizes
        <5> QED
          BY <1>8, <5>1, <5>2, <5>3
      <4> QED
        BY <1>5, <4>1 DEF Good
    <3>5. f[a] \in Int /\ f[c] \in Int
      BY <1>7, <1>10
    <3> HIDE DEF u
    <3>6. h[s] = f[c] + (f[a] + h[u])
      BY <1>7, <3>1 DEF u
    <3>7. h[s \ {a}] = f[c] + h[u]
      BY <3>2, <3>3 DEF u
    <3> QED
      BY <3>4, <3>5, <3>6, <3>7
  <2> QED
    BY <2>1, <2>2
<1>11. h[s] \in Int
  <2>1. f[c] \in Int /\ h[s \ {c}] \in Int
    BY <1>7, <1>9
  <2> QED
    BY <1>7, <2>1
<1> QED
    BY <1>4, <1>6, <1>10, <1>11 DEF Good

\* A sum over a part of a set is part of the sum over the set.
LEMMA SumsAgree ==
    ASSUME NEW f, NEW S, NEW T, IsFiniteSet(S), T \in SUBSET S,
           NEW h, SumOver(f, S, h), NEW j, SumOver(f, T, j)
    PROVE  \A s \in SUBSET T : j[s] = h[s]
<1> DEFINE bad == {n \in Nat : \E s \in SUBSET T : Cardinality(s) = n /\ j[s] # h[s]}
<1>1. \A s \in SUBSET T : Cardinality(s) \in Nat
    BY PartSizes
<1>2. SUFFICES ASSUME bad # {} PROVE FALSE
    BY <1>1
<1>3. PICK n \in bad : \A m \in bad : n <= m
    BY <1>2, LeastOf
<1>4. PICK s \in SUBSET T : Cardinality(s) = n /\ j[s] # h[s]
    OBVIOUS
<1>5. s \in SUBSET S
    OBVIOUS
<1>6. j[s] = IF s = {} THEN 0 ELSE f[Chosen(s)] + j[s \ {Chosen(s)}]
    BY DEF SumOver
<1>7. h[s] = IF s = {} THEN 0 ELSE f[Chosen(s)] + h[s \ {Chosen(s)}]
    BY <1>5 DEF SumOver
<1>8. s # {}
    BY <1>4, <1>6, <1>7
<1>9. Chosen(s) \in s
    BY <1>5, <1>8, PartSizes
<1> DEFINE r == s \ {Chosen(s)}
<1>10. Cardinality(r) = n - 1 /\ n > 0
    BY <1>4, <1>5, <1>9, PartSizes
<1>11. r \in SUBSET T
    OBVIOUS
<1>12. j[r] = h[r]
  <2> HIDE DEF r
  <2> SUFFICES ASSUME j[r] # h[r] PROVE FALSE
    OBVIOUS
  <2>1. Cardinality(r) \in bad
    BY <1>1, <1>11
  <2> QED
    BY <1>3, <1>10, <2>1
<1> HIDE DEF r
<1> QED
    BY <1>4, <1>6, <1>7, <1>8, <1>12 DEF r

\* Any iteration gives the totals of all parts.
LEMMA TotalOfPart ==
    ASSUME NEW f, NEW S, IsFiniteSet(S), NEW T \in SUBSET S, NEW h, SumOver(f, S, h)
    PROVE  Total(f, T) = h[T]
<1> DEFINE j == CHOOSE j : SumOver(f, T, j)
<1>1. IsFiniteSet(T)
    BY FS_Subset
<1>2. SumOver(f, T, j) /\ Total(f, T) = j[T]
    BY <1>1, SumExists DEF Total
<1> HIDE DEF j
<1>3. \A s \in SUBSET T : j[s] = h[s]
    BY <1>2, SumsAgree
<1> QED
    BY <1>2, <1>3

\* Totals over finite sets, one number at a time.
LEMMA TotalFacts ==
    ASSUME NEW f, NEW S, IsFiniteSet(S), \A a \in S : f[a] \in Int
    PROVE  /\ Total(f, S) \in Int
           /\ S = {} => Total(f, S) = 0
           /\ \A a \in S : Total(f, S) = f[a] + Total(f, S \ {a})
<1> DEFINE h == CHOOSE h : SumOver(f, S, h)
<1>1. SumOver(f, S, h)
    BY SumExists
<1>2. Total(f, S) = h[S]
    BY DEF Total
<1> HIDE DEF h
<1>3. \A s \in SUBSET S :
        h[s] \in Int /\ (s = {} => h[s] = 0) /\ \A a \in s : h[s] = f[a] + h[s \ {a}]
    BY <1>1, SumFacts
<1>4. ASSUME NEW a \in S PROVE Total(f, S) = f[a] + Total(f, S \ {a})
  <2> DEFINE T == S \ {a}
  <2>1. T \in SUBSET S
    OBVIOUS
  <2>2. Total(f, T) = h[T]
    <3> HIDE DEF T
    <3> QED
      BY <1>1, <2>1, TotalOfPart
  <2>4. h[S] = f[a] + h[T]
    BY <1>3
  <2> QED
    BY <1>2, <2>2, <2>4
<1> QED
    BY <1>2, <1>3, <1>4

\* Totals over intervals, from below.
LEMMA TotalUpTo ==
    ASSUME NEW f, NEW m \in Int, NEW n \in Int, \A a \in m .. n : f[a] \in Int
    PROVE  /\ Total(f, m .. n) \in Int
           /\ n < m => Total(f, m .. n) = 0
           /\ m <= n => Total(f, m .. n) = Total(f, m .. n - 1) + f[n]
<1>1. IsFiniteSet(m .. n)
    BY FS_Interval
<1>2. n < m => m .. n = {}
    OBVIOUS
<1>3. m <= n => n \in m .. n /\ (m .. n) \ {n} = m .. n - 1
    OBVIOUS
<1> DEFINE T == m .. n - 1
<1>4. Total(f, T) \in Int
  <2>1. IsFiniteSet(T) /\ \A a \in T : f[a] \in Int
    BY <1>1, FS_Interval
  <2> HIDE DEF T
  <2> QED
    BY <2>1, TotalFacts
<1>5. m <= n => Total(f, m .. n) = f[n] + Total(f, T)
    BY <1>1, <1>3, TotalFacts
<1>6. m <= n => f[n] \in Int
    BY <1>3
<1> HIDE DEF T
<1>7. m <= n => Total(f, m .. n) = Total(f, T) + f[n]
    BY <1>4, <1>5, <1>6
<1> QED
    BY <1>1, <1>2, <1>7, TotalFacts DEF T

-----------------------------------------------------------------------------
\* Less than one part is no part.
LEMMA SmallDiv ==
    ASSUME NEW n \in Nat, NEW k \in Nat \ {0}, n < k
    PROVE  n \div k = 0
<1>1. 0 * k <= n /\ n < 0 * k + k
    OBVIOUS
<1> QED
    BY <1>1, DivIs

\* Dividing twice is dividing by the product.
LEMMA DivTwice ==
    ASSUME NEW n \in Int, NEW a \in Nat \ {0}, NEW b \in Nat \ {0}
    PROVE  (n \div a) \div b = n \div (a * b)
<1> DEFINE p == n \div a
           q == p \div b
<1>1. p \in Int /\ p * a <= n /\ n < p * a + a
    BY DivFacts
<1>2. q \in Int /\ q * b <= p /\ p < q * b + b
    BY <1>1, DivFacts
<1> HIDE DEF p, q
<1>3. a * b \in Nat \ {0}
    OBVIOUS
<1>4. (q * b) * a <= p * a
    BY <1>1, <1>2, Factor
<1>5. (p + 1) * a <= (q * b + b) * a
    BY <1>1, <1>2, Factor
<1>6. (q * b) * a = q * (a * b) /\ (q * b + b) * a = q * (a * b) + a * b /\ (p + 1) * a = p * a + a
    BY <1>1, <1>2
<1>7. q * (a * b) <= n /\ n < q * (a * b) + a * b
  <2>1. q * (a * b) \in Int /\ p * a \in Int /\ q * (a * b) + a * b \in Int
    BY <1>1, <1>2, <1>3
  <2> QED
    BY <1>1, <1>4, <1>5, <1>6, <2>1
<1>8. n \div (a * b) = q
  <2> DEFINE k == a * b
  <2> HIDE DEF k
  <2>1. k \in Nat \ {0} /\ q * k <= n /\ n < q * k + k
    BY <1>3, <1>7 DEF k
  <2>2. n \div k = q
    BY <1>2, <2>1, DivIs
  <2> QED
    BY <2>2 DEF k
<1> QED
    BY <1>8 DEF p, q

\* A number is twice its half and a rest.
LEMMA Halves ==
    ASSUME NEW n \in Nat
    PROVE  n = 2 * (n \div 2) + (n % 2)
OBVIOUS

\* A bit is 0 or 1, and dividing by two gives the bits from the next one on.
LEMMA BitFacts ==
    ASSUME NEW x \in Nat, NEW i \in Nat
    PROVE  /\ Bit(x, i) \in {0, 1}
           /\ x \div TwoTo[i] \in Nat
           /\ x \div TwoTo[i] = 2 * (x \div TwoTo[i + 1]) + Bit(x, i)
           /\ \A n \in Nat : Bit(x \div TwoTo[n], i) = Bit(x, n + i)
<1>1. TwoTo[i] \in Nat \ {0} /\ TwoTo[i + 1] = TwoTo[i] * 2
  <2>1. i + 1 \in Nat /\ i + 1 # 0 /\ (i + 1) - 1 = i
    OBVIOUS
  <2>2. TwoTo[i + 1] = 2 * TwoTo[i]
    BY <2>1, TwoToIs
  <2>3. TwoTo[i] \in Nat \ {0}
    BY TwoToPositive
  <2> QED
    BY <2>2, <2>3
<1> DEFINE q == x \div TwoTo[i]
<1>2. q \in Nat
  <2>1. q \in Int /\ 0 <= q
    <3>1. q \in Int
      BY <1>1, DivFacts
    <3>2. 0 * TwoTo[i] <= x
      BY <1>1
    <3> QED
      BY <1>1, <3>1, <3>2, DivAtMost
  <2> QED
    BY <2>1
<1>3. x \div TwoTo[i + 1] = q \div 2
    BY <1>1, DivTwice
<1>4. Bit(x, i) = q % 2
    BY DEF Bit
<1> HIDE DEF q
<1>5. q % 2 \in {0, 1} /\ q = 2 * (q \div 2) + (q % 2)
  <2>1. q % 2 = 0 \/ q % 2 = 1
    BY <1>2
  <2>2. q = 2 * (q \div 2) + (q % 2)
    BY <1>2, Halves
  <2> QED
    BY <2>1, <2>2
<1>6. ASSUME NEW n \in Nat PROVE Bit(x \div TwoTo[n], i) = Bit(x, n + i)
  <2>1. TwoTo[n] \in Nat \ {0} /\ TwoTo[n + i] = TwoTo[n] * TwoTo[i]
    BY TwoToPositive, TwoToSum
  <2>2. (x \div TwoTo[n]) \div TwoTo[i] = x \div (TwoTo[n] * TwoTo[i])
    BY <1>1, <2>1, DivTwice
  <2> QED
    BY <2>1, <2>2 DEF Bit
<1> QED
    BY <1>2, <1>3, <1>4, <1>5, <1>6 DEF q

-----------------------------------------------------------------------------
(* Interleaved numbers, before they become ids.                             *)

\* What every level adds to the number of a tile, and the number of a tile of level k.
Items(x, y) == [z \in Nat |-> Item(x, y, z)]
Interleaved(x, y, k) == Total(Items(x, y), 0 .. k - 1)

\* The id of a tile is its number in an int.
LEMMA IdIsInterleaved ==
    ASSUME NEW x, NEW y, NEW k \in Nat
    PROVE  xy_to_quadtree(x, y, k) = Signed(Interleaved(x, y, k))
<1> DEFINE S == 0 .. k - 1
<1>0. S \subseteq Nat
    OBVIOUS
<1>1. ASSUME NEW s \in SUBSET S, s # {} PROVE Item(x, y, Chosen(s)) = Items(x, y)[Chosen(s)]
  <2>1. Chosen(s) \in s
    BY <1>1 DEF Chosen
  <2>2. Chosen(s) \in Nat
    <3> HIDE DEF S
    <3> QED
      BY <1>0, <2>1
  <2> QED
    BY <2>2 DEF Items
<1> HIDE DEF S
<1>2. \A h : Sums(x, y, S, h) = SumOver(Items(x, y), S, h)
    BY <1>1 DEF Sums, SumOver
<1>3. (CHOOSE h : Sums(x, y, S, h)) = (CHOOSE h : SumOver(Items(x, y), S, h))
    BY <1>2
<1> QED
    BY <1>3, IdIsSum DEF S, Interleaved, Total

\* There is one tile on level 0, with the number 0.
LEMMA NoLevels ==
    ASSUME NEW x, NEW y
    PROVE  Interleaved(x, y, 0) = 0
<1>1. 0 .. 0 - 1 = {} /\ IsFiniteSet({})
    BY FS_EmptySet
<1>2. Total(Items(x, y), {}) = 0
    BY <1>1, TotalFacts
<1> QED
    BY <1>1, <1>2 DEF Interleaved

\* Every level adds two bits on the left.
LEMMA LevelAdded ==
    ASSUME NEW x \in Nat, NEW y \in Nat, NEW k \in Nat
    PROVE  /\ Item(x, y, k) \in Nat /\ Item(x, y, k) <= 3 * TwoTo[2 * k]
           /\ Interleaved(x, y, k) \in Int
           /\ Interleaved(x, y, k + 1) = Interleaved(x, y, k) + Item(x, y, k)
<1> DEFINE f == Items(x, y)
<1>1. ASSUME NEW z \in Nat PROVE Item(x, y, z) \in Nat /\ Item(x, y, z) <= 3 * TwoTo[2 * z]
  <2> DEFINE b == Bit(x, z) + 2 * Bit(y, z)
             t == TwoTo[2 * z]
  <2>1. b \in Nat /\ b <= 3
    <3>1. Bit(x, z) \in {0, 1} /\ Bit(y, z) \in {0, 1}
      BY BitFacts
    <3> QED
      BY <3>1
  <2>2. t \in Nat
    BY TwoToPositive
  <2> HIDE DEF b, t
  <2>3. b * t \in Nat
    BY <2>1, <2>2
  <2>4. b * t <= 3 * t
    BY <2>1, <2>2
  <2> QED
    BY <2>3, <2>4 DEF b, t, Item
<1>2. \A z \in Nat : f[z] \in Int /\ f[z] = Item(x, y, z)
    BY <1>1 DEF Items
<1> HIDE DEF f
<1>3. Total(f, 0 .. k) = Total(f, 0 .. k - 1) + f[k]
  <2>1. \A a \in 0 .. k : f[a] \in Int
    BY <1>2
  <2> QED
    BY <2>1, TotalUpTo
<1>4. Total(f, 0 .. k - 1) \in Int
  <2>1. \A a \in 0 .. k - 1 : f[a] \in Int
    BY <1>2
  <2> QED
    BY <2>1, TotalUpTo
<1>5. (k + 1) - 1 = k
    OBVIOUS
<1> QED
    BY <1>1, <1>2, <1>3, <1>4, <1>5 DEF f, Interleaved

\* The number of a tile on level k has 2k bits.
LEMMA NumberRange ==
    ASSUME NEW x \in Nat, NEW y \in Nat
    PROVE  \A k \in Nat : Interleaved(x, y, k) \in 0 .. TwoTo[2 * k] - 1
<1> DEFINE N(k) == Interleaved(x, y, k)
           bad == {k \in Nat : N(k) \notin 0 .. TwoTo[2 * k] - 1}
<1> SUFFICES ASSUME bad # {} PROVE FALSE
    OBVIOUS
<1>1. PICK k \in bad : \A j \in bad : k <= j
    BY LeastOf
<1>2. k \in Nat /\ N(k) \notin 0 .. TwoTo[2 * k] - 1
    OBVIOUS
<1>3. k # 0
  <2>1. N(0) = 0 /\ TwoTo[2 * 0] = 1
    BY NoLevels, TwoToIs
  <2> HIDE DEF N
  <2> QED
    BY <1>2, <2>1
<1>4. k - 1 \in Nat /\ k - 1 \notin bad
    BY <1>1, <1>2, <1>3
<1> DEFINE t == TwoTo[2 * (k - 1)]
           i == Item(x, y, k - 1)
<1>5. N(k - 1) \in 0 .. t - 1
    BY <1>4
<1>6. N(k) = N(k - 1) + i /\ i \in Nat /\ i <= 3 * t
  <2> DEFINE j == k - 1
  <2>1. j + 1 = k /\ j \in Nat
    BY <1>2, <1>4
  <2> HIDE DEF j
  <2>2. /\ Item(x, y, j) \in Nat /\ Item(x, y, j) <= 3 * TwoTo[2 * j]
        /\ Interleaved(x, y, j + 1) = Interleaved(x, y, j) + Item(x, y, j)
    BY <2>1, LevelAdded
  <2> QED
    BY <2>1, <2>2 DEF j
<1>7. t \in Nat /\ TwoTo[2 * k] = 4 * t
  <2>1. 2 * (k - 1) \in Nat /\ 2 * k \in Nat /\ 2 * k # 0 /\ 2 * k - 1 \in Nat /\ 2 * k - 1 # 0
        /\ (2 * k - 1) - 1 = 2 * (k - 1)
    BY <1>2, <1>3
  <2>2. TwoTo[2 * k] = 2 * TwoTo[2 * k - 1] /\ TwoTo[2 * k - 1] = 2 * t /\ t \in Nat
    BY <2>1, TwoToIs, TwoToPositive
  <2> QED
    BY <2>2
<1> HIDE DEF t, i, N, bad
<1> QED
    BY <1>2, <1>5, <1>6, <1>7

-----------------------------------------------------------------------------
\* The two digits on the right are the lowest bits, the others the number of the
\* tile above.
LEMMA TwoBitsRight ==
    ASSUME NEW x \in Nat, NEW y \in Nat
    PROVE  \A k \in Nat :
             Interleaved(x, y, k + 1)
               = (Bit(x, 0) + 2 * Bit(y, 0)) + 4 * Interleaved(x \div 2, y \div 2, k)
<1> DEFINE u == x \div 2
           v == y \div 2
           b == Bit(x, 0) + 2 * Bit(y, 0)
           Good(k) == Interleaved(x, y, k + 1) = b + 4 * Interleaved(u, v, k)
           bad == {k \in Nat : ~Good(k)}
<1>1. u \in Nat /\ v \in Nat
    OBVIOUS
<1>2. b \in Nat
  <2>1. Bit(x, 0) \in {0, 1} /\ Bit(y, 0) \in {0, 1}
    BY BitFacts
  <2> QED
    BY <2>1
<1>3. TwoTo[0] = 1 /\ TwoTo[1] = 2 /\ TwoTo[2] = 4
    BY TwoToIs
<1>4. Interleaved(x, y, 1) = b
  <2>1. 0 + 1 = 1 /\ 0 \in Nat /\ 2 * 0 = 0
    OBVIOUS
  <2>2. Interleaved(x, y, 0 + 1) = Interleaved(x, y, 0) + Item(x, y, 0)
    BY <2>1, LevelAdded
  <2>3. Item(x, y, 0) = b
    <3> HIDE DEF b
    <3>1. b * TwoTo[2 * 0] = b
      BY <1>2, <1>3, <2>1
    <3> QED
      BY <3>1 DEF Item, b
  <2> HIDE DEF b
  <2> QED
    BY <1>2, <2>1, <2>2, <2>3, NoLevels
<1>5. ASSUME NEW k \in Nat PROVE Item(x, y, k + 1) = 4 * Item(u, v, k)
  <2>1. Bit(u, k) = Bit(x, k + 1) /\ Bit(v, k) = Bit(y, k + 1)
    <3>1. Bit(x \div TwoTo[1], k) = Bit(x, 1 + k) /\ Bit(y \div TwoTo[1], k) = Bit(y, 1 + k)
      BY BitFacts
    <3>2. 1 + k = k + 1
      OBVIOUS
    <3> QED
      BY <1>3, <3>1, <3>2
  <2>2. TwoTo[2 * (k + 1)] = 4 * TwoTo[2 * k] /\ TwoTo[2 * k] \in Nat
    <3> DEFINE e == 2 * k
    <3>1. 2 * (k + 1) = 2 + e /\ e \in Nat
      OBVIOUS
    <3> HIDE DEF e
    <3>2. TwoTo[2 + e] = TwoTo[2] * TwoTo[e] /\ TwoTo[e] \in Nat
      BY <3>1, TwoToSum, TwoToPositive
    <3> QED
      BY <1>3, <3>1, <3>2 DEF e
  <2> DEFINE a == Bit(u, k) + 2 * Bit(v, k)
             t == TwoTo[2 * k]
  <2>3. a \in Nat
    <3>1. Bit(u, k) \in {0, 1} /\ Bit(v, k) \in {0, 1}
      BY <1>1, BitFacts
    <3> QED
      BY <3>1
  <2>4. Item(u, v, k) = a * t
    BY DEF Item
  <2>5. Item(x, y, k + 1) = a * (4 * t)
    BY <2>1, <2>2 DEF Item
  <2> HIDE DEF a, t, u, v
  <2>6. a * (4 * t) = 4 * (a * t)
    BY <2>2, <2>3 DEF t
  <2> QED
    BY <2>4, <2>5, <2>6
<1> HIDE DEF u, v, b
<1> SUFFICES ASSUME bad # {} PROVE FALSE
    BY DEF u, v, b
<1>6. PICK k \in bad : \A j \in bad : k <= j
    BY LeastOf
<1>7. k \in Nat /\ ~Good(k)
    OBVIOUS
<1>8. k # 0
  <2>1. Good(0)
    BY <1>2, <1>4, NoLevels
  <2> QED
    BY <1>7, <2>1
<1> DEFINE j == k - 1
<1>9. j \in Nat /\ k = j + 1 /\ j \notin bad
    BY <1>6, <1>7, <1>8
<1>10. Good(j)
    BY <1>9
<1> HIDE DEF j, bad
<1>11. Interleaved(x, y, k + 1) = Interleaved(x, y, k) + Item(x, y, k)
    BY <1>7, LevelAdded
<1>12. Interleaved(u, v, k) = Interleaved(u, v, j) + Item(u, v, j)
    BY <1>1, <1>9, LevelAdded
<1>13. Item(x, y, k) = 4 * Item(u, v, j)
    BY <1>5, <1>9
<1>14. Interleaved(u, v, j) \in Int /\ Item(u, v, j) \in Int
  <2>1. Interleaved(u, v, j) \in Int
    BY <1>1, <1>9, LevelAdded
  <2>2. Item(u, v, j) \in Nat
    BY <1>1, <1>9, LevelAdded
  <2> QED
    BY <2>1, <2>2
<1>15. Good(k)
    BY <1>2, <1>9, <1>10, <1>11, <1>12, <1>13, <1>14
<1> QED
    BY <1>7, <1>15

\* Shifting a number by two digits for every level gives the number of the tile
\* that many levels higher.
LEMMA ShiftedUp ==
    ASSUME NEW x \in Nat, NEW y \in Nat, NEW k \in Nat
    PROVE  \A n \in 0 .. k :
             /\ x \div TwoTo[n] \in Nat /\ y \div TwoTo[n] \in Nat
             /\ Interleaved(x, y, k) \div TwoTo[2 * n]
                  = Interleaved(x \div TwoTo[n], y \div TwoTo[n], k - n)
<1> DEFINE Good(n) == Interleaved(x, y, k) \div TwoTo[2 * n]
                        = Interleaved(x \div TwoTo[n], y \div TwoTo[n], k - n)
           bad == {n \in 0 .. k : ~Good(n)}
<1>1. \A n \in Nat : x \div TwoTo[n] \in Nat /\ y \div TwoTo[n] \in Nat
    BY BitFacts
<1> SUFFICES \A n \in 0 .. k : Good(n)
    BY <1>1
<1> SUFFICES ASSUME bad # {} PROVE FALSE
    OBVIOUS
<1>2. PICK n \in bad : \A m \in bad : n <= m
  <2>1. bad \subseteq Nat
    OBVIOUS
  <2> HIDE DEF bad
  <2> QED
    BY <2>1, LeastOf
<1>3. n \in 0 .. k /\ ~Good(n)
    OBVIOUS
<1>4. Interleaved(x, y, k) \in Int
    BY LevelAdded
<1>5. n # 0
  <2>1. TwoTo[2 * 0] = 1 /\ TwoTo[0] = 1 /\ k - 0 = k
    BY TwoToIs
  <2>2. Good(0)
    BY <1>4, <2>1
  <2> QED
    BY <1>3, <2>2
<1> DEFINE m == n - 1
           j == k - n
<1>6. m \in 0 .. k /\ n = m + 1 /\ j \in Nat /\ k - m = j + 1 /\ m \notin bad
    BY <1>2, <1>3, <1>5
<1>7. Good(m)
    BY <1>6
<1> DEFINE u == x \div TwoTo[m]
           v == y \div TwoTo[m]
<1>8. u \in Nat /\ v \in Nat
    BY <1>1, <1>6
<1>9. u \div 2 = x \div TwoTo[n] /\ v \div 2 = y \div TwoTo[n]
  <2>1. TwoTo[n] = TwoTo[m] * 2 /\ TwoTo[m] \in Nat \ {0}
    <3>1. n \in Nat /\ n # 0 /\ m \in Nat
      BY <1>3, <1>5, <1>6
    <3>2. TwoTo[n] = 2 * TwoTo[m] /\ TwoTo[m] \in Nat \ {0}
      BY <3>1, TwoToIs, TwoToPositive
    <3> QED
      BY <3>2
  <2> QED
    BY <2>1, DivTwice
<1>10. Interleaved(x, y, k) \div TwoTo[2 * n] = (Interleaved(x, y, k) \div TwoTo[2 * m]) \div 4
  <2>1. 2 * n = 2 * m + 2 /\ 2 * m \in Nat
    BY <1>6
  <2>2. TwoTo[2] = 4
    BY TwoToIs
  <2> DEFINE e == 2 * m
  <2> HIDE DEF e
  <2>3. TwoTo[2 * n] = TwoTo[e] * 4 /\ TwoTo[e] \in Nat \ {0}
    <3>1. e \in Nat /\ 2 * n = e + 2
      BY <2>1 DEF e
    <3>2. TwoTo[e + 2] = TwoTo[e] * TwoTo[2] /\ TwoTo[e] \in Nat \ {0}
      BY <3>1, TwoToSum, TwoToPositive
    <3> QED
      BY <2>2, <3>1, <3>2
  <2> QED
    BY <1>4, <2>3, DivTwice DEF e
<1>11. Interleaved(u, v, j + 1) \div 4 = Interleaved(u \div 2, v \div 2, j)
  <2> DEFINE b == Bit(u, 0) + 2 * Bit(v, 0)
             r == Interleaved(u \div 2, v \div 2, j)
  <2>1. Interleaved(u, v, j + 1) = b + 4 * r
    BY <1>6, <1>8, TwoBitsRight
  <2>2. b \in 0 .. 3
    <3>1. Bit(u, 0) \in {0, 1} /\ Bit(v, 0) \in {0, 1}
      BY <1>8, BitFacts
    <3> QED
      BY <3>1
  <2>3. r \in Int
    <3>1. u \div 2 \in Nat /\ v \div 2 \in Nat
      BY <1>8
    <3> HIDE DEF j
    <3> QED
      BY <1>6, <3>1, LevelAdded
  <2> HIDE DEF b, r, u, v
  <2>4. b + 4 * r \in Int /\ r * 4 <= b + 4 * r /\ b + 4 * r < r * 4 + 4
    BY <2>2, <2>3
  <2>5. (b + 4 * r) \div 4 = r
    BY <2>3, <2>4, DivIs
  <2> QED
    BY <2>1, <2>5 DEF r
<1> HIDE DEF u, v, j, bad
<1>12. Interleaved(x, y, k) \div TwoTo[2 * m] = Interleaved(u, v, j + 1)
    BY <1>6, <1>7 DEF u, v
<1>13. Interleaved(x, y, k) \div TwoTo[2 * n] = Interleaved(x \div TwoTo[n], y \div TwoTo[n], j)
    BY <1>9, <1>10, <1>11, <1>12
<1> QED
    BY <1>3, <1>13 DEF j

\* The bits of a number are those of its parts, taken in turn.
LEMMA InterleavedBits ==
    ASSUME NEW x \in Nat, NEW y \in Nat, NEW k \in Nat, NEW j \in 0 .. k - 1
    PROVE  /\ Bit(Interleaved(x, y, k), 2 * j) = Bit(x, j)
           /\ Bit(Interleaved(x, y, k), 2 * j + 1) = Bit(y, j)
<1> DEFINE n == Interleaved(x, y, k)
           u == x \div TwoTo[j]
           v == y \div TwoTo[j]
           i == (k - j) - 1
<1>1. j \in Nat /\ j \in 0 .. k /\ i \in Nat /\ k - j = i + 1 /\ 2 * j \in Nat
    OBVIOUS
<1>2. u \in Nat /\ v \in Nat /\ n \div TwoTo[2 * j] = Interleaved(u, v, k - j)
    BY <1>1, ShiftedUp
<1> DEFINE a == Bit(u, 0)
           b == Bit(v, 0)
           r == Interleaved(u \div 2, v \div 2, i)
           q == n \div TwoTo[2 * j]
<1>3. q = (a + 2 * b) + 4 * r
  <2> HIDE DEF i, u, v, n
  <2>1. Interleaved(u, v, i + 1)
          = (Bit(u, 0) + 2 * Bit(v, 0)) + 4 * Interleaved(u \div 2, v \div 2, i)
    BY <1>1, <1>2, TwoBitsRight
  <2> QED
    BY <1>1, <1>2, <2>1 DEF q
<1>4. a \in {0, 1} /\ b \in {0, 1}
    BY <1>2, BitFacts
<1>5. r \in Int
  <2>1. u \div 2 \in Nat /\ v \div 2 \in Nat
    BY <1>2
  <2> HIDE DEF i
  <2> QED
    BY <1>1, <2>1, LevelAdded
<1>6. a = Bit(x, j) /\ b = Bit(y, j)
  <2>1. Bit(x \div TwoTo[j], 0) = Bit(x, j + 0) /\ Bit(y \div TwoTo[j], 0) = Bit(y, j + 0)
    BY <1>1, BitFacts
  <2>2. j + 0 = j
    BY <1>1
  <2> QED
    BY <2>1, <2>2
<1>7. Bit(n, 2 * j) = q % 2
    BY DEF Bit
<1>8. Bit(n, 2 * j + 1) = (q \div 2) % 2
  <2>1. TwoTo[2 * j + 1] = TwoTo[2 * j] * 2 /\ TwoTo[2 * j] \in Nat \ {0}
    <3>1. TwoTo[1] = 2
      BY TwoToIs
    <3> QED
      BY <1>1, <3>1, TwoToSum, TwoToPositive
  <2>2. n \in Int
    BY LevelAdded
  <2> HIDE DEF n
  <2>3. n \div TwoTo[2 * j + 1] = q \div 2
    BY <2>1, <2>2, DivTwice DEF q
  <2> QED
    BY <2>3 DEF Bit
<1> HIDE DEF a, b, r, q, n
<1>9. q % 2 = a
    BY <1>3, <1>4, <1>5
<1>10. q \div 2 = b + 2 * r
    BY <1>3, <1>4, <1>5
<1>11. (b + 2 * r) % 2 = b
    BY <1>4, <1>5
<1> QED
    BY <1>6, <1>7, <1>8, <1>9, <1>10, <1>11 DEF n

-----------------------------------------------------------------------------
(* Back from ids to tiles.                                                  *)

\* An int of at least two bits: 2^IntBits values, half of them negative.
LEMMA SignedFacts ==
    ASSUME IntBits > 1, NEW n \in 0 .. TwoTo[IntBits] - 1
    PROVE  /\ Signed(n) = IF n < TwoTo[IntBits - 1] THEN n ELSE n - TwoTo[IntBits]
           /\ Signed(n) % TwoTo[IntBits] = n
           /\ Signed(n) \in -TwoTo[IntBits - 1] .. TwoTo[IntBits - 1] - 1
<1> DEFINE t == TwoTo[IntBits - 1]
<1>1. t \in Nat \ {0} /\ TwoTo[IntBits] = 2 * t
  <2>1. IntBits \in Nat /\ IntBits # 0 /\ IntBits - 1 \in Nat
    BY WorldAssumption
  <2> QED
    BY <2>1, TwoToIs, TwoToPositive
<1> HIDE DEF t
<1>2. n \in 0 .. 2 * t - 1
    BY <1>1
<1>3. n % (2 * t) = n /\ (n - 2 * t) % (2 * t) = n
    BY <1>1, <1>2
<1>4. Signed(n) = IF n < t THEN n ELSE n - 2 * t
    BY <1>1, <1>2, <1>3 DEF Signed, t
<1>5. Signed(n) % (2 * t) = n
    BY <1>3, <1>4
<1>6. Signed(n) \in -t .. t - 1
    BY <1>1, <1>2, <1>4
<1> QED
    BY <1>1, <1>4, <1>5, <1>6 DEF t

\* The bits that are picked out of an id.
ColumnBits(qt) == [z \in Nat |-> PickBit(qt, 2 * (z - 1), z - 1)]
RowBits(qt) == [z \in Nat |-> PickBit(qt, 2 * z - 1, z)]

\* quadtree_to_xy() adds them up.
LEMMA ColumnSums ==
    ASSUME NEW qt, NEW k \in Nat
    PROVE  quadtree_to_xy(qt, k)[1] = Total(ColumnBits(qt), 1 .. k)
<1> DEFINE S == 1 .. k
           f == ColumnBits(qt)
           Picked(s) == PickBit(qt, 2 * (Chosen(s) - 1), Chosen(s) - 1)
           Picks(h) == h = [s \in SUBSET S |-> IF s = {} THEN 0 ELSE Picked(s) + h[s \ {Chosen(s)}]]
<1>1. quadtree_to_xy(qt, k)[1] = (CHOOSE h : Picks(h))[S]
    BY DEF quadtree_to_xy, MapThenSumSet, MapThenFoldSet, Chosen
<1>2. ASSUME NEW s \in SUBSET S, s # {} PROVE Picked(s) = f[Chosen(s)]
  <2>1. Chosen(s) \in s
    BY <1>2 DEF Chosen
  <2>2. S \subseteq Nat
    OBVIOUS
  <2> HIDE DEF S
  <2>3. Chosen(s) \in Nat
    BY <2>1, <2>2
  <2> QED
    BY <2>3 DEF ColumnBits
<1> HIDE DEF S, f, Picked
<1>3. \A h : Picks(h) = SumOver(f, S, h)
    BY <1>2 DEF SumOver
<1> HIDE DEF Picks
<1>4. (CHOOSE h : Picks(h)) = (CHOOSE h : SumOver(f, S, h))
    BY <1>3
<1> QED
    BY <1>1, <1>4 DEF Total, S, f

\* The same of the rows.
LEMMA RowSums ==
    ASSUME NEW qt, NEW k \in Nat
    PROVE  quadtree_to_xy(qt, k)[2] = Total(RowBits(qt), 1 .. k)
<1> DEFINE S == 1 .. k
           f == RowBits(qt)
           Picked(s) == PickBit(qt, 2 * Chosen(s) - 1, Chosen(s))
           Picks(h) == h = [s \in SUBSET S |-> IF s = {} THEN 0 ELSE Picked(s) + h[s \ {Chosen(s)}]]
<1>1. quadtree_to_xy(qt, k)[2] = (CHOOSE h : Picks(h))[S]
    BY DEF quadtree_to_xy, MapThenSumSet, MapThenFoldSet, Chosen
<1>2. ASSUME NEW s \in SUBSET S, s # {} PROVE Picked(s) = f[Chosen(s)]
  <2>1. Chosen(s) \in s
    BY <1>2 DEF Chosen
  <2>2. S \subseteq Nat
    OBVIOUS
  <2> HIDE DEF S
  <2>3. Chosen(s) \in Nat
    BY <2>1, <2>2
  <2> QED
    BY <2>3 DEF RowBits
<1> HIDE DEF S, f, Picked
<1>3. \A h : Picks(h) = SumOver(f, S, h)
    BY <1>2 DEF SumOver
<1> HIDE DEF Picks
<1>4. (CHOOSE h : Picks(h)) = (CHOOSE h : SumOver(f, S, h))
    BY <1>3
<1> QED
    BY <1>1, <1>4 DEF Total, S, f

\* A bit that is picked and shifted down, in a place where an int has no sign, and
\* in the place of the sign.
LEMMA BitShiftedDown ==
    ASSUME IntBits > 1, NEW qt, NEW bit \in Nat, NEW down \in Nat, NEW rest \in Nat,
           bit = down + rest, bit < IntBits,
           NEW b \in {0, 1}, Bit(qt % TwoTo[IntBits], bit) = b
    PROVE  PickBit(qt, bit, down)
             = IF bit = IntBits - 1 THEN -(b * TwoTo[rest]) ELSE b * TwoTo[rest]
<1> DEFINE d == TwoTo[down]
           r == TwoTo[rest]
           n == b * TwoTo[bit]
<1>1. d \in Nat \ {0} /\ r \in Nat \ {0} /\ TwoTo[bit] = d * r
    BY TwoToPositive, TwoToSum
<1>2. d * r \in Nat \ {0}
    BY <1>1
<1>3. TwoTo[IntBits] = 2 * TwoTo[IntBits - 1] /\ TwoTo[IntBits - 1] \in Nat \ {0}
  <2>1. IntBits \in Nat /\ IntBits # 0 /\ IntBits - 1 \in Nat
    BY WorldAssumption
  <2> QED
    BY <2>1, TwoToIs, TwoToPositive
<1>4. CASE bit = IntBits - 1
  <2>1. TwoTo[IntBits] = 2 * (d * r)
    BY <1>1, <1>3, <1>4
  <2>2. n \in 0 .. TwoTo[IntBits] - 1
    BY <1>1, <1>2, <2>1
  <2>3. Signed(n) = -(b * (d * r))
    <3>1. Signed(n) = IF n < d * r THEN n ELSE n - 2 * (d * r)
      BY <1>1, <1>4, <2>1, <2>2, SignedFacts
    <3> DEFINE e == d * r
    <3> HIDE DEF e
    <3>2. Signed(n) = IF n < e THEN n ELSE n - 2 * e
      BY <3>1 DEF e
    <3>3. n = b * e /\ e \in Nat \ {0}
      BY <1>1, <1>2 DEF e
    <3> HIDE DEF n
    <3>4. Signed(n) = -(b * e)
      BY <3>2, <3>3
    <3> QED
      BY <3>4 DEF e
  <2>4. PickBit(qt, bit, down) = Signed(n) \div d
    BY DEF PickBit
  <2> HIDE DEF n, d, r
  <2>5. -(b * r) \in Int /\ (-(b * r)) * d = -(b * (d * r))
    BY <1>1
  <2>6. -(b * (d * r)) \in Int
    BY <1>2
  <2>7. (-(b * (d * r))) \div d = -(b * r)
    BY <1>1, <2>5, <2>6, DivIs
  <2> QED
    BY <1>4, <2>3, <2>4, <2>7 DEF r
<1>5. CASE bit # IntBits - 1
  <2>1. d * r < TwoTo[IntBits - 1] /\ n \in 0 .. TwoTo[IntBits - 1] - 1
    <3>1. bit < IntBits - 1 /\ IntBits \in Nat
      BY <1>5, WorldAssumption
    <3>2. TwoTo[bit] < TwoTo[IntBits - 1]
      BY <3>1, Growing
    <3>3. n \in Nat /\ n <= TwoTo[bit]
      BY <1>1, <1>2
    <3> HIDE DEF n
    <3> QED
      BY <1>1, <1>3, <3>2, <3>3
  <2>2. Signed(n) = n
    <3>1. n \in 0 .. TwoTo[IntBits] - 1 /\ n < TwoTo[IntBits - 1]
      BY <1>3, <2>1
    <3> HIDE DEF n
    <3> QED
      BY <3>1, SignedFacts
  <2>3. PickBit(qt, bit, down) = n \div d
    BY <2>2 DEF PickBit
  <2>4. n = (b * r) * d /\ b * r \in Int /\ n \in Int
    <3>1. n = b * (d * r)
      BY <1>1
    <3> HIDE DEF n, d, r
    <3>2. b * (d * r) = (b * r) * d /\ b * r \in Int /\ b * (d * r) \in Int
      BY <1>1
    <3> QED
      BY <3>1, <3>2
  <2> HIDE DEF n, d, r
  <2>5. n \div d = b * r
    BY <1>1, <2>4, DivIs
  <2> QED
    BY <1>5, <2>3, <2>5 DEF r
<1> QED
    BY <1>4, <1>5

-----------------------------------------------------------------------------
\* Numbers are the sums of their bits; what is left out is above them.
LEMMA BitsAddUp ==
    ASSUME NEW x \in Nat, NEW k \in Nat, NEW f,
           \A z \in 1 .. k : f[z] = Bit(x, z - 1) * TwoTo[z - 1]
    PROVE  /\ \A z \in 1 .. k : f[z] \in Int
           /\ Total(f, 1 .. k) + (x \div TwoTo[k]) * TwoTo[k] = x
<1>1. \A z \in 1 .. k : f[z] \in Nat
  <2> TAKE z \in 1 .. k
  <2>1. z - 1 \in Nat
    OBVIOUS
  <2>2. Bit(x, z - 1) \in {0, 1} /\ TwoTo[z - 1] \in Nat
    BY <2>1, BitFacts, TwoToPositive
  <2> QED
    BY <2>2
<1> DEFINE Good(m) == Total(f, 1 .. m) + (x \div TwoTo[m]) * TwoTo[m] = x
           bad == {m \in 0 .. k : ~Good(m)}
<1> SUFFICES ASSUME bad # {} PROVE FALSE
    BY <1>1
<1>2. PICK m \in bad : \A j \in bad : m <= j
  <2>1. bad \subseteq Nat
    OBVIOUS
  <2> HIDE DEF bad
  <2> QED
    BY <2>1, LeastOf
<1>3. m \in 0 .. k /\ ~Good(m)
    OBVIOUS
<1>4. m # 0
  <2>1. TwoTo[0] = 1
    BY TwoToIs
  <2>2. Total(f, 1 .. 0) = 0
    <3>1. \A z \in 1 .. 0 : f[z] \in Int
      OBVIOUS
    <3> QED
      BY <3>1, TotalUpTo
  <2>3. Good(0)
    BY <2>1, <2>2
  <2> QED
    BY <1>3, <2>3
<1> DEFINE j == m - 1
<1>5. j \in Nat /\ j \in 0 .. k /\ m = j + 1 /\ j \notin bad
    BY <1>2, <1>3, <1>4
<1>6. Good(j)
    BY <1>5
<1>7. Total(f, 1 .. m) = Total(f, 1 .. j) + f[m] /\ Total(f, 1 .. j) \in Int
  <2>1. \A z \in 1 .. m : f[z] \in Int
    BY <1>1, <1>3
  <2>2. Total(f, 1 .. m) = Total(f, 1 .. j) + f[m]
    BY <1>3, <1>4, <2>1, TotalUpTo
  <2>3. \A z \in 1 .. j : f[z] \in Int
    BY <1>1, <1>3
  <2>4. Total(f, 1 .. j) \in Int
    BY <1>5, <2>3, TotalUpTo
  <2> QED
    BY <2>2, <2>4
<1> DEFINE t == TwoTo[j]
           p == x \div TwoTo[j]
           q == x \div TwoTo[m]
           b == Bit(x, j)
<1>8. f[m] = b * t
    BY <1>3, <1>4
<1>9. p = 2 * q + b /\ p \in Nat /\ b \in {0, 1} /\ q \in Nat
  <2>1. p = 2 * (x \div TwoTo[j + 1]) + b /\ p \in Nat /\ b \in {0, 1}
    BY <1>5, BitFacts
  <2>2. q \in Nat
    BY <1>3, BitFacts
  <2> QED
    BY <1>5, <2>1, <2>2
<1>10. TwoTo[m] = 2 * t /\ t \in Nat
    BY <1>3, <1>4, <1>5, TwoToIs, TwoToPositive
<1>11. Total(f, 1 .. j) + p * t = x
    BY <1>6
<1> HIDE DEF p, q, b, t, j, bad
<1>12. p * t = q * (2 * t) + b * t
    BY <1>9, <1>10
<1>13. q * (2 * t) \in Int /\ b * t \in Int
    BY <1>9, <1>10
<1>14. Total(f, 1 .. m) + q * (2 * t) = x
    BY <1>7, <1>8, <1>11, <1>12, <1>13
<1>15. Good(m)
    BY <1>10, <1>14 DEF q
<1> QED
    BY <1>3, <1>15

\* With one bit more than there is space for, the last one counts the other way.
LEMMA SignedBitsAddUp ==
    ASSUME NEW x \in Nat, NEW k \in Nat \ {0}, NEW f, x < TwoTo[k],
           \A z \in 1 .. k - 1 : f[z] = Bit(x, z - 1) * TwoTo[z - 1],
           f[k] = -(Bit(x, k - 1) * TwoTo[k - 1])
    PROVE  Total(f, 1 .. k) = IF 2 * x < TwoTo[k] THEN x ELSE x - TwoTo[k]
<1> DEFINE j == k - 1
           t == TwoTo[j]
           p == x \div TwoTo[j]
           b == Bit(x, j)
<1>1. j \in Nat /\ k = j + 1 /\ TwoTo[k] = 2 * t /\ t \in Nat \ {0}
    BY TwoToIs, TwoToPositive
<1>2. p \in Nat /\ b \in {0, 1} /\ p = 2 * (x \div TwoTo[j + 1]) + b
    BY <1>1, BitFacts
<1>3. (\A z \in 1 .. j : f[z] \in Int) /\ Total(f, 1 .. j) + p * t = x
  <2>1. \A z \in 1 .. j : f[z] = Bit(x, z - 1) * TwoTo[z - 1]
    OBVIOUS
  <2> HIDE DEF j
  <2> QED
    BY <1>1, <2>1, BitsAddUp
<1>4. x \div TwoTo[j + 1] = 0
  <2>1. TwoTo[j + 1] = 2 * t
    BY <1>1
  <2> HIDE DEF t, j
  <2>2. 2 * t \in Nat \ {0} /\ 0 * (2 * t) <= x /\ x < 0 * (2 * t) + 2 * t
    BY <1>1
  <2>3. x \div (2 * t) = 0
    BY <2>2, DivIs
  <2> QED
    BY <2>1, <2>3
<1>5. p = b
    BY <1>2, <1>4
<1>6. f[k] = -(b * t) /\ b * t \in Int
    BY <1>1, <1>2
<1>7. Total(f, 1 .. k) = Total(f, 1 .. j) + f[k] /\ Total(f, 1 .. j) \in Int
  <2>1. \A z \in 1 .. k : f[z] \in Int
    <3> TAKE z \in 1 .. k
    <3>1. z = k \/ z \in 1 .. j
      BY <1>1
    <3> HIDE DEF j
    <3> QED
      BY <1>3, <1>6, <3>1
  <2>2. Total(f, 1 .. k) = Total(f, 1 .. j) + f[k]
    BY <2>1, TotalUpTo
  <2>3. Total(f, 1 .. j) \in Int
    <3> HIDE DEF j
    <3> QED
      BY <1>1, <1>3, TotalUpTo
  <2> QED
    BY <2>2, <2>3
<1>8. x < t <=> b = 0
  <2>1. x < (0 + 1) * t <=> p <= 0
    BY <1>1, DivAtMost
  <2>2. (0 + 1) * t = t
    BY <1>1
  <2> HIDE DEF p, b, t
  <2> QED
    BY <1>2, <1>5, <2>1, <2>2
<1> HIDE DEF p, b, t, j
<1>9. CASE b = 0
  <2>1. Total(f, 1 .. k) = x /\ x < t
    BY <1>1, <1>3, <1>5, <1>6, <1>7, <1>8, <1>9
  <2> QED
    BY <1>1, <2>1
<1>10. CASE b = 1
  <2>1. Total(f, 1 .. k) = x - 2 * t /\ ~(x < t)
    BY <1>1, <1>3, <1>5, <1>6, <1>7, <1>8, <1>10
  <2> QED
    BY <1>1, <2>1
<1> QED
    BY <1>2, <1>9, <1>10

\* The tile of an id is the tile the id was made of; where rows need the sign of
\* an int, the lower half of them is negative.
LEMMA TileOfId ==
    ASSUME IntBits > 1, NEW k \in Nat, 2 * k <= IntBits,
           NEW x \in 0 .. TwoTo[k] - 1, NEW y \in 0 .. TwoTo[k] - 1
    PROVE  quadtree_to_xy(xy_to_quadtree(x, y, k), k)
             = <<x, IF 2 * k < IntBits \/ 2 * y < TwoTo[k] THEN y ELSE y - TwoTo[k]>>
<1> DEFINE n == Interleaved(x, y, k)
           qt == xy_to_quadtree(x, y, k)
           f == ColumnBits(qt)
           g == RowBits(qt)
<1>1. x \in Nat /\ y \in Nat /\ IntBits \in Nat /\ x < TwoTo[k] /\ y < TwoTo[k]
      /\ TwoTo[k] \in Nat \ {0}
    BY TwoToPositive, WorldAssumption
<1>2. n \in 0 .. TwoTo[IntBits] - 1
  <2>1. 2 * k \in Nat /\ n \in 0 .. TwoTo[2 * k] - 1
    <3>1. \A m \in Nat : Interleaved(x, y, m) \in 0 .. TwoTo[2 * m] - 1
      BY <1>1, NumberRange
    <3> QED
      BY <3>1
  <2>2. TwoTo[2 * k] <= TwoTo[IntBits]
    <3>1. CASE 2 * k = IntBits
      BY <3>1, TwoToPositive, <1>1
    <3>2. CASE 2 * k < IntBits
      BY <1>1, <2>1, <3>2, Growing, TwoToPositive
    <3> QED
      BY <1>1, <3>1, <3>2
  <2>3. TwoTo[2 * k] \in Nat /\ TwoTo[IntBits] \in Nat
    BY <1>1, <2>1, TwoToPositive
  <2> HIDE DEF n
  <2> QED
    BY <2>1, <2>2, <2>3
<1>3. qt % TwoTo[IntBits] = n
  <2>1. qt = Signed(n)
    BY IdIsInterleaved
  <2> HIDE DEF n, qt
  <2> QED
    BY <1>2, <2>1, SignedFacts
<1> HIDE DEF qt
<1>4. ASSUME NEW z \in 1 .. k PROVE f[z] = Bit(x, z - 1) * TwoTo[z - 1]
  <2> DEFINE j == z - 1
             b == Bit(x, j)
  <2>1. j \in 0 .. k - 1 /\ j \in Nat /\ 2 * j \in Nat /\ 2 * j = j + j /\ 2 * j < IntBits - 1
    BY <1>1
  <2>2. Bit(n, 2 * j) = b
    BY <1>1, <2>1, InterleavedBits
  <2>3. b \in {0, 1}
    BY <1>1, <2>1, BitFacts
  <2> HIDE DEF j, b, n
  <2>4. Bit(qt % TwoTo[IntBits], 2 * j) = b
    BY <1>3, <2>2
  <2>5. PickBit(qt, 2 * j, j) = b * TwoTo[j]
    <3> DEFINE i == 2 * j
    <3>1. i \in Nat /\ i = j + j /\ i < IntBits /\ i # IntBits - 1 /\ Bit(qt % TwoTo[IntBits], i) = b
      BY <1>1, <2>1, <2>4
    <3> HIDE DEF i
    <3>2. PickBit(qt, i, j) = b * TwoTo[j]
      BY <2>1, <2>3, <3>1, BitShiftedDown
    <3> QED
      BY <3>2 DEF i
  <2>6. f[z] = PickBit(qt, 2 * j, j)
    BY DEF ColumnBits, j
  <2> QED
    BY <2>5, <2>6 DEF b, j
<1>5. ASSUME NEW z \in 1 .. k
      PROVE  g[z] = IF 2 * z = IntBits THEN -(Bit(y, z - 1) * TwoTo[z - 1])
                    ELSE Bit(y, z - 1) * TwoTo[z - 1]
  <2> DEFINE j == z - 1
             b == Bit(y, j)
             i == 2 * z - 1
  <2>1. j \in 0 .. k - 1 /\ j \in Nat /\ i \in Nat /\ i = z + j /\ i < IntBits /\ z \in Nat
        /\ i = 2 * j + 1 /\ (i = IntBits - 1 <=> 2 * z = IntBits)
    BY <1>1
  <2>2. Bit(n, 2 * j + 1) = b
    BY <1>1, <2>1, InterleavedBits
  <2>3. b \in {0, 1}
    BY <1>1, <2>1, BitFacts
  <2> HIDE DEF j, b, n, i
  <2>4. Bit(qt % TwoTo[IntBits], i) = b
    BY <1>3, <2>1, <2>2
  <2>5. PickBit(qt, i, z) = IF i = IntBits - 1 THEN -(b * TwoTo[j]) ELSE b * TwoTo[j]
    BY <2>1, <2>3, <2>4, BitShiftedDown
  <2>6. g[z] = PickBit(qt, i, z)
    BY DEF RowBits, i
  <2> QED
    BY <2>1, <2>5, <2>6 DEF b, j
<1>6. Total(f, 1 .. k) = x
  <2>1. Total(f, 1 .. k) + (x \div TwoTo[k]) * TwoTo[k] = x /\ \A z \in 1 .. k : f[z] \in Int
    <3> HIDE DEF f
    <3> QED
      BY <1>1, <1>4, BitsAddUp
  <2>2. x \div TwoTo[k] = 0
    BY <1>1, SmallDiv
  <2> HIDE DEF f
  <2>3. Total(f, 1 .. k) \in Int
    BY <2>1, TotalUpTo
  <2> QED
    BY <1>1, <2>1, <2>2, <2>3
<1>7. quadtree_to_xy(qt, k) = <<Total(f, 1 .. k), Total(g, 1 .. k)>>
  <2>1. quadtree_to_xy(qt, k) = <<quadtree_to_xy(qt, k)[1], quadtree_to_xy(qt, k)[2]>>
    BY DEF quadtree_to_xy
  <2> QED
    BY <2>1, ColumnSums, RowSums
<1>8. CASE 2 * k < IntBits
  <2>1. \A z \in 1 .. k : g[z] = Bit(y, z - 1) * TwoTo[z - 1]
    BY <1>1, <1>5, <1>8
  <2> HIDE DEF g
  <2>2. Total(g, 1 .. k) + (y \div TwoTo[k]) * TwoTo[k] = y /\ \A z \in 1 .. k : g[z] \in Int
    BY <1>1, <2>1, BitsAddUp
  <2>3. y \div TwoTo[k] = 0
    BY <1>1, SmallDiv
  <2>4. Total(g, 1 .. k) \in Int
    BY <2>2, TotalUpTo
  <2>5. Total(g, 1 .. k) = y
    BY <1>1, <2>2, <2>3, <2>4
  <2> QED
    BY <1>6, <1>7, <1>8, <2>5 DEF g, qt
<1>9. CASE 2 * k = IntBits
  <2>1. k \in Nat \ {0}
    BY <1>1, <1>9
  <2>2. \A z \in 1 .. k - 1 : g[z] = Bit(y, z - 1) * TwoTo[z - 1]
    <3> TAKE z \in 1 .. k - 1
    <3>1. z \in 1 .. k /\ 2 * z # IntBits
      BY <1>9
    <3> QED
      BY <1>5, <3>1
  <2>3. g[k] = -(Bit(y, k - 1) * TwoTo[k - 1])
    BY <1>5, <1>9, <2>1
  <2> HIDE DEF g
  <2>4. Total(g, 1 .. k) = IF 2 * y < TwoTo[k] THEN y ELSE y - TwoTo[k]
    BY <1>1, <2>1, <2>2, <2>3, SignedBitsAddUp
  <2> QED
    BY <1>6, <1>7, <1>9, <2>4 DEF g, qt
<1> QED
    BY <1>1, <1>8, <1>9

-----------------------------------------------------------------------------
(* The list.                                                                *)

\* Zoom levels whose numbers fit into an int, perhaps with its sign.
LEMMA ZoomFits ==
    ASSUME options \in Options
    PROVE  /\ IntBits \in Nat /\ IntBits > 1 /\ Zoom \in Nat /\ 2 * Zoom <= IntBits
           /\ options.min \in Nat /\ MapWidth = TwoTo[Zoom] /\ MapWidth \in Nat \ {0}
<1>1. IntBits \in Nat /\ options.max \in 1 .. (IntBits \div 2) /\ options.min \in Nat
    BY WorldAssumption, OptionsAssumption
<1>2. IntBits \div 2 \in Int /\ 2 * (IntBits \div 2) <= IntBits
    BY <1>1
<1>3. Zoom \in 1 .. (IntBits \div 2)
    BY <1>1 DEF Zoom
<1>4. Zoom \in Nat /\ 2 * Zoom <= IntBits /\ Zoom >= 1
  <2> DEFINE h == IntBits \div 2
  <2>1. Zoom \in 1 .. h /\ h \in Int /\ 2 * h <= IntBits
    BY <1>2, <1>3
  <2> HIDE DEF h
  <2> QED
    BY <1>1, <2>1
<1>5. MapWidth = TwoTo[Zoom] /\ MapWidth \in Nat \ {0}
    BY <1>4, TwoToPositive DEF MapWidth
<1> QED
    BY <1>1, <1>4, <1>5

\* Ids are values of an int, and with a bit to spare they are the numbers.
LEMMA IdsInRange ==
    ASSUME options \in Options, NEW x \in Nat, NEW y \in Nat, NEW k \in Nat, k <= Zoom
    PROVE  /\ xy_to_quadtree(x, y, k) \in -TwoTo[IntBits - 1] .. TwoTo[IntBits - 1] - 1
           /\ xy_to_quadtree(x, y, k) \in Int
           /\ IdsFit => xy_to_quadtree(x, y, k) = Interleaved(x, y, k)
           /\ IdsFit => xy_to_quadtree(x, y, k) \in Nat
<1> DEFINE n == Interleaved(x, y, k)
           id == xy_to_quadtree(x, y, k)
           h == TwoTo[IntBits - 1]
<1>1. IntBits \in Nat /\ IntBits > 1 /\ 2 * Zoom <= IntBits /\ 2 * k <= 2 * Zoom
      /\ IntBits - 1 \in Nat /\ 2 * k \in Nat /\ Zoom \in Nat
    BY ZoomFits
<1>2. n \in 0 .. TwoTo[2 * k] - 1
  <2>1. \A m \in Nat : Interleaved(x, y, m) \in 0 .. TwoTo[2 * m] - 1
    BY NumberRange
  <2> QED
    BY <2>1
<1>3. h \in Nat /\ TwoTo[IntBits] = 2 * h /\ TwoTo[2 * k] \in Nat
  <2>1. IntBits # 0
    BY <1>1
  <2> QED
    BY <1>1, <2>1, TwoToIs, TwoToPositive
<1>4. 2 * k = IntBits \/ 2 * k = IntBits - 1 \/ 2 * k < IntBits - 1
    BY <1>1
<1>5. 2 * k < IntBits - 1 => TwoTo[2 * k] < h
    BY <1>1, Growing
<1>6. id = Signed(n)
    BY IdIsInterleaved
<1> HIDE DEF n, id, h
<1>7. n \in 0 .. TwoTo[IntBits] - 1
  <2>1. TwoTo[2 * k] <= TwoTo[IntBits]
    BY <1>1, <1>3, <1>4, <1>5 DEF h
  <2> QED
    BY <1>2, <1>3, <2>1
<1>8. id \in -h .. h - 1 /\ id = IF n < h THEN n ELSE n - TwoTo[IntBits]
    BY <1>1, <1>6, <1>7, SignedFacts DEF h
<1>9. IdsFit => n < h
  <2>1. IdsFit => 2 * k # IntBits
    BY <1>1 DEF IdsFit
  <2>2. 2 * k # IntBits => TwoTo[2 * k] <= h
    BY <1>3, <1>4, <1>5 DEF h
  <2> QED
    BY <1>2, <1>3, <2>1, <2>2
<1>10. id \in Int
    BY <1>3, <1>8
<1>11. n \in Nat
    BY <1>2
<1> QED
    BY <1>8, <1>9, <1>10, <1>11 DEF n, id, h

\* One line of the list, while ids fit: the tile above, under its own number.
LEMMA RowOfTile ==
    ASSUME options \in Options, IdsFit, NEW t \in Tiles, NEW s \in 0 .. Zoom
    PROVE  /\ Row(<<Id(t[1], t[2]), s>>) = Ancestor(t, Zoom - s)
           /\ NumberOf(Ancestor(t, Zoom - s)) = Shifted(<<Id(t[1], t[2]), s>>)
           /\ Ancestor(t, Zoom - s)
                = [zoom |-> Zoom - s,
                   x |-> quadtree_to_xy(Shifted(<<Id(t[1], t[2]), s>>), Zoom - s)[1],
                   y |-> quadtree_to_xy(Shifted(<<Id(t[1], t[2]), s>>), Zoom - s)[2]]
           /\ Shifted(<<Id(t[1], t[2]), s>>) \in Int
<1> DEFINE x == t[1]
           y == t[2]
           k == Zoom - s
           u == x \div TwoTo[s]
           v == y \div TwoTo[s]
           e == <<Id(x, y), s>>
<1>1. Zoom \in Nat /\ IntBits \in Nat /\ IntBits > 1 /\ 2 * Zoom <= IntBits /\ MapWidth = TwoTo[Zoom]
    BY ZoomFits
<1>2. x \in Nat /\ y \in Nat /\ x < TwoTo[Zoom] /\ y < TwoTo[Zoom]
  <2>1. x \in 0 .. MapWidth - 1 /\ y \in 0 .. MapWidth - 1 /\ MapWidth \in Nat
    BY ZoomFits DEF Tiles
  <2> HIDE DEF x, y
  <2> QED
    BY <1>1, <2>1
<1>3. k \in Nat /\ k <= Zoom /\ s \in Nat /\ s \in 0 .. Zoom /\ Zoom - s = k /\ Zoom = k + s /\ Zoom - k = s
      /\ 2 * k < IntBits /\ 2 * k <= IntBits
    BY <1>1 DEF IdsFit
<1> HIDE DEF x, y, k
<1>4. u \in Nat /\ v \in Nat /\ u < TwoTo[k] /\ v < TwoTo[k] /\ TwoTo[k] \in Nat \ {0}
  <2> DEFINE a == TwoTo[k]
             b == TwoTo[s]
  <2>1. a \in Nat \ {0} /\ b \in Nat \ {0} /\ TwoTo[Zoom] = a * b
    BY <1>3, TwoToPositive, TwoToSum
  <2>2. u \in Nat /\ v \in Nat
    BY <1>2, <1>3, BitFacts
  <2> HIDE DEF a, b
  <2>3. x \div b <= a - 1 /\ y \div b <= a - 1
    <3>1. a - 1 \in Int /\ (a - 1) + 1 = a
      BY <2>1
    <3>2. x < ((a - 1) + 1) * b /\ y < ((a - 1) + 1) * b
      BY <1>2, <2>1, <3>1
    <3> QED
      BY <1>2, <2>1, <3>1, <3>2, DivAtMost
  <2> QED
    BY <2>1, <2>2, <2>3 DEF a, b
<1>5. Shifted(e) = xy_to_quadtree(u, v, k)
  <2>1. Id(x, y) = Interleaved(x, y, Zoom)
    BY <1>1, <1>2, IdsInRange DEF Id
  <2>2. xy_to_quadtree(u, v, k) = Interleaved(u, v, k)
    BY <1>3, <1>4, IdsInRange
  <2>3. Interleaved(x, y, Zoom) \div TwoTo[2 * s] = Interleaved(u, v, k)
    BY <1>1, <1>2, <1>3, ShiftedUp
  <2> QED
    BY <2>1, <2>2, <2>3 DEF Shifted
<1>6. Shifted(e) \in Int
    BY <1>3, <1>4, <1>5, IdsInRange
<1>7. quadtree_to_xy(Shifted(e), k) = <<u, v>>
  <2>1. u \in 0 .. TwoTo[k] - 1 /\ v \in 0 .. TwoTo[k] - 1
    BY <1>4
  <2> HIDE DEF u, v
  <2> QED
    BY <1>1, <1>3, <1>5, <2>1, TileOfId
<1>8. Ancestor(t, k) = [zoom |-> k, x |-> u, y |-> v]
    BY <1>3 DEF Ancestor, x, y
<1> HIDE DEF u, v
<1>9. Row(e) = [zoom |-> k, x |-> u, y |-> v]
    BY <1>3, <1>7 DEF Row
<1>10. NumberOf(Ancestor(t, k)) = Shifted(e)
    BY <1>5, <1>8 DEF NumberOf
<1> QED
    BY <1>6, <1>7, <1>8, <1>9, <1>10 DEF x, y, k

\* Lines that are left out have the number of an earlier one that is written.
LEMMA EarliestWritten ==
    ASSUME NEW e \in dirty \X (0 .. Span),
           \A f \in dirty \X (0 .. Span) : f[1] \in Nat /\ f[2] \in Nat
    PROVE  \E f \in ToWrite : Shifted(f) = Shifted(e)
<1> DEFINE all == dirty \X (0 .. Span)
           same == {f \in all : Shifted(f) = Shifted(e)}
           firsts == {f[1] : f \in same}
<1>1. same # {} /\ \A f \in same : f \in all /\ f[1] \in Nat /\ f[2] \in Nat
    OBVIOUS
<1> HIDE DEF same
<1>2. firsts \subseteq Nat /\ firsts # {}
    BY <1>1
<1>3. PICK a \in firsts : \A b \in firsts : a <= b
  <2> HIDE DEF firsts
  <2> QED
    BY <1>2, LeastOf
<1> DEFINE seconds == {f[2] : f \in {g \in same : g[1] = a}}
<1>4. seconds \subseteq Nat /\ seconds # {}
    BY <1>1
<1>5. PICK c \in seconds : \A d \in seconds : c <= d
  <2> HIDE DEF seconds
  <2> QED
    BY <1>4, LeastOf
<1>6. PICK f \in same : f[1] = a /\ f[2] = c
    OBVIOUS
<1>7. ASSUME NEW g \in all, Earlier(g, f), Shifted(g) = Shifted(f) PROVE FALSE
  <2>1. g \in same
    BY <1>6, <1>7 DEF same
  <2>2. g[1] \in firsts
    BY <2>1
  <2>3. a <= g[1] /\ a \in Nat /\ g[1] \in Nat
    BY <1>1, <1>2, <1>3, <2>1, <2>2
  <2>4. g[1] = a /\ g[2] < c
    BY <1>6, <1>7, <2>3 DEF Earlier
  <2>5. g[2] \in seconds
    BY <2>1, <2>4
  <2>6. c <= g[2] /\ c \in Nat /\ g[2] \in Nat
    BY <1>1, <1>4, <1>5, <2>1, <2>5
  <2> QED
    BY <2>4, <2>6
<1>8. f \in all /\ Shifted(f) = Shifted(e)
    BY <1>6 DEF same
<1>9. f \in ToWrite
    BY <1>7, <1>8 DEF ToWrite
<1> QED
    BY <1>8, <1>9

\* While ids fit, the list is the pyramid over the expired tiles.
LEMMA Pyramid ==
    ASSUME options \in Options, IdsFit, dirty \subseteq IdsOf(Tiles),
           list = {Row(e) : e \in ToWrite}
    PROVE  ListIsPyramid
<1> DEFINE all == dirty \X (0 .. Span)
           wanted == {Ancestor(t, zoom) : t \in DirtyTiles, zoom \in options.min .. Zoom}
<1>1. Zoom \in Nat /\ options.min \in Nat /\ Span = Zoom - options.min
    BY ZoomFits DEF Span
<1>2. ASSUME NEW t \in Tiles PROVE Id(t[1], t[2]) \in Nat
  <2>1. t[1] \in 0 .. MapWidth - 1 /\ t[2] \in 0 .. MapWidth - 1
    BY DEF Tiles
  <2>2. t[1] \in Nat /\ t[2] \in Nat
    BY <2>1, ZoomFits
  <2> DEFINE x == t[1]
             y == t[2]
  <2>3. x \in Nat /\ y \in Nat /\ Zoom <= Zoom
    BY <1>1, <2>2
  <2> HIDE DEF x, y
  <2>4. xy_to_quadtree(x, y, Zoom) \in Nat
    BY <1>1, <2>3, IdsInRange
  <2> QED
    BY <2>4 DEF Id, x, y
<1>3. ASSUME NEW e \in all
      PROVE  \E t \in DirtyTiles : e = <<Id(t[1], t[2]), e[2]>> /\ e[2] \in 0 .. Span
  <2>1. e[1] \in dirty /\ e[2] \in 0 .. Span /\ e = <<e[1], e[2]>>
    OBVIOUS
  <2>2. PICK t \in Tiles : e[1] = Id(t[1], t[2])
    BY <2>1 DEF IdsOf, Id
  <2>3. t \in DirtyTiles
    BY <2>1, <2>2 DEF DirtyTiles, Id
  <2> QED
    BY <2>1, <2>2, <2>3
<1>4. \A e \in all : e[1] \in Nat /\ e[2] \in Nat
  <2> TAKE e \in all
  <2>1. PICK t \in DirtyTiles : e = <<Id(t[1], t[2]), e[2]>> /\ e[2] \in 0 .. Span
    BY <1>3
  <2>2. Id(t[1], t[2]) \in Nat
    BY <1>2 DEF DirtyTiles
  <2> QED
    BY <1>1, <2>1, <2>2
<1>5. ASSUME NEW t \in DirtyTiles, NEW s \in 0 .. Span
      PROVE  /\ <<Id(t[1], t[2]), s>> \in all
             /\ Zoom - s \in options.min .. Zoom
             /\ Row(<<Id(t[1], t[2]), s>>) = Ancestor(t, Zoom - s)
             /\ NumberOf(Ancestor(t, Zoom - s)) = Shifted(<<Id(t[1], t[2]), s>>)
             /\ Ancestor(t, Zoom - s)
                  = [zoom |-> Zoom - s,
                     x |-> quadtree_to_xy(Shifted(<<Id(t[1], t[2]), s>>), Zoom - s)[1],
                     y |-> quadtree_to_xy(Shifted(<<Id(t[1], t[2]), s>>), Zoom - s)[2]]
  <2>1. t \in Tiles /\ Id(t[1], t[2]) \in dirty
    BY DEF DirtyTiles, Id
  <2>2. s \in 0 .. Zoom /\ Zoom - s \in options.min .. Zoom
    BY <1>1
  <2> QED
    BY <2>1, <2>2, RowOfTile
<1>6. ToWrite \subseteq all
    BY DEF ToWrite
<1>7. ASSUME NEW e \in all
      PROVE  Row(e) \in wanted /\ NumberOf(Row(e)) = Shifted(e)
  <2>1. PICK t \in DirtyTiles : e = <<Id(t[1], t[2]), e[2]>> /\ e[2] \in 0 .. Span
    BY <1>3
  <2>2. Row(e) = Ancestor(t, Zoom - e[2]) /\ Zoom - e[2] \in options.min .. Zoom
        /\ NumberOf(Ancestor(t, Zoom - e[2])) = Shifted(e)
    BY <1>5, <2>1
  <2> QED
    BY <2>2
<1>8. list \subseteq wanted
    BY <1>6, <1>7
<1>9. ASSUME NEW r \in wanted
      PROVE  r \in list \/ \E s \in list : s.zoom # r.zoom /\ NumberOf(s) = NumberOf(r)
  <2>1. PICK t \in DirtyTiles, zoom \in options.min .. Zoom : r = Ancestor(t, zoom)
    OBVIOUS
  <2> DEFINE up == Zoom - zoom
             e == <<Id(t[1], t[2]), up>>
  <2>2. up \in 0 .. Span /\ Zoom - up = zoom
    BY <1>1
  <2> HIDE DEF up, wanted
  <2>3. e \in all /\ NumberOf(r) = Shifted(e) /\ r = Row(e)
        /\ r = [zoom |-> zoom, x |-> quadtree_to_xy(Shifted(e), zoom)[1],
                               y |-> quadtree_to_xy(Shifted(e), zoom)[2]]
    BY <1>5, <2>1, <2>2
  <2> HIDE DEF e
  <2>4. PICK f \in ToWrite : Shifted(f) = Shifted(e)
    BY <1>4, <2>3, EarliestWritten
  <2>5. PICK tt \in DirtyTiles : f = <<Id(tt[1], tt[2]), f[2]>> /\ f[2] \in 0 .. Span
    BY <1>3, <1>6
  <2>6. Row(f) \in list
    OBVIOUS
  <2>7. Row(f) = [zoom |-> Zoom - f[2], x |-> quadtree_to_xy(Shifted(f), Zoom - f[2])[1],
                                        y |-> quadtree_to_xy(Shifted(f), Zoom - f[2])[2]]
        /\ NumberOf(Row(f)) = Shifted(f)
    BY <1>5, <2>5
  <2>8. CASE Zoom - f[2] = zoom
    BY <2>3, <2>4, <2>6, <2>7, <2>8
  <2>9. CASE Zoom - f[2] # zoom
    <3>1. Row(f).zoom # r.zoom
      BY <2>3, <2>7, <2>9
    <3> QED
      BY <2>3, <2>4, <2>6, <2>7, <3>1
  <2> QED
    BY <2>8, <2>9
<1>10. ASSUME NEW r \in list, NEW s \in list, NumberOf(r) = NumberOf(s) PROVE r = s
  <2>1. PICK e \in ToWrite, f \in ToWrite : r = Row(e) /\ s = Row(f)
    OBVIOUS
  <2>2. e \in all /\ f \in all
    BY <1>6
  <2>3. Shifted(e) = Shifted(f)
    BY <1>7, <1>10, <2>1, <2>2
  <2>4. ~Earlier(e, f) /\ ~Earlier(f, e)
    BY <2>3 DEF ToWrite
  <2>5. e[1] \in Nat /\ e[2] \in Nat /\ f[1] \in Nat /\ f[2] \in Nat
    BY <1>4, <2>2
  <2>6. e[1] = f[1] /\ e[2] = f[2]
    BY <2>4, <2>5 DEF Earlier
  <2>7. e = f
    BY <2>2, <2>6
  <2> QED
    BY <2>1, <2>7
<1> QED
  <2>1. \A r, s \in list : NumberOf(r) = NumberOf(s) => r = s
    BY <1>10
  <2> HIDE DEF all
  <2> QED
    BY <1>8, <1>9, <2>1 DEF ListIsPyramid

\* At the zoom level of the ids alone, every tile has its line.
LEMMA OneLevel ==
    ASSUME options \in Options, options.min = Zoom, dirty \subseteq IdsOf(Tiles),
           list = {Row(e) : e \in ToWrite}
    PROVE  RowsWrapAtSign
<1> DEFINE RowOf(t) == [zoom |-> Zoom, x |-> t[1],
               y |-> IF IdsFit \/ 2 * t[2] < MapWidth THEN t[2] ELSE t[2] - MapWidth]
           id(t) == Id(t[1], t[2])
<1>1. /\ IntBits \in Nat /\ IntBits > 1 /\ Zoom \in Nat /\ 2 * Zoom <= IntBits
      /\ MapWidth = TwoTo[Zoom] /\ MapWidth \in Nat \ {0} /\ Span = 0 /\ 0 .. Span = {0}
  <2>1. Span = 0
    BY ZoomFits DEF Span
  <2>2. 0 .. 0 = {0}
    OBVIOUS
  <2> QED
    BY <2>1, <2>2, ZoomFits
<1>2. ASSUME NEW t \in Tiles
      PROVE  /\ id(t) \in Int /\ Shifted(<<id(t), 0>>) = id(t)
             /\ Row(<<id(t), 0>>) = RowOf(t)
  <2> DEFINE x == t[1]
             y == t[2]
             tile == quadtree_to_xy(id(t), Zoom)
  <2>1. x \in 0 .. TwoTo[Zoom] - 1 /\ y \in 0 .. TwoTo[Zoom] - 1
    BY <1>1 DEF Tiles
  <2>2. x \in Nat /\ y \in Nat
    BY <1>1, <2>1
  <2> HIDE DEF x, y
  <2>3. Id(x, y) \in Int
    BY <1>1, <2>2, IdsInRange DEF Id
  <2>4. Shifted(<<Id(x, y), 0>>) = Id(x, y)
    <3>1. 2 * 0 = 0 /\ TwoTo[0] = 1
      BY TwoToIs
    <3> QED
      BY <2>3, <3>1 DEF Shifted
  <2>5. quadtree_to_xy(Id(x, y), Zoom)
          = <<x, IF 2 * Zoom < IntBits \/ 2 * y < TwoTo[Zoom] THEN y ELSE y - TwoTo[Zoom]>>
    BY <1>1, <2>1, TileOfId DEF Id
  <2>6. Zoom - 0 = Zoom
    BY <1>1
  <2>7. Row(<<Id(x, y), 0>>)
          = [zoom |-> Zoom, x |-> x,
             y |-> IF IdsFit \/ 2 * y < MapWidth THEN y ELSE y - MapWidth]
    BY <1>1, <2>4, <2>5, <2>6 DEF Row, IdsFit
  <2> QED
    BY <2>3, <2>4, <2>7 DEF x, y
<1>3. \A i \in dirty : \E t \in DirtyTiles : i = id(t) /\ t \in Tiles
    BY DEF IdsOf, DirtyTiles, Id
<1>4. \A t \in DirtyTiles : t \in Tiles /\ id(t) \in dirty
    BY DEF DirtyTiles, Id
<1> HIDE DEF id, RowOf
<1>5. ToWrite = dirty \X {0}
  <2>1. ASSUME NEW e \in dirty \X {0}, NEW f \in dirty \X {0}, Shifted(f) = Shifted(e)
        PROVE  ~Earlier(f, e)
    <3>1. e = <<e[1], 0>> /\ f = <<f[1], 0>> /\ e[1] \in dirty /\ f[1] \in dirty
          /\ e[2] = 0 /\ f[2] = 0
      OBVIOUS
    <3>2. Shifted(e) = e[1] /\ Shifted(f) = f[1] /\ e[1] \in Int
      BY <1>2, <1>3, <3>1
    <3>3. e[1] = f[1]
      BY <2>1, <3>2
    <3> QED
      BY <3>1, <3>2, <3>3 DEF Earlier
  <2> QED
    BY <1>1, <2>1 DEF ToWrite
<1>6. list = {Row(<<i, 0>>) : i \in dirty}
  <2>1. \A e \in dirty \X {0} : e[1] \in dirty /\ e = <<e[1], 0>>
    OBVIOUS
  <2>2. \A i \in dirty : <<i, 0>> \in dirty \X {0}
    OBVIOUS
  <2>3. \A r : r \in list <=> \E e \in dirty \X {0} : r = Row(e)
    BY <1>5
  <2>4. \A r : r \in list <=> \E i \in dirty : r = Row(<<i, 0>>)
    <3> TAKE r
    <3>1. ASSUME r \in list PROVE \E i \in dirty : r = Row(<<i, 0>>)
      <4>1. PICK e \in dirty \X {0} : r = Row(e)
        BY <2>3, <3>1
      <4>2. e[1] \in dirty /\ r = Row(<<e[1], 0>>)
        BY <2>1, <4>1
      <4> QED
        BY <4>2
    <3>2. ASSUME NEW i \in dirty, r = Row(<<i, 0>>) PROVE r \in list
      BY <2>2, <2>3, <3>2
    <3> QED
      BY <3>1, <3>2
  <2> QED
    BY <2>4
<1>7. list = {RowOf(t) : t \in DirtyTiles}
  <2>1. ASSUME NEW i \in dirty PROVE \E t \in DirtyTiles : Row(<<i, 0>>) = RowOf(t)
    BY <1>2, <1>3
  <2>2. ASSUME NEW t \in DirtyTiles PROVE \E i \in dirty : RowOf(t) = Row(<<i, 0>>)
    BY <1>2, <1>4
  <2> QED
    BY <1>6, <2>1, <2>2
<1> QED
    BY <1>7 DEF RowOf, RowsWrapAtSign

\* Also of rows that are not on the map the ids are those of tiles of the map.
LEMMA AllowedIds ==
    ASSUME options \in Options, NEW g, g.nodes \in Seq(Grid)
    PROVE  IdsOf(Allowed(g)) \subseteq IdsOf(Tiles)
<1> DEFINE line == g.nodes
<1>1. /\ Unit \in Nat \ {0} /\ MapWidth \in Nat \ {0} /\ World \in Nat /\ Beyond \in Nat
    BY MapFacts, WorldAssumption
<1>2. \A n \in Int : Around(n) \in 0 .. MapWidth - 1 /\ n % MapWidth \in 0 .. MapWidth - 1
    BY <1>1 DEF Around
<1>3. TilesAt(line, Int) \subseteq Int \X Int
  <2>1. ASSUME NEW i \in DOMAIN line
        PROVE  <<Around(coords_to_tile(line[i])[1] \div Unit), Trunc(coords_to_tile(line[i])[2], Unit)>>
                 \in Int \X Int
    <3>1. line[i] \in Grid
      OBVIOUS
    <3>2. PICK x \in 0 .. World, y \in -Beyond .. World + Beyond :
              coords_to_tile(line[i]) = <<x, y>>
      BY <3>1, PlaceOnMap
    <3>3. x \in Int /\ y \in Int /\ x \div Unit \in Int
      BY <1>1, DivFacts
    <3>4. Trunc(y, Unit) \in Int
      BY <1>1, <3>3, TruncFacts
    <3>5. Around(x \div Unit) \in Int
      BY <1>2, <3>3
    <3> QED
      BY <3>2, <3>4, <3>5
  <2> QED
    BY <2>1 DEF TilesAt
<1>4. \A c \in Columns : Around(c) \in Int
    BY <1>1, <1>2 DEF Columns
<1>5. Rows \subseteq Int
  <2>1. Beyond \div Unit \in Int
    BY <1>1
  <2> QED
    BY <1>1, <2>1 DEF Rows
<1>6. \A s : TouchedTiles(s) \subseteq Int \X Int
  <2> TAKE s
  <2>1. \A c \in Columns, r \in Rows : <<Around(c), r>> \in Int \X Int
    BY <1>4, <1>5
  <2>2. TouchedTiles(s) \subseteq {<<Around(t[1]), t[2]>> : t \in Columns \X Rows}
    BY DEF TouchedTiles
  <2> HIDE DEF line
  <2> QED
    BY <2>1, <2>2
<1>7. \A s : StrayTiles(s) \subseteq Int \X Int
  <2> TAKE s
  <2>1. StrayTiles(s) \subseteq (0 .. MapWidth - 1) \X Rows
    BY DEF StrayTiles
  <2>2. 0 .. MapWidth - 1 \subseteq Int
    BY <1>1
  <2> QED
    BY <1>5, <2>1, <2>2
<1>8. Allowed(g) \subseteq Int \X Int
    BY <1>3, <1>6, <1>7 DEF Allowed
<1>9. ASSUME NEW t \in Int \X Int PROVE Id(t[1], t[2]) \in IdsOf(Tiles)
  <2> DEFINE c == t[1]
             r == t[2]
             x == c % MapWidth
             y == r % MapWidth
             u == <<x, y>>
  <2>1. c \in Int /\ r \in Int
    OBVIOUS
  <2>2. x \in 0 .. MapWidth - 1 /\ y \in 0 .. MapWidth - 1
    BY <1>2, <2>1
  <2>3. Id(c, r) = Id(x, r)
    BY <2>1, RemainderId
  <2>4. x \in Int /\ Id(x, r) = Id(x, y)
    <3>1. x \in Int
      BY <2>2
    <3> HIDE DEF x
    <3> QED
      BY <2>1, <3>1, RemainderId
  <2> HIDE DEF c, r, x, y
  <2>5. u \in Tiles /\ u[1] = x /\ u[2] = y
    BY <2>2 DEF Tiles
  <2> HIDE DEF u
  <2>6. Id(c, r) \in IdsOf(Tiles)
    BY <2>3, <2>4, <2>5 DEF IdsOf, Id
  <2> QED
    BY <2>6 DEF c, r
<1>10. \A t \in Allowed(g) : xy_to_quadtree(t[1], t[2], Zoom) \in IdsOf(Tiles)
    BY <1>8, <1>9 DEF Id
<1> QED
    BY <1>10 DEF IdsOf

\* The invariant: geometries lie on the grid, and the list was made of the ids that
\* are still there.
OnGrid == \A g \in done : g.nodes \in Seq(Grid)
ListInv ==
    /\ TilesInv /\ OnGrid
    /\ pc = "written" => list = {Row(e) : e \in ToWrite}

\* The invariant says what the property says of the list that is written.
LEMMA ListFollows ==
    ASSUME ListInv
    PROVE  ListFollowsTiles
<1>1. options \in Options
    BY DEF ListInv, TilesInv
<1>2. dirty \subseteq IdsOf(Tiles)
  <2>2. \A g \in done : IdsOf(Allowed(g)) \subseteq IdsOf(Tiles)
    BY <1>1, AllowedIds DEF ListInv, OnGrid
  <2>1. dirty \subseteq UNION {IdsOf(Allowed(g)) : g \in done}
    BY DEF ListInv, TilesInv, OnlyTouchedTilesExpired
  <2> QED
    BY <2>1, <2>2
<1>3. ASSUME NEW t \in Tiles
      PROVE  xy_to_quadtree(t[1], t[2], Zoom) \in -TwoTo[IntBits - 1] .. TwoTo[IntBits - 1] - 1
  <2> DEFINE x == t[1]
             y == t[2]
  <2>1. x \in 0 .. MapWidth - 1 /\ y \in 0 .. MapWidth - 1
    BY DEF Tiles
  <2>2. x \in Nat /\ y \in Nat /\ Zoom \in Nat /\ Zoom <= Zoom
    BY <1>1, <2>1, ZoomFits
  <2> HIDE DEF x, y
  <2>3. xy_to_quadtree(x, y, Zoom) \in -TwoTo[IntBits - 1] .. TwoTo[IntBits - 1] - 1
    BY <1>1, <2>2, IdsInRange
  <2> QED
    BY <2>3 DEF x, y
<1>4. dirty \subseteq -TwoTo[IntBits - 1] .. TwoTo[IntBits - 1] - 1
    BY <1>2, <1>3 DEF IdsOf
<1>5. pc = "written" /\ IdsFit => ListIsPyramid
    BY <1>1, <1>2, Pyramid DEF ListInv
<1>6. pc = "written" /\ options.min = Zoom => RowsWrapAtSign
    BY <1>1, <1>2, OneLevel DEF ListInv
<1> QED
    BY <1>4, <1>5, <1>6 DEF ListFollowsTiles

\* There is no geometry and no list in the beginning,
LEMMA ListInit == Init => ListInv
BY TilesInit DEF Init, ListInv, OnGrid

\* and every action keeps the invariant.
LEMMA ListStep == ListInv /\ [Next]_vars => ListInv'
<1> SUFFICES ASSUME ListInv, [Next]_vars PROVE ListInv'
    OBVIOUS
<1>1. TilesInv'
    BY TilesStep DEF ListInv
<1>2. ASSUME NEW kind, NEW nodes \in Seq(Grid), done' = done \cup {[kind |-> kind, nodes |-> nodes]}
      PROVE  OnGrid'
    BY <1>2 DEF ListInv, OnGrid
<1>3. ASSUME NEW kind, NEW nodes \in Seq(Grid), NEW tiles, Expire(kind, nodes, tiles) PROVE ListInv'
  <2>1. OnGrid'
    BY <1>2, <1>3 DEF Expire
  <2>2. pc' = "running"
    BY <1>3 DEF Expire, CanExpire
  <2> QED
    BY <1>1, <2>1, <2>2 DEF ListInv
<1>4. (\A p \in Nodes : <<p>> \in Seq(Grid)) /\ (\A l \in Lines : l \in Seq(Grid))
    BY PlacesAssumption
<1>5. CASE ExpireNode
    BY <1>3, <1>4, <1>5 DEF ExpireNode
<1>6. CASE ExpireOldWay
    BY <1>3, <1>4, <1>6 DEF ExpireOldWay
<1>7. CASE ExpireWay
    BY <1>3, <1>4, <1>7 DEF ExpireWay
<1>8. CASE ExpireRelationNode
    BY <1>3, <1>4, <1>8 DEF ExpireRelationNode
<1>9. CASE ExpireRelationWay
  <2>1. PICK l \in Lines : done' = done \cup {[kind |-> "relation_way", nodes |-> l]}
    BY <1>9 DEF ExpireRelationWay
  <2>2. OnGrid'
    BY <1>2, <1>4, <2>1
  <2>3. pc' # "written"
    BY <1>9 DEF ExpireRelationWay, CanExpire
  <2> QED
    BY <1>1, <2>2, <2>3 DEF ListInv
<1>10. ASSUME options' = options, dirty' = dirty
       PROVE  {Row(e) : e \in ToWrite}' = {Row(e) : e \in ToWrite}
  <2>1. Zoom' = Zoom /\ Span' = Span
    BY <1>10 DEF Zoom, Span
  <2> QED
    BY <1>10, <2>1 DEF Row, ToWrite
<1>11. CASE OutputAndDestroy
  <2>1. options' = options /\ dirty' = dirty /\ done' = done
    BY <1>11 DEF OutputAndDestroy
  <2>2. pc' = "written" => list' = {Row(e) : e \in ToWrite}
    BY <1>11 DEF OutputAndDestroy
  <2> QED
    BY <1>1, <1>10, <2>1, <2>2 DEF ListInv, OnGrid
<1>12. CASE UNCHANGED vars
  <2>1. options' = options /\ dirty' = dirty /\ done' = done /\ pc' = pc /\ list' = list
    BY <1>12 DEF vars
  <2> QED
    BY <1>1, <1>10, <2>1 DEF ListInv, OnGrid
<1> QED
    BY <1>5, <1>6, <1>7, <1>8, <1>9, <1>11, <1>12 DEF Next

\* The list is what the ids say: wherever numbers of tiles fit into an int without
\* its sign, it has the expired tiles and those above them on every level, each
\* number once; with one level alone it has every tile, in rows that are negative in
\* the southern half where the sign is needed; and ids never leave the range of an
\* int, for every width of it, every map, zoom levels up to half of this width and
\* any geometries.
THEOREM ListOfTiles == Spec => []ListFollowsTiles
<1>1. ListInv => ListFollowsTiles
    BY ListFollows
<1> QED
    BY <1>1, ListInit, ListStep, PTL DEF Spec
=============================================================================
