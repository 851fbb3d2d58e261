---------------------------- MODULE CommonLemmas ----------------------------
(***************************************************************************)
(* What the proofs about brackets and calendars share: induction over a    *)
(* bounded range, for sets, and what is built up step by step; powers of   *)
(* two; the circle method, which is arithmetic modulo an odd number of     *)
(* rounds; lists in the order of numbers that differ.                      *)
(***************************************************************************)
EXTENDS Integers, FiniteSetTheorems, WellFoundedInduction, TLAPS

-----------------------------------------------------------------------------
(* Induction, over the members of a set *)

\* What holds of 0, and of every number if of the one before it.
LEMMA Climb ==
    ASSUME NEW h \in Nat, NEW S, 0 \in S, \A k \in 0..h : (k \in S /\ k + 1 <= h) => k + 1 \in S
    PROVE  \A k \in 0..h : k \in S
  <1> SUFFICES ASSUME \E k \in 0..h : k \notin S PROVE FALSE
    OBVIOUS
  <1> DEFINE bad == {k \in Nat : k <= h /\ k \notin S}
  <1>1. bad \subseteq Nat /\ bad # {}
    OBVIOUS
  <1>2. PICK k \in bad : \A l \in bad : <<l, k>> \notin OpToRel(<, Nat)
    <2> HIDE DEF bad
    <2> QED
      BY <1>1, NatLessThanWellFounded, WFMin
  <1>3. k \in Nat /\ k <= h /\ k \notin S /\ k # 0
    BY <1>2
  <1>4. k - 1 \in Nat /\ k - 1 <= h /\ k - 1 < k /\ k - 1 \in 0..h
    BY <1>3
  <1>5. k - 1 \in S
    BY <1>2, <1>3, <1>4 DEF OpToRel
  <1>6. (k - 1) + 1 = k
    BY <1>3
  <1> QED
    BY <1>3, <1>4, <1>5, <1>6

\* The least number of a kind.
LEMMA LeastNumber ==
    ASSUME NEW S, S \subseteq Nat, S # {}
    PROVE  \E k \in S : \A l \in S : k <= l
  <1>1. PICK k \in S : \A l \in S : <<l, k>> \notin OpToRel(<, Nat)
    BY NatLessThanWellFounded, WFMin
  <1>2. ASSUME NEW l \in S PROVE k <= l
    <2>1. k \in Nat /\ l \in Nat
      OBVIOUS
    <2>2. l < k => <<l, k>> \in OpToRel(<, Nat)
      BY <2>1 DEF OpToRel
    <2>3. ~(l < k)
      BY <1>1, <2>2
    <2> QED
      BY <2>1, <2>3
  <1> QED
    BY <1>2

-----------------------------------------------------------------------------
(* Powers of two: the provers know nothing of them but that a set of k     *)
(* members has 2^k subsets.                                                *)

\* No doubling.
LEMMA PowerOfZero == 2^0 = 1
  OBVIOUS

\* A power of two is a number: it counts the subsets.
LEMMA PowerIsNat ==
    ASSUME NEW k \in Nat
    PROVE  2^k \in Nat
  <1>1. IsFiniteSet(1..k) /\ Cardinality(1..k) = k
    BY FS_Interval
  <1>2. IsFiniteSet(SUBSET (1..k)) /\ Cardinality(SUBSET (1..k)) = 2^k
    BY <1>1, FS_SUBSET
  <1> QED
    BY <1>2, FS_CardinalityType

\* One more doubling: a subset has the new member or it has not.
LEMMA PowerDoubles ==
    ASSUME NEW k \in Nat
    PROVE  2^(k + 1) = 2 * 2^k
  <1> DEFINE A == SUBSET (1..k)
             B == (SUBSET (1..k + 1)) \ A
             f == [a \in A |-> a \union {k + 1}]
  <1>0. \A x : x \in 1..k + 1 <=> (x \in 1..k \/ x = k + 1)
    OBVIOUS
  <1>1. /\ IsFiniteSet(1..k) /\ Cardinality(1..k) = k
        /\ IsFiniteSet(1..k + 1) /\ Cardinality(1..k + 1) = k + 1
    <2>1. k + 1 \in Nat
      OBVIOUS
    <2> QED
      BY <2>1, FS_Interval
  <1>2. /\ IsFiniteSet(A) /\ Cardinality(A) = 2^k
        /\ IsFiniteSet(SUBSET (1..k + 1)) /\ Cardinality(SUBSET (1..k + 1)) = 2^(k + 1)
    BY <1>1, FS_SUBSET
  <1>3. f \in Bijection(A, B)
    <2>1. ASSUME NEW a \in A PROVE a \union {k + 1} \in B
      <3>1. a \union {k + 1} \subseteq 1..k + 1
        BY <1>0
      <3>2. k + 1 \notin 1..k
        OBVIOUS
      <3>3. ~(a \union {k + 1} \subseteq 1..k)
        BY <3>2
      <3> QED
        BY <3>1, <3>3
    <2>2. \A a, b \in A : a \union {k + 1} = b \union {k + 1} => a = b
      <3> SUFFICES ASSUME NEW a \in A, NEW b \in A, a \union {k + 1} = b \union {k + 1}
                   PROVE  a = b
        OBVIOUS
      <3>1. k + 1 \notin a /\ k + 1 \notin b
        OBVIOUS
      <3> QED
        BY <3>1
    <2>3. \A b \in B : \E a \in A : a \union {k + 1} = b
      <3> TAKE b \in B
      <3>1. b \ {k + 1} \in A /\ k + 1 \in b
        <4>1. b \subseteq 1..k + 1 /\ ~(b \subseteq 1..k)
          OBVIOUS
        <4>2. b \ {k + 1} \subseteq 1..k
          BY <1>0, <4>1
        <4>3. k + 1 \in b
          BY <1>0, <4>1
        <4> QED
          BY <4>2, <4>3
      <3>2. (b \ {k + 1}) \union {k + 1} = b
        BY <3>1
      <3> QED
        BY <3>1, <3>2
    <2>4. f \in [A -> B] /\ \A a \in A : f[a] = a \union {k + 1}
      <3> HIDE DEF A, B
      <3> QED
        BY <2>1
    <2>5. ASSUME NEW a \in A, NEW b \in A, f[a] = f[b] PROVE a = b
      <3>1. a \union {k + 1} = b \union {k + 1}
        BY <2>4, <2>5
      <3> HIDE DEF A, B, f
      <3> QED
        BY <2>2, <3>1
    <2>6. ASSUME NEW b \in B PROVE \E a \in A : f[a] = b
      <3>1. PICK a \in A : a \union {k + 1} = b
        BY <2>3
      <3> HIDE DEF A, B, f
      <3>2. f[a] = b
        BY <2>4, <3>1
      <3> QED
        BY <3>2
    <2> HIDE DEF A, B, f
    <2> QED
      BY <2>4, <2>5, <2>6 DEF Bijection, Injection, Surjection, IsInjective
  <1>4. IsFiniteSet(B) /\ Cardinality(B) = 2^k
    BY <1>2, <1>3, FS_Bijection DEF ExistsBijection
  <1>5. A \union B = SUBSET (1..k + 1) /\ A \intersect B = {}
    <2>1. SUBSET (1..k) \subseteq SUBSET (1..k + 1)
      BY <1>0
    <2> QED
      BY <2>1
  <1>6. Cardinality(SUBSET (1..k + 1)) = 2^k + 2^k - 0
    <2> HIDE DEF A, B
    <2> QED
      BY <1>2, <1>4, <1>5, FS_Union, FS_EmptySet
  <1> QED
    BY <1>2, <1>6, PowerIsNat

\* Every power is more than its exponent, and they grow.
LEMMA Powers ==
    ASSUME NEW h \in Nat
    PROVE  \A k \in 0..h : 2^k \in Nat /\ k < 2^k /\ 2^(k + 1) = 2 * 2^k
  <1> DEFINE S == {k \in Nat : k < 2^k}
  <1>1. 0 \in S
    OBVIOUS
  <1>2. ASSUME NEW k \in 0..h, k \in S, k + 1 <= h PROVE k + 1 \in S
    BY <1>2, PowerIsNat, PowerDoubles
  <1>3. \A k \in 0..h : k \in S
    <2> HIDE DEF S
    <2> QED
      BY <1>1, <1>2, Climb
  <1> QED
    BY <1>3, PowerIsNat, PowerDoubles

\* More doublings, more.
LEMMA PowersGrow ==
    ASSUME NEW k \in Nat, NEW e \in Nat, e <= k
    PROVE  2^e <= 2^k
  <1> DEFINE S == {d \in Nat : 2^e <= 2^(e + d)}
  <1>1. 0 \in S
    <2>1. e + 0 = e /\ 2^e \in Nat
      BY PowerIsNat
    <2> QED
      BY <2>1
  <1>2. ASSUME NEW d \in 0..k, d \in S, d + 1 <= k PROVE d + 1 \in S
    <2>1. 2^e \in Nat /\ 2^(e + d) \in Nat /\ e + (d + 1) = (e + d) + 1
      BY PowerIsNat
    <2>2. 2^((e + d) + 1) = 2 * 2^(e + d)
      BY PowerDoubles
    <2> QED
      BY <1>2, <2>1, <2>2
  <1> HIDE DEF S
  <1>3. k - e \in S
    <2>1. k - e \in 0..k
      OBVIOUS
    <2> QED
      BY <1>1, <1>2, <2>1, Climb
  <1>4. e + (k - e) = k
    OBVIOUS
  <1> QED
    BY <1>3, <1>4 DEF S

\* What is built up from base step by step.
BuiltUp(f, h, D, base, step) ==
    /\ f \in [0..h -> D] /\ f[0] = base
    /\ \A i \in 1..h : f[i] = step[<<i, f[i - 1]>>]

\* It exists, if the steps stay in D.
LEMMA StepByStep ==
    ASSUME NEW h \in Nat, NEW D, NEW base \in D, NEW step \in [(1..h) \X D -> D]
    PROVE  \E f : BuiltUp(f, h, D, base, step)
  <1> DEFINE Upto(f, m) == /\ f \in [0..m -> D] /\ f[0] = base
                           /\ \A i \in 1..m : f[i] = step[<<i, f[i - 1]>>]
             S == {m \in 0..h : \E f : Upto(f, m)}
  <1>1. 0 \in S
    <2> DEFINE f == [i \in 0..0 |-> base]
    <2>1. Upto(f, 0) /\ 0 \in 0..h
      OBVIOUS
    <2> HIDE DEF f, Upto
    <2> QED
      BY <2>1
  <1>2. ASSUME NEW m \in 0..h, m \in S, m + 1 <= h PROVE m + 1 \in S
    <2>1. PICK f : Upto(f, m)
      BY <1>2
    <2> DEFINE last == step[<<m + 1, f[m]>>]
               g == [i \in 0 .. m + 1 |-> IF i = m + 1 THEN last ELSE f[i]]
    <2>2. f[m] \in D /\ m + 1 \in 1..h
      BY <1>2, <2>1
    <2>3. last \in D
      BY <2>2
    <2>4. g \in [0 .. m + 1 -> D]
      <3>1. \A i \in 0 .. m + 1 : i # m + 1 => i \in 0..m
        OBVIOUS
      <3> HIDE DEF last
      <3> QED
        BY <2>1, <2>3, <3>1
    <2>5. g[0] = base
      BY <2>1
    <2>6. ASSUME NEW i \in 1 .. m + 1 PROVE g[i] = step[<<i, g[i - 1]>>]
      <3>1. i - 1 \in 0 .. m + 1 /\ i - 1 # m + 1 /\ i \in 0 .. m + 1
        OBVIOUS
      <3>2. g[i - 1] = f[i - 1]
        BY <3>1
      <3>3. CASE i = m + 1
        BY <3>1, <3>2, <3>3
      <3>4. CASE i # m + 1
        <4>1. i \in 1..m /\ g[i] = f[i]
          BY <3>1, <3>4
        <4> QED
          BY <2>1, <3>2, <4>1
      <3> QED
        BY <3>3, <3>4
    <2>7. Upto(g, m + 1)
      <3> HIDE DEF g
      <3> QED
        BY <2>4, <2>5, <2>6
    <2>8. m + 1 \in 0..h
      BY <1>2
    <2> HIDE DEF g, Upto
    <2> QED
      BY <2>7, <2>8
  <1>3. h \in S
    <2> HIDE DEF S
    <2>1. h \in 0..h
      OBVIOUS
    <2> QED
      BY <1>1, <1>2, <2>1, Climb
  <1> QED
    BY <1>3 DEF BuiltUp

-----------------------------------------------------------------------------
(* Places.  len, the number of rounds, is odd; places are       *)
(* numbered from 0, and c turns have been made.                            *)

Place(len, c, j) == (j - c) % len

\* One turn after another, no place is passed.
LEMMA PlaceValue ==
    ASSUME NEW h \in Nat, NEW c \in 0..2*h, NEW j \in 0..2*h
    PROVE  /\ Place(2*h + 1, c, j) = IF j >= c THEN j - c ELSE j - c + 2*h + 1
           /\ Place(2*h + 1, c, j) \in 0..2*h
  <1> DEFINE len == 2*h + 1
             v == j - c
  <1>1. len \in Nat \ {0} /\ v \in Int /\ -len < v /\ v < len
    OBVIOUS
  <1>2. v % len = IF v >= 0 THEN v ELSE v + len
    <2> HIDE DEF len, v
    <2> QED
      BY <1>1
  <1> QED
    BY <1>2 DEF Place

\* In one round nobody plays twice.
LEMMA PlacesDiffer ==
    ASSUME NEW h \in Nat, NEW c \in 0..2*h, NEW j \in 0..2*h, NEW k \in 0..2*h,
           Place(2*h + 1, c, j) = Place(2*h + 1, c, k)
    PROVE  j = k
  BY PlaceValue

\* Two teams meet in one round only.
LEMMA RoundsDiffer ==
    ASSUME NEW h \in Nat, NEW c \in 0..2*h, NEW d \in 0..2*h, NEW i \in 1..h, NEW k \in 1..h,
           {Place(2*h + 1, c, i), Place(2*h + 1, c, 2*h + 1 - i)}
             = {Place(2*h + 1, d, k), Place(2*h + 1, d, 2*h + 1 - k)}
    PROVE  c = d
  <1> DEFINE a == Place(2*h + 1, c, i)
             b == Place(2*h + 1, c, 2*h + 1 - i)
             x == Place(2*h + 1, d, k)
             y == Place(2*h + 1, d, 2*h + 1 - k)
  <1>1. /\ i \in 0..2*h /\ k \in 0..2*h
        /\ 2*h + 1 - i \in 0..2*h /\ 2*h + 1 - k \in 0..2*h
    OBVIOUS
  <1>2. /\ a = IF i >= c THEN i - c ELSE i - c + 2*h + 1
        /\ b = IF 2*h + 1 - i >= c THEN 2*h + 1 - i - c ELSE 2*h + 1 - i - c + 2*h + 1
        /\ x = IF k >= d THEN k - d ELSE k - d + 2*h + 1
        /\ y = IF 2*h + 1 - k >= d THEN 2*h + 1 - k - d ELSE 2*h + 1 - k - d + 2*h + 1
    BY <1>1, PlaceValue
  <1>3. (a = x /\ b = y) \/ (a = y /\ b = x)
    BY Zenon
  <1> HIDE DEF a, b, x, y
  <1>4. a + b = x + y
    BY <1>2, <1>3
  <1> QED
    BY <1>2, <1>4

\* Every two places meet in some round.
LEMMA PlacesMeet ==
    ASSUME NEW h \in Nat, NEW x \in 0..2*h, NEW y \in 0..2*h, x < y
    PROVE  \E c \in 0..2*h, i \in 1..h :
              \/ Place(2*h + 1, c, i) = x /\ Place(2*h + 1, c, 2*h + 1 - i) = y
              \/ Place(2*h + 1, c, i) = y /\ Place(2*h + 1, c, 2*h + 1 - i) = x
  <1> DEFINE s == x + y
  <1>1. PICK q \in Nat : s = 2*q \/ s = 2*q + 1
    <2>1. s = 2 * (s \div 2) \/ s = 2 * (s \div 2) + 1
      OBVIOUS
    <2>2. s \div 2 \in Nat
      OBVIOUS
    <2> QED
      BY <2>1, <2>2
  <1>2. \E c \in 0..2*h : s = 2*h + 1 - 2*c \/ s = 4*h + 2 - 2*c \/ s = 6*h + 3 - 2*c
    <2>1. CASE s = 2*q
      <3>1. 2*h + 1 - q \in 0..2*h /\ s = 4*h + 2 - 2*(2*h + 1 - q)
        BY <2>1
      <3> QED
        BY <3>1
    <2>2. CASE s = 2*q + 1 /\ s <= 2*h + 1
      <3>1. h - q \in 0..2*h /\ s = 2*h + 1 - 2*(h - q)
        BY <2>2
      <3> QED
        BY <3>1
    <2>3. CASE s = 2*q + 1 /\ s > 2*h + 1
      <3>1. 3*h + 1 - q \in 0..2*h /\ s = 6*h + 3 - 2*(3*h + 1 - q)
        BY <2>3
      <3> QED
        BY <3>1
    <2> QED
      BY <1>1, <2>1, <2>2, <2>3
  <1>3. PICK c \in 0..2*h : s = 2*h + 1 - 2*c \/ s = 4*h + 2 - 2*c \/ s = 6*h + 3 - 2*c
    BY <1>2
  <1> DEFINE j == IF x + c <= 2*h THEN x + c ELSE x + c - (2*h + 1)
  <1>4. /\ j \in 1..2*h
        /\ IF j >= c THEN x = j - c ELSE x = j - c + 2*h + 1
        /\ IF 2*h + 1 - j >= c THEN y = 2*h + 1 - j - c ELSE y = 2*h + 1 - j - c + 2*h + 1
    BY <1>3
  <1> HIDE DEF j, s
  <1>5. Place(2*h + 1, c, j) = x /\ Place(2*h + 1, c, 2*h + 1 - j) = y
    <2>1. j \in 0..2*h /\ 2*h + 1 - j \in 0..2*h
      BY <1>4
    <2> QED
      BY <1>4, <2>1, PlaceValue
  <1>6. CASE j <= h
    <2>1. j \in 1..h
      BY <1>4, <1>6
    <2> QED
      BY <1>5, <2>1
  <1>7. CASE j > h
    <2>1. 2*h + 1 - j \in 1..h /\ 2*h + 1 - (2*h + 1 - j) = j
      BY <1>4, <1>7
    <2>2. Place(2*h + 1, c, 2*h + 1 - j) = y /\ Place(2*h + 1, c, 2*h + 1 - (2*h + 1 - j)) = x
      BY <1>5, <2>1
    <2> QED
      BY <2>1, <2>2
  <1>8. j <= h \/ j > h
    BY <1>4
  <1> QED
    BY <1>6, <1>7, <1>8

-----------------------------------------------------------------------------
(* The games of a round between 2h+2 places, of which place 1 stays.       *)

Game(h, c, k) ==
    IF k = 0 THEN <<1, 2 + Place(2*h + 1, c, 0)>>
    ELSE <<2 + Place(2*h + 1, c, k), 2 + Place(2*h + 1, c, 2*h + 1 - k)>>

Both(game) == {game[1], game[2]}

\* A game has two sides.
LEMMA GameOfTwo ==
    ASSUME NEW h \in Nat, NEW c \in 0..2*h, NEW k \in 0..h
    PROVE  /\ Game(h, c, k)[1] \in 1..2*h + 2
           /\ Game(h, c, k)[2] \in 1..2*h + 2
           /\ Game(h, c, k)[1] # Game(h, c, k)[2]
  <1>1. CASE k = 0
    <2>1. Place(2*h + 1, c, 0) \in 0..2*h
      BY PlaceValue
    <2> QED
      BY <1>1, <2>1 DEF Game
  <1>2. CASE k \in 1..h
    <2> DEFINE a == Place(2*h + 1, c, k)
               b == Place(2*h + 1, c, 2*h + 1 - k)
    <2>1. k \in 0..2*h /\ 2*h + 1 - k \in 0..2*h /\ k # 2*h + 1 - k
      BY <1>2
    <2>2. a \in 0..2*h /\ b \in 0..2*h /\ a # b
      BY <2>1, PlaceValue, PlacesDiffer
    <2>3. Game(h, c, k) = <<2 + a, 2 + b>>
      BY <1>2 DEF Game
    <2> HIDE DEF a, b
    <2>4. 2 + a \in 1..2*h + 2 /\ 2 + b \in 1..2*h + 2 /\ 2 + a # 2 + b
      BY <2>2
    <2> QED
      BY <2>3, <2>4
  <1> QED
    BY <1>1, <1>2

\* Nobody plays two games of a round.
LEMMA OneGameARound ==
    ASSUME NEW h \in Nat, NEW c \in 0..2*h, NEW k \in 0..h, NEW l \in 0..h,
           Both(Game(h, c, k)) \intersect Both(Game(h, c, l)) # {}
    PROVE  k = l
  <1> DEFINE P(j) == Place(2*h + 1, c, j)
  <1>1. \A j \in 0..2*h : P(j) \in 0..2*h
    BY PlaceValue
  <1>2. \A j, i \in 0..2*h : P(j) = P(i) => j = i
    BY PlacesDiffer
  <1>3. /\ Both(Game(h, c, 0)) = {1, 2 + P(0)}
        /\ \A j \in 1..h : Both(Game(h, c, j)) = {2 + P(j), 2 + P(2*h + 1 - j)}
    BY DEF Game, Both
  <1> HIDE DEF P
  <1>4. ASSUME NEW i \in 1..h
        PROVE  Both(Game(h, c, 0)) \intersect Both(Game(h, c, i)) = {}
    <2>1. i \in 0..2*h /\ 2*h + 1 - i \in 0..2*h /\ i # 0 /\ 2*h + 1 - i # 0 /\ 0 \in 0..2*h
      OBVIOUS
    <2>2. P(0) # P(i) /\ P(0) # P(2*h + 1 - i) /\ P(0) \in Nat /\ P(i) \in Nat /\ P(2*h + 1 - i) \in Nat
      BY <1>1, <1>2, <2>1
    <2> QED
      BY <1>3, <2>2
  <1>5. CASE k \in 1..h /\ l \in 1..h
    <2>1. PICK j \in {k, 2*h + 1 - k}, i \in {l, 2*h + 1 - l} : 2 + P(j) = 2 + P(i)
      BY <1>3, <1>5
    <2>2. j \in 0..2*h /\ i \in 0..2*h
      BY <1>5, <2>1
    <2>3. P(j) = P(i)
      BY <1>1, <2>1, <2>2
    <2>4. j = i
      BY <1>2, <2>2, <2>3
    <2> QED
      BY <1>5, <2>1, <2>4
  <1> QED
    BY <1>4, <1>5

\* No two games are between the same sides.
LEMMA OneGameAPair ==
    ASSUME NEW h \in Nat, NEW c \in 0..2*h, NEW d \in 0..2*h, NEW k \in 0..h, NEW l \in 0..h,
           Both(Game(h, c, k)) = Both(Game(h, d, l))
    PROVE  c = d /\ k = l
  <1> DEFINE P(s, j) == Place(2*h + 1, s, j)
  <1>1. \A s \in 0..2*h, j \in 0..2*h : P(s, j) \in 0..2*h
    BY PlaceValue
  <1>2. \A s \in 0..2*h :
          /\ Both(Game(h, s, 0)) = {1, 2 + P(s, 0)}
          /\ \A j \in 1..h : Both(Game(h, s, j)) = {2 + P(s, j), 2 + P(s, 2*h + 1 - j)}
    BY DEF Game, Both
  <1>3. \A j \in 1..h : j \in 0..2*h /\ 2*h + 1 - j \in 0..2*h
    OBVIOUS
  <1>4. c = d
    <2>1. CASE k = 0 /\ l = 0
      <3>1. 0 \in 0..2*h
        OBVIOUS
      <3>2. P(c, 0) = P(d, 0)
        <4> HIDE DEF P
        <4>1. {1, 2 + P(c, 0)} = {1, 2 + P(d, 0)}
          BY <1>2, <2>1
        <4>2. P(c, 0) \in Nat /\ P(d, 0) \in Nat
          BY <1>1, <3>1
        <4>3. 2 + P(c, 0) \in {1, 2 + P(d, 0)}
          BY <4>1
        <4> QED
          BY <4>2, <4>3
      <3>3. /\ P(c, 0) = IF 0 >= c THEN 0 - c ELSE 0 - c + 2*h + 1
            /\ P(d, 0) = IF 0 >= d THEN 0 - d ELSE 0 - d + 2*h + 1
        BY <3>1, PlaceValue
      <3> HIDE DEF P
      <3> QED
        BY <3>2, <3>3
    <2>2. CASE (k = 0 /\ l \in 1..h) \/ (l = 0 /\ k \in 1..h)
      <3> HIDE DEF P
      <3>1. ASSUME NEW s \in 0..2*h, NEW j \in 1..h
            PROVE  1 \in Both(Game(h, s, 0)) /\ 1 \notin Both(Game(h, s, j))
        <4>1. P(s, j) \in 0..2*h /\ P(s, 2*h + 1 - j) \in 0..2*h
          <5>1. j \in 0..2*h /\ 2*h + 1 - j \in 0..2*h
            BY <1>3
          <5> QED
            BY <1>1, <5>1, Zenon
        <4>2. P(s, j) \in Nat /\ P(s, 2*h + 1 - j) \in Nat
          BY <4>1
        <4> QED
          BY <1>2, <4>2
      <3> QED
        BY <2>2, <3>1
    <2>3. CASE k \in 1..h /\ l \in 1..h
      <3> DEFINE a == P(c, k)
                 b == P(c, 2*h + 1 - k)
                 x == P(d, l)
                 y == P(d, 2*h + 1 - l)
      <3>1. {2 + a, 2 + b} = {2 + x, 2 + y}
        <4> HIDE DEF P
        <4>1. /\ Both(Game(h, c, k)) = {2 + P(c, k), 2 + P(c, 2*h + 1 - k)}
              /\ Both(Game(h, d, l)) = {2 + P(d, l), 2 + P(d, 2*h + 1 - l)}
          BY <1>2, <2>3
        <4> QED
          BY <4>1
      <3>2. a \in Int /\ b \in Int /\ x \in Int /\ y \in Int
        <4>1. /\ k \in 0..2*h /\ 2*h + 1 - k \in 0..2*h
              /\ l \in 0..2*h /\ 2*h + 1 - l \in 0..2*h
          BY <1>3, <2>3
        <4>2. a \in 0..2*h /\ b \in 0..2*h /\ x \in 0..2*h /\ y \in 0..2*h
          <5> HIDE DEF P
          <5> QED
            BY <1>1, <4>1, Zenon
        <4> HIDE DEF a, b, x, y
        <4> QED
          BY <4>2
      <3>3. {a, b} = {x, y}
        <4> HIDE DEF a, b, x, y
        <4>1. 2 + a \in {2 + x, 2 + y} /\ 2 + b \in {2 + x, 2 + y}
              /\ 2 + x \in {2 + a, 2 + b} /\ 2 + y \in {2 + a, 2 + b}
          BY <3>1
        <4>2. (a = x \/ a = y) /\ (b = x \/ b = y) /\ (x = a \/ x = b) /\ (y = a \/ y = b)
          BY <3>2, <4>1
        <4> QED
          BY <4>2
      <3> QED
        BY <2>3, <3>3, RoundsDiffer
    <2> QED
      BY <2>1, <2>2, <2>3
  <1>5. Both(Game(h, c, k)) # {}
    BY DEF Both
  <1> QED
    BY <1>4, <1>5, OneGameARound

\* Every two places meet.
LEMMA EveryPairPlays ==
    ASSUME NEW h \in Nat, NEW x \in 1..2*h + 2, NEW y \in 1..2*h + 2, x # y
    PROVE  \E c \in 0..2*h, k \in 0..h : Both(Game(h, c, k)) = {x, y}
  <1>1. ASSUME NEW v \in 1..2*h + 2, NEW w \in 1..2*h + 2, v < w
        PROVE  \E c \in 0..2*h, k \in 0..h : Both(Game(h, c, k)) = {v, w}
    <2>1. CASE v = 1
      <3>1. \E c \in 0..2*h : Place(2*h + 1, c, 0) = w - 2
        <4>1. CASE w = 2
          <5>1. 0 \in 0..2*h /\ Place(2*h + 1, 0, 0) = 0
            BY PlaceValue
          <5> QED
            BY <4>1, <5>1
        <4>2. CASE w > 2
          <5>1. 2*h + 3 - w \in 0..2*h /\ 0 \in 0..2*h
            BY <4>2
          <5>2. Place(2*h + 1, 2*h + 3 - w, 0) = w - 2
            BY <4>2, <5>1, PlaceValue
          <5> QED
            BY <5>1, <5>2
        <4> QED
          BY <1>1, <2>1, <4>1, <4>2
      <3>2. PICK c \in 0..2*h : Place(2*h + 1, c, 0) = w - 2
        BY <3>1
      <3>3. Game(h, c, 0) = <<v, w>> /\ 0 \in 0..h
        BY <2>1, <3>2 DEF Game
      <3> QED
        BY <3>3 DEF Both
    <2>2. CASE v > 1
      <3> DEFINE a == v - 2
                 b == w - 2
      <3>1. a \in 0..2*h /\ b \in 0..2*h /\ a < b /\ 2 + a = v /\ 2 + b = w
        BY <1>1, <2>2
      <3> HIDE DEF a, b
      <3>2. PICK c \in 0..2*h, k \in 1..h :
              \/ Place(2*h + 1, c, k) = a /\ Place(2*h + 1, c, 2*h + 1 - k) = b
              \/ Place(2*h + 1, c, k) = b /\ Place(2*h + 1, c, 2*h + 1 - k) = a
        BY <3>1, PlacesMeet
      <3>3. k \in 0..h /\ (Game(h, c, k) = <<v, w>> \/ Game(h, c, k) = <<w, v>>)
        BY <3>1, <3>2 DEF Game
      <3> QED
        BY <3>3 DEF Both
    <2> QED
      BY <2>1, <2>2
  <1>2. CASE x < y
    BY <1>1, <1>2
  <1>3. CASE y < x
    <2>1. \E c \in 0..2*h, k \in 0..h : Both(Game(h, c, k)) = {y, x}
      BY <1>1, <1>3
    <2> QED
      BY <2>1
  <1> QED
    BY <1>2, <1>3

-----------------------------------------------------------------------------
(* Members of a finite set in the order of their numbers.                  *)

\* Every member has a number of its own.
Numbered(number) ==
    /\ IsFiniteSet(DOMAIN number)
    /\ \A x \in DOMAIN number : number[x] \in Nat
    /\ \A x, y \in DOMAIN number : number[x] = number[y] => x = y

UpTo(number, x) == {y \in DOMAIN number : number[y] <= number[x]}

\* Every place in the order is taken by one member.
LEMMA Ranks ==
    ASSUME NEW number, Numbered(number)
    PROVE  /\ Cardinality(DOMAIN number) \in Nat
           /\ \A t \in DOMAIN number :
                 Cardinality(UpTo(number, t)) \in 1..Cardinality(DOMAIN number)
           /\ \A t, u \in DOMAIN number :
                 Cardinality(UpTo(number, t)) = Cardinality(UpTo(number, u)) => t = u
           /\ \A i \in 1..Cardinality(DOMAIN number) :
                 \E t \in DOMAIN number : Cardinality(UpTo(number, t)) = i
  <1> DEFINE T == DOMAIN number
             n == Cardinality(T)
             rank == [t \in T |-> Cardinality(UpTo(number, t))]
  <1>1. IsFiniteSet(T) /\ n \in Nat
    BY FS_CardinalityType DEF Numbered
  <1>2. ASSUME NEW t \in T PROVE rank[t] \in 1..n /\ IsFiniteSet(UpTo(number, t))
    <2>1. UpTo(number, t) \subseteq T /\ t \in UpTo(number, t)
      BY DEF UpTo, Numbered
    <2>2. IsFiniteSet(UpTo(number, t)) /\ Cardinality(UpTo(number, t)) <= n
      BY <1>1, <2>1, FS_Subset
    <2>3. Cardinality(UpTo(number, t)) \in Nat /\ Cardinality(UpTo(number, t)) # 0
      BY <2>1, <2>2, FS_CardinalityType, FS_EmptySet
    <2> QED
      BY <1>1, <2>2, <2>3
  <1>3. ASSUME NEW t \in T, NEW u \in T, number[t] < number[u] PROVE rank[t] # rank[u]
    <2>1. UpTo(number, t) \subseteq UpTo(number, u) /\ u \notin UpTo(number, t) /\ u \in UpTo(number, u)
      BY <1>3 DEF UpTo, Numbered
    <2>2. UpTo(number, t) # UpTo(number, u)
      BY <2>1
    <2>3. Cardinality(UpTo(number, t)) # Cardinality(UpTo(number, u))
      BY <1>2, <2>1, <2>2, FS_Subset
    <2> QED
      BY <2>3
  <1>4. ASSUME NEW t \in T, NEW u \in T, rank[t] = rank[u] PROVE t = u
    <2>1. ~(number[t] < number[u]) /\ ~(number[u] < number[t])
      BY <1>3, <1>4
    <2>2. number[t] = number[u]
      BY <2>1 DEF Numbered
    <2> QED
      BY <2>2 DEF Numbered
  <1>5. \A i \in 1..n : \E t \in T : rank[t] = i
    <2> DEFINE image == {rank[t] : t \in T}
    <2>1. rank \in Bijection(T, image)
      <3> HIDE DEF rank
      <3>1. rank \in [T -> image]
        <4>1. rank = [t \in T |-> rank[t]]
          BY DEF rank
        <4> QED
          BY <4>1
      <3> QED
        BY <3>1, <1>4 DEF Bijection, Injection, Surjection, IsInjective
    <2>2. image \subseteq 1..n
      BY <1>2
    <2>3. IsFiniteSet(1..n) /\ Cardinality(1..n) = n
      BY <1>1, FS_Interval
    <2>4. Cardinality(image) = n
      BY <1>1, <2>1, FS_Bijection DEF ExistsBijection
    <2>5. image = 1..n
      <3> HIDE DEF image, n
      <3> QED
        BY <2>2, <2>3, <2>4, FS_Subset
    <2> QED
      BY <2>5
  <1> QED
    BY <1>1, <1>2, <1>4, <1>5

\* The members in that order.
Listing(number) ==
    [i \in 1..Cardinality(DOMAIN number) |->
        CHOOSE x \in DOMAIN number : Cardinality(UpTo(number, x)) = i]

\* It lists every member once.
LEMMA ListingLists ==
    ASSUME NEW number, Numbered(number)
    PROVE  LET D == DOMAIN number
               list == Listing(number)
           IN  /\ Cardinality(D) \in Nat
               /\ list \in [1..Cardinality(D) -> D]
               /\ \A i, j \in 1..Cardinality(D) : list[i] = list[j] => i = j
               /\ \A x \in D : \E i \in 1..Cardinality(D) : list[i] = x
  <1> DEFINE D == DOMAIN number
             n == Cardinality(D)
             list == Listing(number)
             rank(x) == Cardinality(UpTo(number, x))
  <1>1. list = [i \in 1..n |-> CHOOSE x \in D : rank(x) = i]
    BY DEF Listing
  <1>2. \A i \in 1..n : list[i] \in D /\ rank(list[i]) = i
    <2> HIDE DEF list, rank
    <2>1. \A i \in 1..n : \E x \in D : rank(x) = i
      BY Ranks DEF rank
    <2> QED
      BY <1>1, <2>1
  <1>3. list \in [1..n -> D]
    BY <1>1, <1>2
  <1>4. ASSUME NEW x \in D PROVE rank(x) \in 1..n /\ list[rank(x)] = x
    <2>1. rank(x) \in 1..n
      BY Ranks
    <2>2. list[rank(x)] \in D /\ rank(list[rank(x)]) = rank(x)
      BY <1>2, <2>1
    <2> QED
      BY <2>1, <2>2, Ranks
  <1>5. n \in Nat
    BY Ranks
  <1> HIDE DEF list, rank
  <1> QED
    BY <1>2, <1>3, <1>4, <1>5 DEF list
=============================================================================
