------------------------------- MODULE Numbers --------------------------------
(***************************************************************************)
(* What the proofs have in common about numbers: least elements, how many  *)
(* elements a set has, and the facts about % that those of counters which  *)
(* wrap, and of the rings they index, need.                                *)
(***************************************************************************)
EXTENDS Integers, FiniteSetTheorems, WellFoundedInduction, TLAPS

\* A set of numbers that is not empty has a least one.
LEMMA LeastIn ==
  ASSUME NEW S, S \subseteq Nat, S # {}
  PROVE  \E x \in S : \A y \in S : x <= y
<1>1. IsWellFoundedOn(OpToRel(<, Nat), Nat)
  BY NatLessThanWellFounded
<1>2. PICK x \in S : \A y \in S : ~ (<<y, x>> \in OpToRel(<, Nat))
  BY <1>1, WFMin
<1>3. \A y \in S : ~ (y < x)
  BY <1>2 DEF OpToRel
<1> QED BY <1>3

\* Induction, for a set of numbers.
LEMMA NatInduct ==
  ASSUME NEW S, 0 \in S, \A n \in Nat : n \in S => n + 1 \in S
  PROVE  Nat \subseteq S
<1>1. ASSUME Nat \ S # {}
      PROVE  FALSE
  <2>1. PICK n \in Nat \ S : \A m \in Nat \ S : n <= m
    <3> DEFINE T == Nat \ S
    <3>1. T \subseteq Nat /\ T # {}
      BY <1>1
    <3> HIDE DEF T
    <3>2. \E x \in T : \A y \in T : x <= y
      BY <3>1, LeastIn
    <3> QED BY <3>2 DEF T
  <2>2. n - 1 \in Nat /\ n - 1 \notin Nat \ S
    BY <2>1
  <2> QED BY <2>1, <2>2
<1> QED BY <1>1

\* One element comes or goes.
LEMMA SetCount ==
  ASSUME NEW S, IsFiniteSet(S), NEW T, NEW x, \A y : y # x => (y \in S <=> y \in T)
  PROVE  /\ IsFiniteSet(T) /\ Cardinality(S) \in Nat /\ Cardinality(T) \in Nat
         /\ Cardinality(T) + (IF x \in S THEN 1 ELSE 0)
              = Cardinality(S) + (IF x \in T THEN 1 ELSE 0)
<1>1. Cardinality(S) \in Nat
  BY FS_CardinalityType
<1>2. CASE x \in S /\ x \notin T
  <2>1. T = S \ {x}
    BY <1>2
  <2>2. IsFiniteSet(T) /\ Cardinality(T) = Cardinality(S) - 1
    BY <1>2, <2>1, FS_RemoveElement
  <2> QED BY <1>1, <1>2, <2>2, FS_CardinalityType
<1>3. CASE x \notin S /\ x \in T
  <2>1. T = S \cup {x}
    BY <1>3
  <2>2. IsFiniteSet(T) /\ Cardinality(T) = Cardinality(S) + 1
    BY <1>3, <2>1, FS_AddElement
  <2> QED BY <1>1, <1>3, <2>2
<1>4. CASE x \in S <=> x \in T
  <2>1. T = S
    BY <1>4
  <2> QED BY <1>1, <1>4, <2>1
<1> QED BY <1>2, <1>3, <1>4

\* Division with a remainder.
LEMMA DivMod ==
  ASSUME NEW n \in Nat \ {0}, NEW x \in Nat
  PROVE  x \div n \in Nat /\ x % n \in 0 .. n - 1 /\ x = (n * (x \div n)) + (x % n)
OBVIOUS

\* There is one way to divide with a remainder.
LEMMA ModUnique ==
  ASSUME NEW n \in Nat \ {0}, NEW x \in Nat, NEW q \in Nat, NEW r \in 0 .. n - 1,
         x = (n * q) + r
  PROVE  x % n = r
OBVIOUS

\* What is less than n is its own remainder.
LEMMA ModSmall ==
  ASSUME NEW n \in Nat \ {0}, NEW x \in 0 .. n - 1
  PROVE  x % n = x
OBVIOUS

\* A counter that has gone once around.
LEMMA ModWrap ==
  ASSUME NEW n \in Nat \ {0}, NEW x \in n .. 2 * n - 1
  PROVE  x % n = x - n
<1>1. x = (n * 1) + (x - n)
  OBVIOUS
<1> QED BY <1>1, ModUnique

\* A multiple of n does not count.
LEMMA ModMultiple ==
  ASSUME NEW n \in Nat \ {0}, NEW x \in Nat, NEW q \in Nat
  PROVE  (x + (n * q)) % n = x % n
<1> DEFINE r == x % n
           d == x \div n
<1>1. r \in 0 .. n - 1 /\ d \in Nat /\ x = (n * d) + r
  BY DivMod
<1> HIDE DEF r, d
<1>2. n * q \in Nat /\ n * d \in Nat /\ n * (d + q) = (n * d) + (n * q)
  BY <1>1
<1>3. x + (n * q) = (n * (d + q)) + r /\ x + (n * q) \in Nat /\ d + q \in Nat
  BY <1>1, <1>2
<1>4. (x + (n * q)) % n = r
  BY <1>1, <1>3, ModUnique
<1> QED BY <1>4 DEF r

\* Numbers less than n apart have remainders of their own.
LEMMA ModApart ==
  ASSUME NEW n \in Nat \ {0}, NEW x \in Nat, NEW d \in 1 .. n - 1
  PROVE  (x + d) % n # x % n
<1> DEFINE r == x % n
           q == x \div n
<1>1. r \in 0 .. n - 1 /\ q \in Nat /\ x = (n * q) + r
  BY DivMod
<1> HIDE DEF r, q
<1>2. CASE r + d < n
  <2>1. x + d = (n * q) + (r + d) /\ x + d \in Nat /\ r + d \in 0 .. n - 1
    BY <1>1, <1>2
  <2>2. (x + d) % n = r + d
    BY <2>1, <1>1, ModUnique
  <2> QED BY <2>2, <1>1 DEF r
<1>3. CASE r + d >= n
  <2>1. n * (q + 1) = (n * q) + n
    BY <1>1
  <2>2. x + d = (n * (q + 1)) + (r + d - n)
    BY <2>1, <1>1
  <2>3. x + d \in Nat /\ r + d - n \in 0 .. n - 1 /\ q + 1 \in Nat
    BY <1>1, <1>3
  <2>4. (x + d) % n = r + d - n
    BY <2>2, <2>3, ModUnique
  <2> QED BY <2>4, <1>1 DEF r
<1> QED BY <1>1, <1>2, <1>3

----------------------------------------------------------------------------
(* Two counters that wrap at w: one is behind the other. *)

\* The distance of two counters.
Apart(from, to, w) == (to + w - from) % w

\* The distance without the remainder.
LEMMA ApartIs ==
  ASSUME NEW w \in Nat \ {0}, NEW a \in 0 .. w - 1, NEW b \in 0 .. w - 1
  PROVE  /\ Apart(a, b, w) \in 0 .. w - 1
         /\ a <= b => Apart(a, b, w) = b - a
         /\ b < a => Apart(a, b, w) = b + w - a
<1>1. CASE a <= b
  <2>1. b + w - a \in w .. 2 * w - 1
    BY <1>1
  <2> QED BY <1>1, <2>1, ModWrap DEF Apart
<1>2. CASE b < a
  <2>1. b + w - a \in 0 .. w - 1
    BY <1>2
  <2> QED BY <1>2, <2>1, ModSmall DEF Apart
<1> QED BY <1>1, <1>2

\* The difference as TLA+ takes it, with nothing added first.
LEMMA MinusIs ==
  ASSUME NEW w \in Nat \ {0}, NEW a \in 0 .. w - 1, NEW b \in 0 .. w - 1
  PROVE  /\ (a - b) % w \in 0 .. w - 1
         /\ b <= a => (a - b) % w = a - b
         /\ a < b => (a - b) % w = a - b + w
<1>1. CASE b <= a
  BY <1>1, ModSmall
<1>2. CASE a < b
  <2>1. a - b \in Int /\ a - b + w \in 0 .. w - 1 /\ a - b = (w * (-1)) + (a - b + w)
    BY <1>2
  <2>2. \A x \in Int, r \in 0 .. w - 1 : x = (w * (-1)) + r => x % w = r
    OBVIOUS
  <2>3. (a - b) % w = a - b + w
    BY <2>1, <2>2
  <2> QED BY <1>2, <2>1, <2>3
<1> QED BY <1>1, <1>2

\* One more for a counter.
LEMMA NextIs ==
  ASSUME NEW w \in Nat \ {0}, NEW a \in 0 .. w - 1
  PROVE  (a + 1) % w = IF a = w - 1 THEN 0 ELSE a + 1
<1>1. CASE a = w - 1
  <2>1. a + 1 \in w .. 2 * w - 1 /\ a + 1 - w = 0
    BY <1>1
  <2> QED BY <1>1, <2>1, ModWrap
<1>2. CASE a # w - 1
  <2>1. a + 1 \in 0 .. w - 1
    BY <1>2
  <2> QED BY <1>2, <2>1, ModSmall
<1> QED BY <1>1, <1>2

\* The counter ahead goes on.
LEMMA ApartNext ==
  ASSUME NEW w \in Nat \ {0}, NEW a \in 0 .. w - 1, NEW b \in 0 .. w - 1,
         Apart(a, b, w) < w - 1
  PROVE  /\ (b + 1) % w \in 0 .. w - 1
         /\ Apart(a, (b + 1) % w, w) = Apart(a, b, w) + 1
<1> DEFINE c == (b + 1) % w
<1>1. c = IF b = w - 1 THEN 0 ELSE b + 1
  BY NextIs
<1>2. c \in 0 .. w - 1
  BY <1>1
<1> HIDE DEF c
<1>3. /\ a <= c => Apart(a, c, w) = c - a
      /\ c < a => Apart(a, c, w) = c + w - a
  BY <1>2, ApartIs
<1>4. Apart(a, c, w) = Apart(a, b, w) + 1
  <2>1. /\ a <= b => Apart(a, b, w) = b - a
        /\ b < a => Apart(a, b, w) = b + w - a
    BY ApartIs
  <2> QED BY <1>1, <1>2, <1>3, <2>1
<1> QED BY <1>2, <1>4 DEF c

\* The counter behind goes on.
LEMMA ApartLess ==
  ASSUME NEW w \in Nat \ {0}, NEW a \in 0 .. w - 1, NEW b \in 0 .. w - 1, a # b
  PROVE  /\ (a + 1) % w \in 0 .. w - 1
         /\ Apart((a + 1) % w, b, w) = Apart(a, b, w) - 1
<1> DEFINE c == (a + 1) % w
<1>1. c = IF a = w - 1 THEN 0 ELSE a + 1
  BY NextIs
<1>2. c \in 0 .. w - 1
  BY <1>1
<1> HIDE DEF c
<1>3. /\ c <= b => Apart(c, b, w) = b - c
      /\ b < c => Apart(c, b, w) = b + w - c
  BY <1>2, ApartIs
<1>4. Apart(c, b, w) = Apart(a, b, w) - 1
  <2>1. /\ a <= b => Apart(a, b, w) = b - a
        /\ b < a => Apart(a, b, w) = b + w - a
    BY ApartIs
  <2> QED BY <1>1, <1>2, <1>3, <2>1
<1> QED BY <1>2, <1>4 DEF c

\* The counter ahead goes back, not behind the other.
LEMMA ApartBack ==
  ASSUME NEW w \in Nat \ {0}, NEW a \in 0 .. w - 1, NEW b \in 0 .. w - 1,
         NEW n \in 0 .. Apart(a, b, w)
  PROVE  /\ (b + w - n) % w \in 0 .. w - 1
         /\ Apart(a, (b + w - n) % w, w) = Apart(a, b, w) - n
<1> DEFINE c == (b + w - n) % w
<1>0. Apart(a, b, w) \in 0 .. w - 1 /\ n \in 0 .. w - 1
  BY ApartIs
<1>1. /\ n <= b => c = b - n
      /\ b < n => c = b + w - n
  <2>1. c = Apart(n, b, w)
    BY DEF Apart
  <2> QED BY <1>0, <2>1, ApartIs
<1>2. c \in 0 .. w - 1
  BY <1>0, <1>1
<1> HIDE DEF c
<1>3. /\ a <= c => Apart(a, c, w) = c - a
      /\ c < a => Apart(a, c, w) = c + w - a
  BY <1>2, ApartIs
<1>4. /\ a <= b => Apart(a, b, w) = b - a
      /\ b < a => Apart(a, b, w) = b + w - a
  BY ApartIs
<1>5. Apart(a, c, w) = Apart(a, b, w) - n
  BY <1>0, <1>1, <1>2, <1>3, <1>4
<1> QED BY <1>2, <1>5 DEF c

\* A counter on the way from one to the other.
LEMMA ApartBetween ==
  ASSUME NEW w \in Nat \ {0}, NEW a \in 0 .. w - 1, NEW b \in 0 .. w - 1,
         NEW m \in 0 .. w - 1, Apart(a, m, w) <= Apart(a, b, w)
  PROVE  Apart(m, b, w) = Apart(a, b, w) - Apart(a, m, w)
<1>1. /\ a <= b => Apart(a, b, w) = b - a
      /\ b < a => Apart(a, b, w) = b + w - a
  BY ApartIs
<1>2. /\ a <= m => Apart(a, m, w) = m - a
      /\ m < a => Apart(a, m, w) = m + w - a
  BY ApartIs
<1>3. /\ m <= b => Apart(m, b, w) = b - m
      /\ b < m => Apart(m, b, w) = b + w - m
  BY ApartIs
<1> QED BY <1>1, <1>2, <1>3

----------------------------------------------------------------------------
(* A ring of n places, indexed by counters that wrap at a multiple of n. *)

\* The place of the k-th from counter a on.
Place(a, k, n) == (a + k - 1) % n

LEMMA PlaceType ==
  ASSUME NEW n \in Nat \ {0}, NEW a \in Nat, NEW k \in Nat \ {0}
  PROVE  Place(a, k, n) \in 0 .. n - 1
<1>1. a + k - 1 \in Nat
  OBVIOUS
<1> QED BY <1>1, DivMod DEF Place

\* A counter that wraps is at the same place.
LEMMA PlaceWrap ==
  ASSUME NEW n \in Nat \ {0}, NEW w \in Nat, w % n = 0, NEW x \in Nat
  PROVE  (x + w) % n = x % n
<1>1. w \div n \in Nat /\ w = (n * (w \div n)) + (w % n)
  BY DivMod
<1>2. n * (w \div n) \in Nat
  BY <1>1
<1>3. w = n * (w \div n)
  BY <1>1, <1>2
<1>4. (x + (n * (w \div n))) % n = x % n
  BY <1>1, ModMultiple
<1> QED BY <1>3, <1>4

\* Counted from another counter.
LEMMA PlaceFrom ==
  ASSUME NEW n \in Nat \ {0}, NEW w \in Nat \ {0}, w % n = 0,
         NEW a \in 0 .. w - 1, NEW b \in 0 .. w - 1, NEW k \in Nat \ {0}
  PROVE  Place(b, k, n) = Place(a, Apart(a, b, w) + k, n)
<1>1. CASE a <= b
  <2>1. a + (Apart(a, b, w) + k) - 1 = b + k - 1
    BY <1>1, ApartIs
  <2> QED BY <2>1 DEF Place
<1>2. CASE b < a
  <2>1. a + (Apart(a, b, w) + k) - 1 = (b + k - 1) + w /\ b + k - 1 \in Nat
    <3>1. Apart(a, b, w) = b + w - a
      BY <1>2, ApartIs
    <3> QED BY <3>1
  <2>2. ((b + k - 1) + w) % n = (b + k - 1) % n
    BY <2>1, PlaceWrap
  <2> QED BY <2>1, <2>2 DEF Place
<1> QED BY <1>1, <1>2

\* Within one turn every place is another.
LEMMA PlaceApart ==
  ASSUME NEW n \in Nat \ {0}, NEW a \in Nat, NEW i \in 1 .. n, NEW j \in 1 .. n, i # j
  PROVE  Place(a, i, n) # Place(a, j, n)
<1>1. ASSUME NEW x \in 1 .. n, NEW y \in 1 .. n, x < y
      PROVE  Place(a, x, n) # Place(a, y, n)
  <2>1. a + x - 1 \in Nat /\ y - x \in 1 .. n - 1 /\ (a + x - 1) + (y - x) = a + y - 1
    BY <1>1
  <2>2. ((a + x - 1) + (y - x)) % n # (a + x - 1) % n
    BY <2>1, ModApart
  <2> QED BY <2>1, <2>2 DEF Place
<1> QED BY <1>1
=============================================================================
