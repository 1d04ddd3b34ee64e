---------------------------- MODULE RingArithmetic ----------------------------
(***************************************************************************)
(* Facts about the remainder of an index by the size of a ring, for the    *)
(* proofs about the two descriptor rings of the r8168 driver.              *)
(***************************************************************************)
EXTENDS Integers, FiniteSetTheorems, TLAPS

\* Division with remainder.
LEMMA DivMod ==
    ASSUME NEW n \in Nat \ {0}, NEW x \in Nat
    PROVE  \E q \in Int, r \in 0..(n - 1) : x = n * q + r /\ x % n = r
<1>1. n \in Int /\ n > 0 /\ x \in Int
  OBVIOUS
<1>2. x % n = x - n * (x \div n)
  BY <1>1, SMTT(30)
<1>3. x \div n \in Int /\ x % n \in 0..(n - 1)
  BY <1>1, SMTT(30)
<1> DEFINE q == x \div n
           r == x % n
<1>4. q \in Int /\ r \in 0..(n - 1) /\ r = x - n * q /\ x % n = r
  BY <1>2, <1>3
<1> HIDE DEF q, r
<1>5. x = n * q + r
  BY <1>4
<1>6. QED
  BY <1>4, <1>5

LEMMA ModUnique ==
    ASSUME NEW n \in Int, n > 0, NEW x \in Int, NEW q \in Int, NEW r \in 0..(n - 1),
           x = n * q + r
    PROVE  x % n = r
BY SMTT(30)

\* Indices that differ by a multiple of the ring size are the same descriptor.
LEMMA Shift ==
    ASSUME NEW n \in Nat \ {0}, NEW m \in Nat, m % n = 0, NEW x \in Nat
    PROVE  (x + m) % n = x % n
<1>1. PICK a \in Int : m = n * a
  <2>1. PICK a \in Int, z \in 0..(n - 1) : m = n * a + z /\ m % n = z
    BY DivMod
  <2>2. m = n * a
    BY <2>1
  <2>3. QED
    BY <2>2
<1>2. PICK b \in Int, r \in 0..(n - 1) : x = n * b + r /\ x % n = r
  BY DivMod
<1>3. n * (b + a) = n * b + n * a
  OBVIOUS
<1>4. x + m = n * (b + a) + r
  BY <1>1, <1>2, <1>3
<1>5. (x + m) % n = r
  <2>1. b + a \in Int /\ x + m \in Int /\ n \in Int /\ n > 0
    OBVIOUS
  <2>2. QED
    BY <1>4, <2>1, ModUnique
<1>6. QED
  BY <1>2, <1>5

\* Indices less than a ring apart are not.
LEMMA Distinct ==
    ASSUME NEW n \in Nat \ {0}, NEW x \in Nat, NEW y \in Nat, x < y, y < x + n
    PROVE  x % n # y % n
<1>1. SUFFICES ASSUME x % n = y % n PROVE FALSE
  OBVIOUS
<1>2. PICK a \in Int, r \in 0..(n - 1) : x = n * a + r /\ x % n = r
  BY DivMod
<1>3. PICK b \in Int, s \in 0..(n - 1) : y = n * b + s /\ y % n = s
  BY DivMod
<1>4. PICK k \in Int : k = b - a
  OBVIOUS
<1>5. n * k = n * b - n * a
  BY <1>4
<1>6. n * k = y - x
  BY <1>1, <1>2, <1>3, <1>5
<1>7. k >= 1 => n * k >= n
  OBVIOUS
<1>8. k <= 0 => n * k <= 0
  OBVIOUS
<1>9. QED
  BY <1>6, <1>7, <1>8

\* The next descriptor, from the position in the ring alone.
LEMMA Successor ==
    ASSUME NEW n \in Nat \ {0}, NEW x \in Nat
    PROVE  ((x % n) + 1) % n = (x + 1) % n
<1>1. PICK a \in Int, r \in 0..(n - 1) : x = n * a + r /\ x % n = r
  BY DivMod
<1>2. PICK b \in Int, s \in 0..(n - 1) : r + 1 = n * b + s /\ (r + 1) % n = s
  <2>1. r + 1 \in Nat
    OBVIOUS
  <2>2. QED
    BY <2>1, DivMod
<1>3. n * (a + b) = n * a + n * b
  OBVIOUS
<1>4. x + 1 = n * (a + b) + s
  BY <1>1, <1>2, <1>3
<1>5. (x + 1) % n = s
  <2>1. a + b \in Int /\ x + 1 \in Int /\ n \in Int /\ n > 0
    OBVIOUS
  <2>2. QED
    BY <1>4, <2>1, ModUnique
<1>6. QED
  BY <1>1, <1>2, <1>5

\* Any later descriptor, likewise.
LEMMA Onward ==
    ASSUME NEW n \in Nat \ {0}, NEW x \in Nat, NEW j \in Nat
    PROVE  ((x % n) + j) % n = (x + j) % n
<1>1. PICK a \in Int, r \in 0..(n - 1) : x = n * a + r /\ x % n = r
  BY DivMod
<1>2. PICK b \in Int, s \in 0..(n - 1) : r + j = n * b + s /\ (r + j) % n = s
  <2>1. r + j \in Nat
    OBVIOUS
  <2>2. QED
    BY <2>1, DivMod
<1>3. n * (a + b) = n * a + n * b
  OBVIOUS
<1>4. x + j = n * (a + b) + s
  BY <1>1, <1>2, <1>3
<1>5. (x + j) % n = s
  <2>1. a + b \in Int /\ x + j \in Int /\ n \in Int /\ n > 0
    OBVIOUS
  <2>2. QED
    BY <1>4, <2>1, ModUnique
<1>6. QED
  BY <1>1, <1>2, <1>5

\* A whole turn of the ring.
LEMMA Turn ==
    ASSUME NEW n \in Nat \ {0}, NEW x \in Nat
    PROVE  (x + n) % n = x % n
<1>1. n % n = 0
  <2>1. n \in Int /\ n > 0 /\ 1 \in Int /\ 0 \in 0..(n - 1) /\ n = n * 1 + 0
    OBVIOUS
  <2>2. QED
    BY <2>1, ModUnique
<1>2. QED
  BY <1>1, Shift

\* A turn meets every descriptor.
LEMMA Covered ==
    ASSUME NEW n \in Nat \ {0}, NEW x \in Nat, NEW e \in 0..(n - 1)
    PROVE  \E i \in 0..(n - 1) : (x + i) % n = e
<1>1. PICK a \in Int, r \in 0..(n - 1) : x = n * a + r /\ x % n = r
  BY DivMod
<1>2. CASE r <= e
  <2>1. e - r \in 0..(n - 1) /\ x + (e - r) \in Int /\ x + (e - r) = n * a + e
    BY <1>1, <1>2
  <2>2. (x + (e - r)) % n = e
    BY <2>1, ModUnique
  <2>3. QED
    BY <2>1, <2>2
<1>3. CASE r > e
  <2>1. n * (a + 1) = n * a + n
    OBVIOUS
  <2>2. /\ e - r + n \in 0..(n - 1) /\ x + (e - r + n) \in Int
        /\ x + (e - r + n) = n * (a + 1) + e /\ a + 1 \in Int
    BY <1>1, <1>3, <2>1
  <2>3. (x + (e - r + n)) % n = e
    <3>1. ASSUME NEW y \in Int, NEW q \in Int, y = n * q + e PROVE y % n = e
      BY <3>1, ModUnique
    <3>2. QED
      BY <2>2, <3>1
  <2>4. QED
    BY <2>2, <2>3
<1>4. QED
  BY <1>2, <1>3

\* The first u descriptors of a turn are u descriptors.
LEMMA Counted ==
    ASSUME NEW n \in Nat \ {0}, NEW x \in Nat, NEW u \in 0..n,
           NEW S \in SUBSET (0..(n - 1)),
           \A i \in 0..(n - 1) : (x + i) % n \in S <=> i < u
    PROVE  Cardinality(S) = u
<1> DEFINE f == [i \in 1..u |-> (x + (i - 1)) % n]
<1>1. \A i \in 1..u : i - 1 \in 0..(n - 1) /\ i - 1 < u /\ x + (i - 1) \in Nat
  OBVIOUS
<1>2. f \in [1..u -> S]
  BY <1>1
<1>3. ASSUME NEW i \in 1..u, NEW j \in 1..u, i # j PROVE f[i] # f[j]
  <2>1. CASE i < j
    <3>1. x + (i - 1) < x + (j - 1) /\ x + (j - 1) < x + (i - 1) + n
      BY <1>1, <2>1
    <3>2. QED
      BY <1>1, <3>1, Distinct
  <2>2. CASE j < i
    <3>1. x + (j - 1) < x + (i - 1) /\ x + (i - 1) < x + (j - 1) + n
      BY <1>1, <2>2
    <3>2. QED
      BY <1>1, <3>1, Distinct
  <2>3. QED
    BY <1>3, <2>1, <2>2
<1>4. ASSUME NEW e \in S PROVE \E i \in 1..u : f[i] = e
  <2>1. PICK k \in 0..(n - 1) : (x + k) % n = e
    BY Covered
  <2>2. k + 1 \in 1..u /\ (k + 1) - 1 = k
    BY <2>1
  <2>3. QED
    BY <2>1, <2>2
<1>5. f \in Bijection(1..u, S)
  BY <1>2, <1>3, <1>4 DEF Bijection, Injection, Surjection, IsInjective
<1>6. IsFiniteSet(1..u) /\ Cardinality(1..u) = u
  <2>1. /\ IsFiniteSet(1..u)
        /\ Cardinality(1..u) = IF 1 > u THEN 0 ELSE u - 1 + 1
    BY FS_Interval
  <2>2. QED
    BY <2>1
<1>7. QED
  BY <1>5, <1>6, FS_Bijection DEF ExistsBijection

=============================================================================
