-------------------------- MODULE CollectivesProofs --------------------------
(***************************************************************************)
(* What Collectives promises, proved for every size of the communicator    *)
(* and every root: what the bits of a vrank say about the tree, that the   *)
(* messages of both calls are whole subtrees, and that the calls keep      *)
(* ScatterPromise and GatherPromise.                                       *)
(***************************************************************************)
EXTENDS Collectives, FiniteSetTheorems, SequenceTheorems, WellFoundedInduction, TLAPS

-----------------------------------------------------------------------------
(* Powers of two.                                                          *)

\* A set of naturals that is not empty has a least element.
LEMMA LeastElement ==
  ASSUME NEW X \in SUBSET Nat, X # {}
  PROVE  \E a \in X : \A b \in X : a <= b
<1>1. IsWellFoundedOn(OpToRel(<, Nat), Nat)
  BY NatLessThanWellFounded
<1>2. PICK a \in X : \A b \in X : <<b, a>> \notin OpToRel(<, Nat)
  BY <1>1, WFMin
<1>3. \A b \in X : ~(b < a)
  BY <1>2 DEF OpToRel
<1> QED
  BY <1>3

\* A set of naturals with 0 and the successor of each of its elements is Nat.
LEMMA Induction ==
  ASSUME NEW X, 0 \in X, \A k \in Nat : k \in X => k + 1 \in X
  PROVE  Nat \subseteq X
<1> DEFINE T == Nat \ X
<1>1. SUFFICES ASSUME T # {} PROVE FALSE
  OBVIOUS
<1>2. PICK a \in T : \A b \in T : a <= b
  BY <1>1, LeastElement
<1>3. a \in Nat /\ a # 0 /\ a - 1 \in Nat /\ a - 1 < a /\ a - 1 + 1 = a
  BY <1>2
<1>4. a - 1 \in X
  BY <1>2, <1>3
<1> QED
  BY <1>2, <1>3, <1>4

\* The first powers, up to the k-th.
IsPowers(B, k) == B = [a \in 0 .. k |-> IF a = 0 THEN 1 ELSE 2 * B[a - 1]]

LEMMA PowersExist == \A k \in Nat : \E B : IsPowers(B, k)
<1> DEFINE X == {k \in Nat : \E B : IsPowers(B, k)}
<1>1. 0 \in X
  <2> DEFINE B == [a \in 0 .. 0 |-> 1]
  <2>1. IsPowers(B, 0)
    BY DEF IsPowers
  <2> QED
    BY <2>1
<1>2. ASSUME NEW k \in Nat, k \in X PROVE k + 1 \in X
  <2>1. PICK B : IsPowers(B, k)
    BY <1>2
  <2> DEFINE C == [a \in 0 .. (k + 1) |-> IF a = k + 1 THEN 2 * B[k] ELSE B[a]]
             D == [a \in 0 .. (k + 1) |-> IF a = 0 THEN 1 ELSE 2 * C[a - 1]]
  <2>2. \A a \in 0 .. k : B[a] = IF a = 0 THEN 1 ELSE 2 * B[a - 1]
    BY <2>1 DEF IsPowers
  <2>3. ASSUME NEW a \in 0 .. (k + 1) PROVE C[a] = D[a]
    <3>1. CASE a = k + 1
      BY <3>1
    <3>2. CASE a # k + 1
      <4>1. a \in 0 .. k /\ C[a] = B[a] /\ (a # 0 => C[a - 1] = B[a - 1])
        BY <3>2
      <4>2. D[a] = IF a = 0 THEN 1 ELSE 2 * C[a - 1]
        OBVIOUS
      <4> HIDE DEF C, D
      <4> QED
        BY <2>2, <4>1, <4>2
    <3> QED
      BY <3>1, <3>2
  <2>4. C = D
    BY <2>3
  <2>5. IsPowers(C, k + 1)
    BY <2>4 DEF IsPowers
  <2> QED
    BY <2>5
<1> HIDE DEF X
<1>3. Nat \subseteq X
  BY <1>1, <1>2, Induction
<1> QED
  BY <1>3 DEF X

LEMMA PowersAgree ==
  ASSUME NEW k \in Nat, NEW b \in Nat, NEW B, NEW C, IsPowers(B, k), IsPowers(C, b)
  PROVE  \A a \in Nat : a <= k /\ a <= b => B[a] = C[a]
<1> DEFINE X == {a \in Nat : a <= k /\ a <= b => B[a] = C[a]}
<1>1. /\ \A a \in 0 .. k : B[a] = IF a = 0 THEN 1 ELSE 2 * B[a - 1]
      /\ \A a \in 0 .. b : C[a] = IF a = 0 THEN 1 ELSE 2 * C[a - 1]
  BY DEF IsPowers
<1>2. 0 \in X
  BY <1>1
<1>3. ASSUME NEW a \in Nat, a \in X PROVE a + 1 \in X
  <2>1. SUFFICES ASSUME a + 1 <= k, a + 1 <= b PROVE B[a + 1] = C[a + 1]
    OBVIOUS
  <2>2. a + 1 \in 0 .. k /\ a + 1 \in 0 .. b /\ a + 1 # 0 /\ a + 1 - 1 = a /\ a <= k /\ a <= b
    BY <2>1
  <2>3. B[a] = C[a]
    BY <1>3, <2>2
  <2> QED
    BY <1>1, <2>2, <2>3
<1> HIDE DEF X
<1>4. Nat \subseteq X
  BY <1>2, <1>3, Induction
<1> QED
  BY <1>4 DEF X

LEMMA TwoIs == two[0] = 1 /\ \A k \in Nat : two[k + 1] = 2 * two[k]
<1> DEFINE P(k) == CHOOSE B : IsPowers(B, k)
           f == [k \in Nat |-> P(k)[k]]
           g == [k \in Nat |-> IF k = 0 THEN 1 ELSE 2 * f[k - 1]]
<1>1. \A k \in Nat : IsPowers(P(k), k)
  BY PowersExist
<1> HIDE DEF P
<1>2. ASSUME NEW k \in Nat PROVE f[k] = g[k]
  <2>1. f[k] = P(k)[k] /\ IsPowers(P(k), k)
    BY <1>1
  <2>2. P(k)[k] = IF k = 0 THEN 1 ELSE 2 * P(k)[k - 1]
    BY <2>1 DEF IsPowers
  <2>3. CASE k = 0
    BY <2>1, <2>2, <2>3
  <2>4. CASE k # 0
    <3>1. k - 1 \in Nat /\ k - 1 <= k /\ k - 1 <= k - 1
      BY <2>4
    <3>2. P(k)[k - 1] = P(k - 1)[k - 1]
      BY <1>1, <3>1, PowersAgree
    <3>3. f[k - 1] = P(k - 1)[k - 1]
      BY <3>1
    <3> QED
      BY <2>1, <2>2, <2>4, <3>2, <3>3
  <2> QED
    BY <2>3, <2>4
<1>3. f = g
  BY <1>2
<1> HIDE DEF f
<1>4. \E h : h = [k \in Nat |-> IF k = 0 THEN 1 ELSE 2 * h[k - 1]]
  BY <1>3
<1>5. two = [k \in Nat |-> IF k = 0 THEN 1 ELSE 2 * two[k - 1]]
  BY <1>4 DEF two
<1>6. \A k \in Nat : two[k] = IF k = 0 THEN 1 ELSE 2 * two[k - 1]
  BY <1>5
<1>7. \A k \in Nat : k + 1 \in Nat /\ k + 1 # 0 /\ k + 1 - 1 = k
  OBVIOUS
<1> QED
  BY <1>6, <1>7

LEMMA TwoIsPositive == \A k \in Nat : two[k] \in Nat /\ two[k] >= 1
<1> DEFINE X == {k \in Nat : two[k] \in Nat /\ two[k] >= 1}
<1>1. 0 \in X
  BY TwoIs
<1>2. \A k \in Nat : k \in X => k + 1 \in X
  BY TwoIs
<1> HIDE DEF X
<1>3. Nat \subseteq X
  BY <1>1, <1>2, Induction
<1> QED
  BY <1>3 DEF X

\* Sums of exponents are products.
LEMMA TwoAdds == \A a, b \in Nat : two[a + b] = two[a] * two[b]
<1> SUFFICES ASSUME NEW a \in Nat PROVE \A b \in Nat : two[a + b] = two[a] * two[b]
  OBVIOUS
<1> DEFINE X == {b \in Nat : two[a + b] = two[a] * two[b]}
<1>1. 0 \in X
  <2>1. a + 0 = a /\ two[a] \in Nat
    BY TwoIsPositive
  <2> QED
    BY <2>1, TwoIs
<1>2. ASSUME NEW b \in Nat, b \in X PROVE b + 1 \in X
  <2>1. two[a + b] = two[a] * two[b]
    BY <1>2
  <2>2. a + (b + 1) = (a + b) + 1 /\ a + b \in Nat
    OBVIOUS
  <2>3. two[a + (b + 1)] = 2 * two[a + b] /\ two[b + 1] = 2 * two[b]
    BY <2>2, TwoIs
  <2>4. two[a] \in Nat /\ two[b] \in Nat
    BY TwoIsPositive
  <2> DEFINE p == two[a]
             q == two[b]
  <2>5. p \in Nat /\ q \in Nat
    BY <2>4
  <2> HIDE DEF p, q
  <2>6. 2 * (p * q) = p * (2 * q)
    BY <2>5
  <2> QED
    BY <2>1, <2>3, <2>6 DEF p, q
<1> HIDE DEF X
<1>3. Nat \subseteq X
  BY <1>1, <1>2, Induction
<1> QED
  BY <1>3 DEF X

-----------------------------------------------------------------------------
(* Division.                                                               *)

\* Division with rest.
LEMMA Divided ==
  ASSUME NEW v \in Nat, NEW p \in Nat, p >= 1
  PROVE  /\ v \div p \in Nat /\ v % p \in 0 .. (p - 1)
         /\ v = p * (v \div p) + (v % p)
OBVIOUS

LEMMA ProductsGrow ==
  ASSUME NEW p \in Nat, NEW a \in Int, NEW b \in Int, a <= b
  PROVE  p * a <= p * b /\ p * a \in Int /\ p * b \in Int
OBVIOUS

\* There is one way to divide.
LEMMA DividedOnce ==
  ASSUME NEW v \in Nat, NEW p \in Nat, p >= 1, NEW q \in Int, NEW r \in 0 .. (p - 1), v = p * q + r
  PROVE  v % p = r
<1> DEFINE u == v \div p
           s == v % p
<1>1. u \in Int /\ s \in 0 .. (p - 1) /\ v = p * u + s
  BY Divided
<1> HIDE DEF u, s
<1>2. CASE u < q
  <2>1. u + 1 <= q
    BY <1>1, <1>2
  <2>2. p * (u + 1) <= p * q /\ p * q \in Int
    BY <1>1, <2>1, ProductsGrow
  <2>3. p * (u + 1) = p * u + p /\ p * u \in Int
    BY <1>1
  <2> QED
    BY <1>1, <2>2, <2>3
<1>3. CASE q < u
  <2>1. q + 1 <= u
    BY <1>1, <1>3
  <2>2. p * (q + 1) <= p * u /\ p * u \in Int
    BY <1>1, <2>1, ProductsGrow
  <2>3. p * (q + 1) = p * q + p /\ p * q \in Int
    BY <1>1
  <2> QED
    BY <1>1, <2>2, <2>3
<1>4. CASE u = q
  <2>1. p * q \in Int
    OBVIOUS
  <2> QED
    BY <1>1, <1>4, <2>1 DEF s
<1> QED
  BY <1>1, <1>2, <1>3, <1>4

LEMMA Quotient ==
  ASSUME NEW v \in Nat, NEW p \in Nat, p >= 1, NEW q \in Int, v = p * q
  PROVE  v \div p = q
<1> DEFINE u == v \div p
           s == v % p
<1>1. u \in Int /\ s \in 0 .. (p - 1) /\ v = p * u + s
  <2>1. /\ v \div p \in Nat /\ v % p \in 0 .. (p - 1)
        /\ v = p * (v \div p) + (v % p)
    BY Divided
  <2> QED
    BY <2>1
<1>2. s = 0
  <2>1. v = p * q + 0 /\ 0 \in 0 .. (p - 1) /\ p * q \in Int
    OBVIOUS
  <2> QED
    BY <2>1, DividedOnce
<1> HIDE DEF u, s
<1>3. p * u = p * q /\ p * u \in Int /\ p * q \in Int
  BY <1>1, <1>2
<1>4. CASE u < q
  <2>1. p * (u + 1) <= p * q /\ p * (u + 1) = p * u + p
    BY <1>1, <1>4, ProductsGrow
  <2> QED
    BY <1>3, <2>1
<1>5. CASE q < u
  <2>1. p * (q + 1) <= p * u /\ p * (q + 1) = p * q + p
    BY <1>1, <1>5, ProductsGrow
  <2> QED
    BY <1>3, <2>1
<1> QED
  BY <1>1, <1>4, <1>5 DEF u

\* A higher power is an even multiple of a lower one.
LEMMA TwoSplits ==
  ASSUME NEW a \in Nat, NEW b \in Nat, a < b
  PROVE  \E c \in Nat : c >= 1 /\ two[b] = two[a] * (2 * c)
<1>1. b - a - 1 \in Nat /\ b - a \in Nat /\ (b - a - 1) + 1 = b - a /\ a + (b - a) = b
  OBVIOUS
<1>2. two[b - a] = 2 * two[b - a - 1] /\ two[b] = two[a] * two[b - a]
  BY <1>1, TwoIs, TwoAdds
<1>3. two[b - a - 1] \in Nat /\ two[b - a - 1] >= 1
  BY <1>1, TwoIsPositive
<1> QED
  BY <1>2, <1>3

LEMMA TwoGrows ==
  ASSUME NEW a \in Nat, NEW b \in Nat, a < b
  PROVE  2 * two[a] <= two[b]
<1>1. PICK c \in Nat : c >= 1 /\ two[b] = two[a] * (2 * c)
  BY TwoSplits
<1> DEFINE p == two[a]
<1>2. p \in Nat
  BY TwoIsPositive
<1> HIDE DEF p
<1>3. p * 2 <= p * (2 * c) /\ p * 2 = 2 * p
  <2>1. 2 \in Int /\ 2 * c \in Int /\ 2 <= 2 * c
    BY <1>1
  <2> QED
    BY <1>2, <2>1, ProductsGrow
<1> QED
  BY <1>1, <1>3 DEF p

LEMMA TwoPassesAll == \A k \in Nat : k < two[k]
<1> DEFINE X == {k \in Nat : k < two[k]}
<1>1. 0 \in X
  BY TwoIs
<1>2. \A k \in Nat : k \in X => k + 1 \in X
  BY TwoIs, TwoIsPositive
<1> HIDE DEF X
<1>3. Nat \subseteq X
  BY <1>1, <1>2, Induction
<1> QED
  BY <1>3 DEF X

-----------------------------------------------------------------------------
(* The lowest bit.                                                         *)

\* The lowest bit of v is the one with the value two[a].
Low(v, a) == a \in Nat /\ \E q \in Nat : v = two[a] * (2 * q + 1)

\* Each number but 0 has a lowest bit.
LEMMA LowExists == \A v \in Nat : v >= 1 => \E a : Low(v, a)
<1> DEFINE X == {v \in Nat : v >= 1 /\ ~(\E a : Low(v, a))}
<1>1. SUFFICES ASSUME X # {} PROVE FALSE
  OBVIOUS
<1>2. PICK v \in X : \A b \in X : v <= b
  BY <1>1, LeastElement
<1> DEFINE u == v \div 2
<1>3. v \in Nat /\ v >= 1 /\ ~(\E a : Low(v, a))
  BY <1>2
<1>4. u \in Nat /\ v % 2 \in 0 .. 1 /\ v = 2 * u + (v % 2)
  BY <1>3
<1>5. CASE v % 2 = 1
  <2>1. v = two[0] * (2 * u + 1)
    BY <1>4, <1>5, TwoIs
  <2>2. Low(v, 0)
    BY <1>4, <2>1 DEF Low
  <2> QED
    BY <1>3, <2>2
<1>6. CASE v % 2 = 0
  <2>1. v = 2 * u /\ u >= 1 /\ u < v
    BY <1>3, <1>4, <1>6
  <2>2. u \notin X
    BY <1>2, <1>3, <1>4, <2>1
  <2> HIDE DEF u
  <2>3. PICK a : Low(u, a)
    BY <1>4, <2>1, <2>2
  <2>4. PICK q \in Nat : u = two[a] * (2 * q + 1)
    BY <2>3 DEF Low
  <2> DEFINE p == two[a]
             o == 2 * q + 1
  <2>5. a \in Nat /\ p \in Nat /\ o \in Nat /\ two[a + 1] = 2 * p /\ u = p * o
    BY <2>3, <2>4, TwoIs, TwoIsPositive DEF Low
  <2> HIDE DEF p, o
  <2>6. v = (2 * p) * o
    BY <2>1, <2>5
  <2>7. Low(v, a + 1)
    BY <2>5, <2>6 DEF Low, o
  <2> QED
    BY <1>3, <2>7
<1> QED
  BY <1>4, <1>5, <1>6

LEMMA LowFits ==
  ASSUME NEW v \in Nat, NEW a, Low(v, a)
  PROVE  a \in Nat /\ two[a] \in Nat /\ 1 <= two[a] /\ two[a] <= v
<1>1. PICK q \in Nat : v = two[a] * (2 * q + 1)
  BY DEF Low
<1> DEFINE p == two[a]
<1>2. a \in Nat /\ p \in Nat /\ p >= 1
  BY TwoIsPositive DEF Low
<1> HIDE DEF p
<1>3. 1 \in Int /\ 2 * q + 1 \in Int /\ 1 <= 2 * q + 1
  OBVIOUS
<1>4. p * 1 <= p * (2 * q + 1) /\ p * 1 = p
  BY <1>2, <1>3, ProductsGrow
<1> QED
  BY <1>1, <1>2, <1>4 DEF p

\* The lowest bit is set.
LEMMA BitSet ==
  ASSUME NEW v \in Nat, NEW a, Low(v, a)
  PROVE  (v \div two[a]) % 2 = 1
<1>1. PICK q \in Nat : v = two[a] * (2 * q + 1)
  BY DEF Low
<1> DEFINE o == 2 * q + 1
<1>2. two[a] \in Nat /\ two[a] >= 1 /\ o \in Int /\ v = two[a] * o
  BY <1>1, LowFits
<1> HIDE DEF o
<1>3. v \div two[a] = o
  BY <1>2, Quotient
<1> QED
  BY <1>3 DEF o

\* The bits below the lowest one are clear.
LEMMA BitClear ==
  ASSUME NEW v \in Nat, NEW a, Low(v, a), NEW k \in Nat, k < a
  PROVE  (v \div two[k]) % 2 = 0
<1>1. PICK q \in Nat : v = two[a] * (2 * q + 1)
  BY DEF Low
<1>2. PICK c \in Nat : two[a] = two[k] * (2 * c)
  BY LowFits, TwoSplits
<1> DEFINE p == two[k]
           o == 2 * q + 1
           d == c * o
           e == 2 * d
<1>3. p \in Nat /\ p >= 1 /\ o \in Nat
  BY TwoIsPositive
<1>4. d \in Nat /\ e \in Int
  BY <1>3
<1>5. v = p * e
  <2>1. v = (p * (2 * c)) * o
    BY <1>1, <1>2
  <2> HIDE DEF p, o
  <2>2. (p * (2 * c)) * o = p * (2 * (c * o))
    BY <1>3
  <2> QED
    BY <2>1, <2>2
<1>6. v \div p = e
  <2> HIDE DEF p, e
  <2> QED
    BY <1>3, <1>4, <1>5, Quotient
<1>7. e % 2 = 0
  <2> HIDE DEF d
  <2> QED
    BY <1>4
<1> QED
  BY <1>6, <1>7 DEF p

-----------------------------------------------------------------------------
(* The masks of the loop.                                                  *)

LEMMA MasksAre ==
  ASSUME size \in Nat \ {0}
  PROVE  \A mask : mask \in Masks <=> \E k \in Nat : mask = two[k] /\ two[k] < size
<1>1. ASSUME NEW k \in Nat, two[k] < size PROVE k \in 0 .. size /\ two[k] \in 1 .. (size - 1)
  BY <1>1, TwoPassesAll, TwoIsPositive
<1> QED
  BY <1>1 DEF Masks

LEMMA RemoteIs ==
  ASSUME NEW v \in Nat, NEW k \in Nat
  PROVE  /\ (v \div two[k]) % 2 = 0 => remote(v, two[k]) = v + two[k] /\ ~(remote(v, two[k]) < v)
         /\ (v \div two[k]) % 2 # 0 => remote(v, two[k]) = v - two[k] /\ remote(v, two[k]) < v
BY TwoIsPositive DEF remote

LEMMA UpMasksOf ==
  ASSUME size \in Nat \ {0}, NEW v \in 1 .. (size - 1), NEW a, Low(v, a)
  PROVE  two[a] \in UpMasks(v) /\ \A mask \in UpMasks(v) : two[a] <= mask /\ mask \in Nat
<1>1. v \in Nat /\ a \in Nat /\ two[a] < size
  BY LowFits
<1>2. two[a] \in UpMasks(v)
  BY <1>1, BitSet, RemoteIs, MasksAre DEF UpMasks
<1>3. ASSUME NEW mask \in UpMasks(v) PROVE two[a] <= mask /\ mask \in Nat
  <2>1. PICK k \in Nat : mask = two[k]
    BY MasksAre DEF UpMasks
  <2>2. remote(v, two[k]) < v
    BY <2>1 DEF UpMasks
  <2>3. ~(k < a)
    BY <1>1, <2>2, BitClear, RemoteIs
  <2>4. two[k] \in Nat /\ two[a] \in Nat
    BY <1>1, TwoIsPositive
  <2>5. CASE a = k
    BY <2>1, <2>4, <2>5
  <2>6. CASE a < k
    BY <1>1, <2>1, <2>4, <2>6, TwoGrows
  <2> QED
    BY <1>1, <2>3, <2>5, <2>6
<1> QED
  BY <1>2, <1>3

LEMMA UpMasksOfZero == UpMasks(0) = {}
<1>1. ASSUME NEW mask \in UpMasks(0), NEW k \in Nat, mask = two[k] PROVE FALSE
  <2>1. 0 = two[k] * 0 /\ two[k] \in Nat /\ two[k] >= 1
    BY TwoIsPositive
  <2>2. 0 \div two[k] = 0
    BY <2>1, Quotient
  <2>3. (0 \div two[k]) % 2 = 0
    BY <2>2
  <2> QED
    BY <1>1, <2>3, RemoteIs DEF UpMasks
<1>2. ASSUME NEW mask \in UpMasks(0) PROVE \E k \in Nat : mask = two[k]
  BY DEF UpMasks, Masks
<1> QED
  BY <1>1, <1>2

LEMMA LeastOf ==
  ASSUME NEW X \in SUBSET Int, NEW a \in X, \A b \in X : a <= b
  PROVE  Min(X) = a
<1> DEFINE c == Min(X)
<1>1. c \in X /\ \A b \in X : c <= b
  BY DEF Min
<1> HIDE DEF c
<1>2. c \in Int /\ a \in Int /\ c <= a /\ a <= c
  BY <1>1
<1>3. c = a
  BY <1>2
<1> QED
  BY <1>3 DEF c

\* The parent of a process that is not the root.
LEMMA PrevIs ==
  ASSUME size \in Nat \ {0}, NEW v \in 1 .. (size - 1), NEW a, Low(v, a)
  PROVE  remote(v, Min(UpMasks(v))) = v - two[a] /\ Min(UpMasks(v)) = two[a]
<1>1. two[a] \in UpMasks(v) /\ \A mask \in UpMasks(v) : two[a] <= mask /\ mask \in Int
  BY UpMasksOf
<1>2. Min(UpMasks(v)) = two[a]
  BY <1>1, LeastOf
<1>3. v \in Nat /\ a \in Nat
  BY LowFits
<1> QED
  BY <1>2, <1>3, BitSet, RemoteIs

\* There is one lowest bit.
LEMMA LowOnce ==
  ASSUME size \in Nat \ {0}, NEW v \in 1 .. (size - 1), NEW a, NEW b, Low(v, a), Low(v, b)
  PROVE  a = b
<1>1. two[a] = two[b] /\ a \in Nat /\ b \in Nat /\ two[a] \in Nat /\ two[a] >= 1
  BY PrevIs, LowFits
<1>2. CASE a < b
  BY <1>1, <1>2, TwoGrows
<1>3. CASE b < a
  BY <1>1, <1>3, TwoGrows
<1> QED
  BY <1>1, <1>2, <1>3

-----------------------------------------------------------------------------
(* The children.                                                           *)

InTree == size \in Nat \ {0} /\ root \in Rank

LEMMA RankIs ==
  ASSUME InTree
  PROVE  \A r \in Rank : rank(r) = IF r + root < size THEN r + root ELSE r + root - size
<1> SUFFICES ASSUME NEW r \in Rank PROVE rank(r) = IF r + root < size THEN r + root ELSE r + root - size
  OBVIOUS
<1>1. size \in Nat /\ size >= 1 /\ root \in 0 .. (size - 1) /\ r \in 0 .. (size - 1)
  BY DEF InTree, Rank
<1> DEFINE u == r + root
<1>2. CASE u < size
  <2>1. u \in Nat /\ u = size * 0 + u /\ u \in 0 .. (size - 1)
    BY <1>1, <1>2
  <2>2. u % size = u
    BY <1>1, <2>1, DividedOnce
  <2> QED
    BY <1>2, <2>2 DEF rank
<1>3. CASE ~(u < size)
  <2>1. u \in Nat /\ u = size * 1 + (u - size) /\ u - size \in 0 .. (size - 1)
    BY <1>1, <1>3
  <2>2. u % size = u - size
    BY <1>1, <2>1, DividedOnce
  <2>3. rank(r) = u % size
    BY DEF rank
  <2> HIDE DEF u
  <2>4. rank(r) = u - size
    BY <2>2, <2>3
  <2> QED
    BY <1>1, <1>3, <2>4 DEF u
<1> QED
  BY <1>2, <1>3

LEMMA VrankIs ==
  ASSUME InTree
  PROVE  \A r \in Rank : vrank(r) = IF r >= root THEN r - root ELSE r - root + size
<1> SUFFICES ASSUME NEW r \in Rank PROVE vrank(r) = IF r >= root THEN r - root ELSE r - root + size
  OBVIOUS
<1>1. size \in Nat /\ size >= 1 /\ root \in 0 .. (size - 1) /\ r \in 0 .. (size - 1)
  BY DEF InTree, Rank
<1> DEFINE u == r - root + size
<1>2. CASE r >= root
  <2>1. u \in Nat /\ u = size * 1 + (r - root) /\ r - root \in 0 .. (size - 1)
    BY <1>1, <1>2
  <2>2. u % size = r - root
    BY <1>1, <2>1, DividedOnce
  <2> QED
    BY <1>2, <2>2 DEF vrank
<1>3. CASE ~(r >= root)
  <2>1. u \in Nat /\ u = size * 0 + u /\ u \in 0 .. (size - 1)
    BY <1>1, <1>3
  <2>2. u % size = u
    BY <1>1, <2>1, DividedOnce
  <2> QED
    BY <1>3, <2>2 DEF vrank
<1> QED
  BY <1>2, <1>3

\* Ranks and vranks are one to one.
LEMMA RanksTurn ==
  ASSUME InTree
  PROVE  /\ \A r \in Rank : vrank(r) \in Rank /\ rank(r) \in Rank /\ rank(vrank(r)) = r /\ vrank(rank(r)) = r
         /\ vrank(root) = 0 /\ rank(0) = root /\ root \in Rank /\ 0 \in Rank
         /\ \A r \in Rank : vrank(r) = 0 => r = root
<1>1. size \in Nat /\ size >= 1 /\ root \in 0 .. (size - 1)
  BY DEF InTree, Rank
<1>2. ASSUME NEW r \in 0 .. (size - 1)
      PROVE  /\ vrank(r) \in 0 .. (size - 1) /\ vrank(r) = IF r >= root THEN r - root ELSE r - root + size
             /\ rank(r) \in 0 .. (size - 1) /\ rank(r) = IF r + root < size THEN r + root ELSE r + root - size
  BY <1>1, VrankIs, RankIs DEF Rank
<1>3. ASSUME NEW r \in 0 .. (size - 1) PROVE rank(vrank(r)) = r /\ vrank(rank(r)) = r
  <2> DEFINE w == vrank(r)
             u == rank(r)
  <2>1. /\ w \in 0 .. (size - 1) /\ w = IF r >= root THEN r - root ELSE r - root + size
        /\ u \in 0 .. (size - 1) /\ u = IF r + root < size THEN r + root ELSE r + root - size
    BY <1>2
  <2>2. /\ rank(w) = IF w + root < size THEN w + root ELSE w + root - size
        /\ vrank(u) = IF u >= root THEN u - root ELSE u - root + size
    BY <1>2, <2>1
  <2> HIDE DEF w, u
  <2>3. rank(w) = r /\ vrank(u) = r
    BY <1>1, <2>1, <2>2
  <2> QED
    BY <2>3 DEF w, u
<1>4. 0 \in 0 .. (size - 1)
  BY <1>1
<1>5. vrank(root) = 0 /\ rank(0) = root
  BY <1>1, <1>2, <1>4
<1>6. \A r \in 0 .. (size - 1) : vrank(r) = 0 => r = root
  BY <1>3, <1>5
<1> QED
  BY <1>1, <1>2, <1>3, <1>4, <1>5, <1>6 DEF Rank

LowBit(v) == CHOOSE a : Low(v, a)

LEMMA LowBitIs ==
  ASSUME InTree, NEW v \in Rank, v # 0
  PROVE  Low(v, LowBit(v)) /\ \A a : Low(v, a) => a = LowBit(v)
<1>1. v \in 1 .. (size - 1) /\ v \in Nat /\ v >= 1 /\ size \in Nat \ {0}
  BY DEF InTree, Rank
<1>2. Low(v, LowBit(v))
  BY <1>1, LowExists DEF LowBit
<1> QED
  BY <1>1, <1>2, LowOnce

\* The turns of the loop in which v finds a child, and how many they are.
Turn(v, k) == (v = 0 \/ k < LowBit(v)) /\ v + two[k] < size
NKids(v)   == CHOOSE b \in Nat : \A k \in Nat : Turn(v, k) <=> k < b

LEMMA ReachedAre ==
  ASSUME InTree, NEW v \in Rank, NEW k \in Nat, two[k] < size
  PROVE  two[k] \in Reached(v) <=> (v = 0 \/ k < LowBit(v))
<1>1. size \in Nat \ {0} /\ two[k] \in Masks
  BY MasksAre DEF InTree
<1>2. CASE v = 0
  BY <1>1, <1>2, UpMasksOfZero DEF Reached
<1>3. CASE v # 0
  <2> DEFINE a == LowBit(v)
  <2>1. Low(v, a) /\ v \in 1 .. (size - 1) /\ v \in Nat
    BY <1>3, LowBitIs DEF InTree, Rank
  <2>2. a \in Nat /\ two[a] \in Nat
    BY <2>1, LowFits
  <2>3. two[a] \in UpMasks(v) /\ \A mask \in UpMasks(v) : two[a] <= mask /\ mask \in Nat
    BY <1>1, <2>1, UpMasksOf
  <2> HIDE DEF a
  <2>4. two[k] \in Nat
    BY TwoIsPositive
  <2>5. two[k] < two[a] <=> k < a
    <3>1. CASE k < a
      BY <2>2, <2>4, <3>1, TwoGrows, TwoIsPositive
    <3>2. CASE k = a
      BY <2>2, <3>2
    <3>3. CASE a < k
      BY <2>2, <2>4, <3>3, TwoGrows, TwoIsPositive
    <3> QED
      BY <2>2, <3>1, <3>2, <3>3
  <2>6. two[k] \in Reached(v) <=> two[k] < two[a]
    <3>1. ASSUME two[k] < two[a], NEW mask \in UpMasks(v) PROVE two[k] < mask
      BY <2>2, <2>3, <2>4, <3>1
    <3> QED
      BY <1>1, <2>3, <3>1 DEF Reached
  <2> QED
    BY <1>3, <2>5, <2>6 DEF a
<1> QED
  BY <1>2, <1>3

\* The children of v are the turns of the loop that find one.
LEMMA KidsAre ==
  ASSUME InTree, NEW v \in Rank
  PROVE  \A c : c \in Kids(v) <=> \E k \in Nat : c = v + two[k] /\ Turn(v, k)
<1>1. size \in Nat \ {0} /\ v \in Nat
  BY DEF InTree, Rank
<1>2. ASSUME NEW k \in Nat, v = 0 \/ k < LowBit(v) PROVE remote(v, two[k]) = v + two[k]
  <2>1. CASE v = 0
    <3>1. 0 = two[k] * 0 /\ two[k] \in Nat /\ two[k] >= 1
      BY TwoIsPositive
    <3>2. 0 \div two[k] = 0
      BY <3>1, Quotient
    <3> QED
      BY <2>1, <3>2, RemoteIs
  <2>2. CASE v # 0
    BY <1>1, <1>2, <2>2, LowBitIs, BitClear, RemoteIs
  <2> QED
    BY <2>1, <2>2
<1>3. ASSUME NEW c \in Kids(v) PROVE \E k \in Nat : c = v + two[k] /\ Turn(v, k)
  <2>1. PICK mask \in Reached(v) : c = remote(v, mask)
    BY DEF Kids
  <2>2. c \in 0 .. (size - 1)
    BY DEF Kids
  <2>3. PICK k \in Nat : mask = two[k] /\ two[k] < size
    BY <1>1, <2>1, MasksAre DEF Reached
  <2>4. v = 0 \/ k < LowBit(v)
    BY <2>1, <2>3, ReachedAre
  <2>5. c = v + two[k]
    BY <1>2, <2>1, <2>3, <2>4
  <2> QED
    BY <1>1, <2>2, <2>4, <2>5 DEF Turn
<1>4. ASSUME NEW k \in Nat, Turn(v, k) PROVE v + two[k] \in Kids(v)
  <2>1. (v = 0 \/ k < LowBit(v)) /\ v + two[k] < size
    BY <1>4 DEF Turn
  <2>2. two[k] \in Nat /\ two[k] < size /\ v + two[k] \in 0 .. (size - 1)
    BY <1>1, <2>1, TwoIsPositive
  <2>3. two[k] \in Reached(v) /\ remote(v, two[k]) = v + two[k]
    BY <1>2, <2>1, <2>2, ReachedAre
  <2> QED
    BY <2>2, <2>3 DEF Kids
<1> QED
  BY <1>3, <1>4

\* These turns are the first ones.
LEMMA NKidsIs ==
  ASSUME InTree, NEW v \in Rank
  PROVE  NKids(v) \in Nat /\ \A k \in Nat : Turn(v, k) <=> k < NKids(v)
<1>1. size \in Nat /\ v \in Nat /\ (v # 0 => LowBit(v) \in Nat)
  BY LowBitIs, LowFits DEF InTree, Rank
<1> DEFINE X == {k \in Nat : ~Turn(v, k)}
<1>2. size \in X
  BY <1>1, TwoPassesAll, TwoIsPositive DEF Turn
<1>3. PICK b \in X : \A k \in X : b <= k
  BY <1>2, LeastElement
<1>4. ASSUME NEW k \in Nat PROVE Turn(v, k) <=> k < b
  <2>1. b \in Nat /\ ~Turn(v, b)
    BY <1>3
  <2>2. CASE k < b
    BY <1>3, <2>1, <2>2
  <2>3. CASE ~(k < b)
    <3>1. k # b => two[b] <= two[k]
      BY <2>1, <2>3, TwoGrows, TwoIsPositive
    <3>2. two[b] <= two[k] /\ two[b] \in Nat /\ two[k] \in Nat /\ b <= k
      BY <2>1, <2>3, <3>1, TwoIsPositive
    <3>3. ~Turn(v, k)
      BY <1>1, <2>1, <3>2 DEF Turn
    <3> QED
      BY <2>3, <3>3
  <2> QED
    BY <2>2, <2>3
<1>5. b \in Nat
  BY <1>3
<1> QED
  BY <1>4, <1>5 DEF NKids

\* The number of elements that are counted one by one.
LEMMA CountOneByOne ==
  ASSUME NEW k \in Nat, NEW X, NEW f \in [1 .. k -> X],
         \A a, b \in 1 .. k : f[a] = f[b] => a = b,
         \A c \in X : \E a \in 1 .. k : f[a] = c
  PROVE  IsFiniteSet(X) /\ Cardinality(X) = k
<1> DEFINE D == 1 .. k
<1>1. IsFiniteSet(D) /\ Cardinality(D) = k
  <2>1. IsFiniteSet(D)
    BY FS_Interval
  <2>2. Cardinality(D) = IF 1 > k THEN 0 ELSE k - 1 + 1
    BY FS_Interval
  <2> QED
    BY <2>1, <2>2
<1> HIDE DEF D
<1>2. f \in Bijection(D, X)
  BY DEF D, Bijection, Injection, Surjection, IsInjective
<1> QED
  BY <1>1, <1>2, FS_Bijection DEF ExistsBijection

LEMMA TwoRises ==
  ASSUME NEW a \in Nat, NEW b \in Nat
  PROVE  /\ two[a] = two[b] => a = b
         /\ two[a] <= two[b] <=> a <= b
<1>1. two[a] \in Nat /\ two[b] \in Nat /\ two[a] >= 1 /\ two[b] >= 1
  BY TwoIsPositive
<1>2. CASE a < b
  BY <1>1, <1>2, TwoGrows
<1>3. CASE b < a
  BY <1>1, <1>3, TwoGrows
<1>4. CASE a = b
  BY <1>1, <1>4
<1> QED
  BY <1>2, <1>3, <1>4

\* As many powers as there are exponents.
LEMMA PowersCounted ==
  ASSUME NEW v \in Nat, NEW k \in Nat, NEW X, \A c : c \in X <=> \E a \in Nat : c = v + two[a] /\ a < k
  PROVE  Cardinality(X) = k
<1> DEFINE f == [a \in 1 .. k |-> v + two[a - 1]]
<1>1. ASSUME NEW a \in 1 .. k PROVE a - 1 \in Nat /\ a - 1 < k /\ two[a - 1] \in Nat /\ f[a] = v + two[a - 1] /\ f[a] \in X
  <2>1. a - 1 \in Nat /\ a - 1 < k
    OBVIOUS
  <2> QED
    BY <2>1, TwoIsPositive
<1>2. f \in [1 .. k -> X]
  BY <1>1
<1> HIDE DEF f
<1>3. ASSUME NEW a \in 1 .. k, NEW b \in 1 .. k, f[a] = f[b] PROVE a = b
  <2>1. two[a - 1] = two[b - 1]
    BY <1>1, <1>3
  <2>2. a - 1 = b - 1
    BY <1>1, <2>1, TwoRises
  <2> QED
    BY <2>2
<1>4. ASSUME NEW c \in X PROVE \E a \in 1 .. k : f[a] = c
  <2>1. PICK a \in Nat : c = v + two[a] /\ a < k
    OBVIOUS
  <2>2. a + 1 \in 1 .. k /\ (a + 1) - 1 = a
    BY <2>1
  <2>3. f[a + 1] = c
    BY <1>1, <2>1, <2>2
  <2> QED
    BY <2>2, <2>3
<1> QED
  BY <1>2, <1>3, <1>4, CountOneByOne

\* The children of a process are those of the turns of the loop, in this order.
LEMMA NextIs ==
  ASSUME InTree, NEW r \in Rank
  PROVE  tree_next(r) = [k \in 1 .. NKids(vrank(r)) |-> rank(vrank(r) + two[k - 1])]
<1> DEFINE v == vrank(r)
           kn == NKids(v)
           kids == Kids(v)
<1>1. v \in Rank /\ v \in Nat
  BY RanksTurn DEF Rank
<1>2. kn \in Nat /\ \A k \in Nat : Turn(v, k) <=> k < kn
  BY <1>1, NKidsIs
<1>3. \A c : c \in kids <=> \E a \in Nat : c = v + two[a] /\ a < kn
  BY <1>1, <1>2, KidsAre
<1> HIDE DEF kn, kids, v
<1>4. Cardinality(kids) = kn
  BY <1>1, <1>2, <1>3, PowersCounted
<1>5. ASSUME NEW a \in Nat, a < kn PROVE Cardinality({b \in kids : b <= v + two[a]}) = a + 1
  <2> DEFINE X == {b \in kids : b <= v + two[a]}
  <2>1. ASSUME NEW c PROVE c \in X <=> \E b \in Nat : c = v + two[b] /\ b < a + 1
    <3>1. ASSUME NEW b \in Nat PROVE (b < kn /\ v + two[b] <= v + two[a]) <=> b < a + 1
      <4>1. two[b] \in Nat /\ two[a] \in Nat
        BY TwoIsPositive
      <4>2. v + two[b] <= v + two[a] <=> b <= a
        BY <1>1, <4>1, TwoRises
      <4> QED
        BY <1>2, <1>5, <4>2
    <3> QED
      BY <1>3, <3>1
  <2> HIDE DEF X
  <2>2. a + 1 \in Nat
    OBVIOUS
  <2>3. Cardinality(X) = a + 1
    BY <1>1, <2>1, <2>2, PowersCounted
  <2> QED
    BY <2>3 DEF X
<1> DEFINE Kid(k) == CHOOSE c \in kids : Cardinality({b \in kids : b <= c}) = k
<1>6. ASSUME NEW k \in 1 .. kn PROVE Kid(k) = v + two[k - 1]
  <2>1. k - 1 \in Nat /\ k - 1 < kn /\ (k - 1) + 1 = k
    BY <1>2
  <2>2. v + two[k - 1] \in kids /\ Cardinality({b \in kids : b <= v + two[k - 1]}) = k
    BY <1>3, <1>5, <2>1
  <2>3. ASSUME NEW c \in kids, Cardinality({b \in kids : b <= c}) = k PROVE c = v + two[k - 1]
    <3>1. PICK a \in Nat : c = v + two[a] /\ a < kn
      BY <1>3
    <3>2. k = a + 1
      BY <1>5, <2>3, <3>1
    <3> QED
      BY <3>1, <3>2
  <2> QED
    BY <2>2, <2>3
<1>7. tree_next(r) = [k \in 1 .. Cardinality(kids) |-> rank(Kid(k))]
  BY DEF tree_next, kids, v
<1> HIDE DEF Kid
<1>8. tree_next(r) = [k \in 1 .. kn |-> rank(v + two[k - 1])]
  BY <1>4, <1>6, <1>7
<1> QED
  BY <1>8 DEF kn, v

-----------------------------------------------------------------------------
(* The subtrees.                                                           *)

\* How far the subtrees of the first k children of v reach, v itself counted,
\* and how many processes are in the subtree of v.
Off(v, k) == IF two[k] <= size - v THEN two[k] ELSE size - v
Width(v)  == Off(v, NKids(v))

\* The subtree of v ends where its lowest bit or the communicator does.
LEMMA WidthIs ==
  ASSUME InTree, NEW v \in Rank
  PROVE  /\ Width(v) \in Nat /\ 1 <= Width(v) /\ Width(v) <= size - v
         /\ v = 0 => Width(v) = size
         /\ v # 0 => Width(v) = Off(v, LowBit(v))
<1> DEFINE b == NKids(v)
           a == LowBit(v)
<1>1. size \in Nat /\ v \in Nat /\ v < size
  BY DEF InTree, Rank
<1>2. b \in Nat /\ ~Turn(v, b) /\ \A k \in Nat : k < b => Turn(v, k)
  BY NKidsIs
<1>3. two[b] \in Nat /\ two[b] >= 1
  BY <1>2, TwoIsPositive
<1>4. Width(v) = Off(v, b)
  BY DEF Width
<1>5. v # 0 => a \in Nat /\ two[a] \in Nat
  BY <1>1, LowBitIs, LowFits
<1> HIDE DEF b
<1>6. Width(v) \in Nat /\ 1 <= Width(v) /\ Width(v) <= size - v
  BY <1>1, <1>3, <1>4 DEF Off
<1>7. ASSUME v = 0 PROVE Width(v) = size
  BY <1>1, <1>2, <1>3, <1>4, <1>7 DEF Off, Turn
<1>8. ASSUME v # 0 PROVE Width(v) = Off(v, a)
  <2>1. b <= a
    <3>1. CASE a < b
      BY <1>2, <1>5, <1>8, <3>1 DEF Turn
    <3> QED
      BY <1>2, <1>5, <1>8, <3>1
  <2>2. CASE b = a
    BY <1>4, <2>2
  <2>3. CASE b < a
    <3>1. v + two[b] >= size
      BY <1>1, <1>2, <1>3, <2>3 DEF Turn
    <3>2. two[b] <= two[a]
      BY <1>2, <1>5, <1>8, <2>3, TwoRises
    <3> HIDE DEF a
    <3> QED
      BY <1>1, <1>3, <1>4, <1>5, <1>8, <3>1, <3>2 DEF Off
  <2> QED
    BY <1>2, <1>5, <1>8, <2>1, <2>2, <2>3
<1> QED
  BY <1>6, <1>7, <1>8

LEMMA LeastOfTwo ==
  ASSUME NEW a \in Int, NEW b \in Int
  PROVE  Min({a, b}) = IF a <= b THEN a ELSE b
<1>1. CASE a <= b
  <2>1. a \in {a, b} /\ \A c \in {a, b} : a <= c
    BY <1>1
  <2>2. Min({a, b}) = a
    BY <2>1, LeastOf
  <2> QED
    BY <1>1, <2>2
<1>2. CASE ~(a <= b)
  <2>1. b \in {a, b} /\ \A c \in {a, b} : b <= c
    BY <1>2
  <2>2. Min({a, b}) = b
    BY <2>1, LeastOf
  <2> QED
    BY <1>2, <2>2
<1> QED
  BY <1>1, <1>2

\* A multiple of a higher power is one of a lower power, an even number of times.
LEMMA LowAbove ==
  ASSUME NEW v \in Nat, NEW a, Low(v, a), NEW k \in Nat, k < a
  PROVE  \E d \in Nat : v = two[k] * (2 * d)
<1>1. PICK q \in Nat : v = two[a] * (2 * q + 1)
  BY DEF Low
<1>2. PICK c \in Nat : two[a] = two[k] * (2 * c)
  BY LowFits, TwoSplits
<1> DEFINE p == two[k]
           o == 2 * q + 1
           d == c * o
<1>3. p \in Nat /\ o \in Nat
  BY TwoIsPositive
<1>4. v = (p * (2 * c)) * o
  BY <1>1, <1>2
<1> HIDE DEF p, o
<1>5. (p * (2 * c)) * o = p * (2 * (c * o)) /\ c * o \in Nat
  BY <1>3
<1> QED
  BY <1>4, <1>5 DEF p

\* A child, and what is below it.
LEMMA KidIs ==
  ASSUME InTree, NEW v \in Rank, NEW k \in Nat, k < NKids(v)
  PROVE  /\ v + two[k] \in Rank /\ v + two[k] # 0 /\ LowBit(v + two[k]) = k
         /\ Off(v, k) = two[k] /\ two[k] \in Nat /\ two[k] >= 1
         /\ Off(v, k + 1) = two[k] + Width(v + two[k])
         /\ Width(v + two[k]) = Min({two[k], size - (v + two[k])})
<1> DEFINE p == two[k]
           w == v + p
<1>1. size \in Nat /\ v \in Nat /\ v < size /\ p \in Nat /\ p >= 1
  BY TwoIsPositive DEF InTree, Rank
<1>2. (v = 0 \/ k < LowBit(v)) /\ w < size
  BY NKidsIs DEF Turn
<1>3. w \in Rank /\ w # 0 /\ w \in Nat
  BY <1>1, <1>2 DEF Rank
<1>4. Low(w, k)
  <2>1. \E d \in Nat : v = p * (2 * d)
    <3>1. CASE v = 0
      <4>1. v = p * (2 * 0)
        BY <1>1, <3>1
      <4> QED
        BY <4>1
    <3>2. CASE v # 0
      BY <1>1, <1>2, <3>2, LowBitIs, LowAbove
    <3> QED
      BY <3>1, <3>2
  <2>2. PICK d \in Nat : v = p * (2 * d)
    BY <2>1
  <2>3. w = p * (2 * d + 1)
    <3> HIDE DEF p
    <3> QED
      BY <1>1, <2>2
  <2> QED
    BY <2>3 DEF Low
<1>5. LowBit(w) = k
  BY <1>3, <1>4, LowBitIs
<1>6. two[k + 1] = 2 * p
  BY TwoIs
<1>7. Width(w) = IF p <= size - w THEN p ELSE size - w
  BY <1>3, <1>5, WidthIs DEF Off
<1>8. Off(v, k) = p
  BY <1>1, <1>2 DEF Off
<1>9. Off(v, k + 1) = p + Width(w)
  <2>1. Off(v, k + 1) = IF 2 * p <= size - v THEN 2 * p ELSE size - v
    BY <1>6 DEF Off
  <2> DEFINE y == Width(w)
  <2>2. y = IF p <= size - w THEN p ELSE size - w
    BY <1>7
  <2> HIDE DEF p, y
  <2> QED
    BY <1>1, <1>3, <2>1, <2>2 DEF y
<1>10. Width(w) = Min({p, size - w})
  <2>1. p \in Int /\ size - w \in Int
    BY <1>1, <1>3
  <2> HIDE DEF p, w
  <2> QED
    BY <1>7, <2>1, LeastOfTwo
<1> QED
  BY <1>1, <1>3, <1>5, <1>8, <1>9, <1>10

\* A process whose vrank is odd is a leaf.
LEMMA OddIsLeaf ==
  ASSUME InTree, NEW v \in Rank, v % 2 = 1
  PROVE  v # 0 /\ NKids(v) = 0 /\ Width(v) = 1
<1>1. size \in Nat /\ v \in Nat /\ v < size /\ v # 0
  BY DEF InTree, Rank
<1>2. Low(v, 0)
  <2>1. v = 2 * (v \div 2) + 1 /\ v \div 2 \in Nat
    BY <1>1
  <2>2. v = two[0] * (2 * (v \div 2) + 1)
    BY <2>1, TwoIs
  <2> QED
    BY <2>1, <2>2 DEF Low
<1>3. LowBit(v) = 0
  BY <1>1, <1>2, LowBitIs
<1>4. ~Turn(v, 0)
  BY <1>1, <1>3 DEF Turn
<1>5. NKids(v) = 0
  BY <1>4, NKidsIs
<1>6. Width(v) = 1
  BY <1>1, <1>5, TwoIs DEF Width, Off
<1> QED
  BY <1>1, <1>5, <1>6

\* The parent.
LEMMA PrevOf ==
  ASSUME InTree, NEW r \in Rank, r # root
  PROVE  LET v == vrank(r)
             p == v - two[LowBit(v)]
         IN  /\ tree_prev(r) = rank(p) /\ p \in Rank /\ p < v /\ v # 0
             /\ tree_prev(r) \in Rank /\ vrank(tree_prev(r)) = p
             /\ Count(tree_prev(r), r) = Width(v)
<1> DEFINE v == vrank(r)
           a == LowBit(v)
           p == v - two[a]
<1>1. v \in Rank /\ v # 0 /\ size \in Nat \ {0}
  BY RanksTurn DEF InTree
<1>2. Low(v, a) /\ v \in 1 .. (size - 1) /\ v \in Nat
  BY <1>1, LowBitIs DEF Rank
<1>3. a \in Nat /\ two[a] \in Nat /\ 1 <= two[a] /\ two[a] <= v
  BY <1>2, LowFits
<1>4. p \in Rank /\ p < v
  BY <1>1, <1>2, <1>3 DEF Rank
<1>5. remote(v, Min(UpMasks(v))) = p
  BY <1>1, <1>2, PrevIs
<1>6. tree_prev(r) = rank(p)
  BY <1>5 DEF tree_prev
<1>7. tree_prev(r) \in Rank /\ vrank(tree_prev(r)) = p
  BY <1>4, <1>6, RanksTurn
<1>8. Count(tree_prev(r), r) = Width(v)
  <2>1. Count(tree_prev(r), r) = Min({v - p, size - v})
    BY <1>7 DEF Count
  <2>2. v - p = two[a] /\ two[a] \in Int /\ size - v \in Int
    BY <1>1, <1>2, <1>3
  <2>3. Count(tree_prev(r), r) = Off(v, a)
    <3> HIDE DEF v, a, p
    <3> QED
      BY <2>1, <2>2, LeastOfTwo DEF Off
  <2> QED
    BY <1>1, <2>3, WidthIs
<1> QED
  BY <1>1, <1>4, <1>6, <1>7, <1>8

\* Multiples compare as their factors.
LEMMA MultiplesCompare ==
  ASSUME NEW p \in Nat, p >= 1, NEW a \in Int, NEW b \in Int
  PROVE  p * a \in Int /\ p * b \in Int /\ (p * a <= p * b <=> a <= b)
<1>1. CASE a <= b
  BY <1>1, ProductsGrow
<1>2. CASE b < a
  <2>1. p * (b + 1) <= p * a /\ p * (b + 1) = p * b + p /\ p * b \in Int /\ p * a \in Int
    BY <1>2, ProductsGrow
  <2> QED
    BY <1>2, <2>1
<1> QED
  BY <1>1, <1>2

\* A number w behind v is among the A numbers from v on, A the lowest bit of v, if
\* and only if w without its lowest bit is.
LEMMA BelowIsBelow ==
  ASSUME NEW v \in Nat, NEW w \in Nat, v < w, NEW a, NEW b, Low(v, a), Low(w, b)
  PROVE  w < v + two[a] <=> (v <= w - two[b] /\ w - two[b] < v + two[a])
<1> DEFINE A == two[a]
           B == two[b]
           p == w - B
<1>1. a \in Nat /\ b \in Nat /\ A \in Nat /\ A >= 1 /\ B \in Nat /\ B >= 1 /\ B <= w
  BY LowFits
<1>2. PICK q \in Nat : v = A * (2 * q + 1)
  BY DEF Low
<1>3. PICK s \in Nat : w = B * (2 * s + 1)
  BY DEF Low
<1>4. CASE b < a
  <2>1. PICK c \in Nat : c >= 1 /\ A = B * (2 * c)
    BY <1>1, <1>4, TwoSplits
  <2> DEFINE Z == 2 * B
             o == 2 * q + 1
             y == c * o
             x == y + c
  <2> HIDE DEF A, B
  <2>2. o \in Nat /\ Z \in Nat /\ Z >= 1 /\ y \in Nat /\ x \in Nat
    BY <1>1, <2>1
  <2>3. v = Z * y
    <3>1. v = (B * (2 * c)) * o
      BY <1>2, <2>1
    <3> HIDE DEF o
    <3>2. (B * (2 * c)) * o = (2 * B) * (c * o)
      BY <1>1, <2>1, <2>2
    <3> QED
      BY <3>1, <3>2
  <2>4. v + A = Z * x
    <3> HIDE DEF o, y
    <3>1. A = Z * c
      BY <1>1, <2>1
    <3>2. Z * (y + c) = Z * y + Z * c
      BY <1>1, <2>1, <2>2
    <3> QED
      BY <2>3, <3>1, <3>2
  <2>5. p = Z * s /\ w = Z * s + B
    <3>1. B * (2 * s + 1) = (2 * B) * s + B /\ (2 * B) * s \in Int
      BY <1>1, <1>3
    <3> QED
      BY <1>1, <1>3, <3>1
  <2>6. Z = B + B /\ Z * s \in Int /\ Z * (s + 1) = Z * s + Z
    BY <1>1
  <2> HIDE DEF Z, x, y, p
  <2>7. /\ Z * y \in Int /\ Z * s \in Int /\ Z * x \in Int /\ Z * (s + 1) \in Int
        /\ Z * y <= Z * s <=> y <= s
        /\ Z * x <= Z * s <=> x <= s
        /\ Z * y <= Z * (s + 1) <=> y <= s + 1
        /\ Z * (s + 1) <= Z * y <=> s + 1 <= y
        /\ Z * (s + 1) <= Z * x <=> s + 1 <= x
    BY <2>2, MultiplesCompare
  <2>8. v <= p
    BY <1>1, <2>2, <2>3, <2>5, <2>6, <2>7
  <2>9. w < v + A <=> p < v + A
    BY <1>1, <2>2, <2>4, <2>5, <2>6, <2>7
  <2> QED
    BY <2>8, <2>9 DEF p, A, B
<1>5. CASE ~(b < a)
  <2>1. \E D \in Nat : B = A * D
    <3>1. CASE a = b
      BY <1>1, <3>1
    <3>2. CASE a < b
      <4>1. PICK c \in Nat : B = A * (2 * c)
        BY <1>1, <3>2, TwoSplits
      <4> QED
        BY <4>1
    <3> QED
      BY <1>1, <1>5, <3>1, <3>2
  <2>2. PICK D \in Nat : B = A * D
    BY <2>1
  <2> DEFINE e == D * (2 * s + 1)
             f == 2 * (D * s)
             o == 2 * q + 1
  <2> HIDE DEF A, B
  <2>3. w = A * e /\ e \in Int
    <3>1. (A * D) * (2 * s + 1) = A * (D * (2 * s + 1)) /\ D * (2 * s + 1) \in Int
      BY <1>1, <2>2
    <3> QED
      BY <1>3, <2>2, <3>1
  <2>4. p = A * f /\ f \in Int
    <3>1. (A * D) * (2 * s + 1) = A * (2 * (D * s)) + A * D /\ A * (2 * (D * s)) \in Int /\ D * s \in Int /\ A * D \in Int
      BY <1>1, <2>2
    <3> QED
      BY <1>3, <2>2, <3>1
  <2>5. v = A * o /\ v + A = A * (o + 1) /\ o \in Int
    BY <1>1, <1>2
  <2>6. o # f
    <3>1. D * s \in Int
      OBVIOUS
    <3> DEFINE y == D * s
    <3> HIDE DEF y
    <3>2. 2 * q + 1 # 2 * y
      BY <3>1 DEF y
    <3> QED
      BY <3>2 DEF y
  <2> HIDE DEF e, f, o, p
  <2>7. /\ A * e \in Int /\ A * f \in Int /\ A * o \in Int /\ A * (o + 1) \in Int
        /\ A * e <= A * o <=> e <= o
        /\ A * (o + 1) <= A * e <=> o + 1 <= e
        /\ A * o <= A * f <=> o <= f
        /\ A * (o + 1) <= A * f <=> o + 1 <= f
    BY <1>1, <2>3, <2>4, <2>5, MultiplesCompare
  <2>8. ~(w < v + A)
    BY <2>3, <2>5, <2>7
  <2>9. ~(v <= p /\ p < v + A)
    BY <2>4, <2>5, <2>6, <2>7
  <2> QED
    BY <2>8, <2>9 DEF p, A, B
<1> QED
  BY <1>4, <1>5

\* The vranks of the subtree of v.
InSub(v, w) == v <= w /\ w < v + Width(v)

\* A process behind v is in the subtree of v if and only if its parent is.
LEMMA InSubIs ==
  ASSUME InTree, NEW v \in Rank, NEW w \in Rank, v < w
  PROVE  InSub(v, w) <=> InSub(v, w - two[LowBit(w)])
<1> DEFINE b == LowBit(w)
           p == w - two[b]
<1>1. size \in Nat /\ v \in Nat /\ w \in Nat /\ v < size /\ w < size /\ w # 0
  BY DEF InTree, Rank
<1>2. Low(w, b)
  BY <1>1, LowBitIs
<1>3. two[b] \in Nat /\ 1 <= two[b] /\ two[b] <= w
  BY <1>1, <1>2, LowFits
<1>4. p \in Nat /\ p < size /\ p < w
  BY <1>1, <1>3
<1> HIDE DEF b
<1>5. CASE v = 0
  <2>1. Width(v) = size
    BY <1>5, WidthIs
  <2>2. InSub(v, w) <=> 0 <= w /\ w < size
    BY <1>1, <1>5, <2>1 DEF InSub
  <2> HIDE DEF p
  <2>3. InSub(v, p) <=> 0 <= p /\ p < size
    BY <1>1, <1>4, <1>5, <2>1 DEF InSub
  <2> QED
    BY <1>1, <1>4, <2>2, <2>3 DEF p, b
<1>6. CASE v # 0
  <2> DEFINE a == LowBit(v)
             A == two[a]
  <2>1. Low(v, a)
    BY <1>6, LowBitIs
  <2>2. A \in Nat
    BY <1>1, <2>1, LowFits
  <2>3. Width(v) = IF A <= size - v THEN A ELSE size - v
    BY <1>6, WidthIs DEF Off
  <2>4. w < v + A <=> (v <= p /\ p < v + A)
    BY <1>1, <1>2, <2>1, BelowIsBelow
  <2> HIDE DEF a, A, p
  <2>5. (w < v + Width(v) <=> w < v + A) /\ (p < v + Width(v) <=> p < v + A)
    BY <1>1, <1>4, <2>2, <2>3
  <2> QED
    BY <1>1, <2>4, <2>5 DEF InSub, p, b
<1> QED
  BY <1>5, <1>6

\* The subtree of r is an interval of vranks.
LEMMA SubtreeIs ==
  ASSUME InTree, NEW r \in Rank
  PROVE  Subtree(r) = {q \in Rank : InSub(vrank(r), vrank(q))}
<1> DEFINE v == vrank(r)
           up(w) == vrank(tree_prev(rank(w)))
           F(h) == [w \in Rank |-> w = v \/ (w > v /\ h[up(w)])]
           g == [w \in Rank |-> InSub(v, w)]
           leads == CHOOSE h : h = F(h)
<1>1. size \in Nat /\ Rank = 0 .. (size - 1) /\ v \in Rank /\ v \in Nat
  BY RanksTurn DEF InTree, Rank
<1>2. ASSUME NEW w \in Rank, w > v PROVE up(w) = w - two[LowBit(w)] /\ up(w) \in Rank /\ up(w) < w
  <2>1. rank(w) \in Rank /\ vrank(rank(w)) = w /\ w # 0
    BY <1>1, <1>2, RanksTurn
  <2>2. rank(w) # root
    BY <2>1, RanksTurn
  <2> QED
    BY <2>1, <2>2, PrevOf
<1> HIDE DEF up
<1>3. ASSUME NEW w \in Rank PROVE InSub(v, w) <=> (w = v \/ (w > v /\ InSub(v, up(w))))
  <2>1. w \in Int
    BY <1>1
  <2>2. CASE w = v
    BY <1>1, <2>2, WidthIs DEF InSub
  <2>3. CASE w < v
    BY <1>1, <2>1, <2>3 DEF InSub
  <2>4. CASE w > v
    BY <1>1, <1>2, <2>1, <2>4, InSubIs
  <2> HIDE DEF v
  <2> QED
    BY <1>1, <2>1, <2>2, <2>3, <2>4
<1>4. g = F(g)
  <2>1. \A w \in Rank : w > v => g[up(w)] = InSub(v, up(w))
    BY <1>2
  <2>2. ASSUME NEW w \in Rank PROVE InSub(v, w) = (w = v \/ (w > v /\ g[up(w)]))
    <3>1. w > v => g[up(w)] = InSub(v, up(w))
      BY <2>1
    <3> HIDE DEF g
    <3>2. InSub(v, w) <=> (w = v \/ (w > v /\ g[up(w)]))
      BY <1>3, <3>1
    <3>3. InSub(v, w) \in BOOLEAN
      BY DEF InSub
    <3> QED
      BY <3>2, <3>3, Zenon
  <2> QED
    BY <2>2, Zenon
<1>5. leads = F(leads)
  BY <1>4
<1>6. ASSUME NEW w \in Rank PROVE leads[w] <=> InSub(v, w)
  <2> DEFINE X == {b \in Rank : ~(leads[b] <=> InSub(v, b))}
  <2>1. SUFFICES ASSUME X # {} PROVE FALSE
    OBVIOUS
  <2>2. X \in SUBSET Nat
    BY <1>1
  <2>3. PICK b \in X : \A c \in X : b <= c
    BY <2>1, <2>2, LeastElement
  <2>4. b \in Rank /\ b \in Nat /\ ~(leads[b] <=> InSub(v, b))
    BY <2>2, <2>3
  <2>5. leads[b] = (b = v \/ (b > v /\ leads[up(b)]))
    <3> HIDE DEF leads
    <3> QED
      BY <1>5, <2>4
  <2> HIDE DEF leads
  <2>6. b > v => (leads[up(b)] <=> InSub(v, up(b)))
    <3>1. SUFFICES ASSUME b > v PROVE leads[up(b)] <=> InSub(v, up(b))
      OBVIOUS
    <3>2. up(b) \in Rank /\ up(b) < b /\ up(b) \in Nat
      BY <1>1, <1>2, <2>4, <3>1
    <3>3. up(b) \notin X
      BY <2>3, <2>4, <3>2
    <3> QED
      BY <3>2, <3>3
  <2> QED
    BY <1>3, <2>4, <2>5, <2>6
<1>7. Subtree(r) = {q \in Rank : leads[vrank(q)]}
  BY DEF Subtree, up
<1> HIDE DEF leads
<1>8. \A q \in Rank : vrank(q) \in Rank
  BY RanksTurn
<1> QED
  BY <1>6, <1>7, <1>8

-----------------------------------------------------------------------------
(* The messages.                                                           *)

\* The ranks of the subtree of r in the order of their vranks.
Piece(r) == [k \in 1 .. Width(vrank(r)) |-> rank(vrank(r) + k - 1)]

\* The piece of r names each process of its subtree once, r first.
LEMMA PieceIs ==
  ASSUME InTree, NEW r \in Rank
  PROVE  /\ Len(Piece(r)) = Width(vrank(r)) /\ Width(vrank(r)) \in Nat /\ Width(vrank(r)) >= 1
         /\ Piece(r)[1] = r
         /\ ToSet(Piece(r)) = Subtree(r)
         /\ Cardinality(Subtree(r)) = Width(vrank(r))
<1> DEFINE v == vrank(r)
           n == Width(v)
           f == Piece(r)
           X == Subtree(r)
<1>1. v \in Rank /\ v \in Nat /\ size \in Nat
  BY RanksTurn DEF InTree, Rank
<1>2. n \in Nat /\ n >= 1 /\ n <= size - v
  BY <1>1, WidthIs
<1>3. f = [k \in 1 .. n |-> rank(v + k - 1)]
  BY DEF Piece
<1>4. X = {q \in Rank : v <= vrank(q) /\ vrank(q) < v + n}
  BY SubtreeIs DEF InSub
<1>5. rank(v) = r
  BY RanksTurn
<1> HIDE DEF v, n, f, X
<1>6. ASSUME NEW k \in 1 .. n PROVE v + k - 1 \in Rank /\ f[k] = rank(v + k - 1)
  BY <1>1, <1>2, <1>3 DEF Rank
<1>7. ASSUME NEW k \in 1 .. n PROVE f[k] \in Rank /\ vrank(f[k]) = v + k - 1
  BY <1>6, RanksTurn
<1>8. ASSUME NEW k \in 1 .. n PROVE f[k] \in X
  BY <1>1, <1>2, <1>4, <1>7
<1>9. ASSUME NEW q \in X PROVE \E k \in 1 .. n : f[k] = q
  <2>1. q \in Rank /\ vrank(q) \in Rank /\ v <= vrank(q) /\ vrank(q) < v + n /\ rank(vrank(q)) = q
    BY <1>4, RanksTurn
  <2> DEFINE k == vrank(q) - v + 1
  <2>2. k \in 1 .. n /\ v + k - 1 = vrank(q)
    BY <1>1, <1>2, <2>1 DEF Rank
  <2>3. f[k] = q
    BY <1>6, <2>1, <2>2
  <2> QED
    BY <2>2, <2>3
<1>10. Cardinality(X) = n
  <2>1. f \in [1 .. n -> X]
    BY <1>3, <1>8
  <2>2. ASSUME NEW a \in 1 .. n, NEW b \in 1 .. n, f[a] = f[b] PROVE a = b
    <3>1. v + a - 1 = v + b - 1
      BY <1>7, <2>2
    <3> QED
      BY <1>1, <1>2, <3>1
  <2> QED
    BY <1>2, <1>9, <2>1, <2>2, CountOneByOne
<1>11. ToSet(f) = X
  <2>1. DOMAIN f = 1 .. n
    BY <1>3
  <2> QED
    BY <1>8, <1>9, <2>1 DEF ToSet
<1>12. Len(f) = n
  BY <1>2, <1>3
<1>13. f[1] = r
  <2>1. 1 \in 1 .. n /\ v + 1 - 1 = v
    BY <1>1, <1>2
  <2> QED
    BY <1>5, <1>6, <2>1
<1> QED
  BY <1>2, <1>10, <1>11, <1>12, <1>13 DEF f, n, v, X

\* The k-th child of r, its vrank, and where its part of the message of r lies.
LEMMA ChildIs ==
  ASSUME InTree, NEW r \in Rank
  PROVE  /\ Len(tree_next(r)) = NKids(vrank(r)) /\ NKids(vrank(r)) \in Nat
         /\ Off(vrank(r), 0) = 1
         /\ \A k \in 1 .. NKids(vrank(r)) :
              LET kid == tree_next(r)[k]
              IN  /\ kid \in Rank /\ kid # root /\ tree_prev(kid) = r
                  /\ vrank(kid) = vrank(r) + Off(vrank(r), k - 1)
                  /\ Count(r, kid) = Width(vrank(kid))
                  /\ Off(vrank(r), k) = Off(vrank(r), k - 1) + Width(vrank(kid))
                  /\ Off(vrank(r), k - 1) \in Nat /\ Off(vrank(r), k - 1) >= 1
<1> DEFINE v == vrank(r)
           n == NKids(v)
<1>1. v \in Rank /\ v \in Nat /\ size \in Nat /\ v < size /\ rank(v) = r
  BY RanksTurn DEF InTree, Rank
<1>2. n \in Nat
  BY <1>1, NKidsIs
<1>3. tree_next(r) = [k \in 1 .. n |-> rank(v + two[k - 1])]
  BY NextIs
<1>4. Off(v, 0) = 1
  BY <1>1, TwoIs DEF Off
<1> HIDE DEF n
<1>5. Len(tree_next(r)) = n
  BY <1>2, <1>3
<1>6. ASSUME NEW k \in 1 .. n
      PROVE  LET kid == tree_next(r)[k]
             IN  /\ kid \in Rank /\ kid # root /\ tree_prev(kid) = r
                 /\ vrank(kid) = v + Off(v, k - 1)
                 /\ Count(r, kid) = Width(vrank(kid))
                 /\ Off(v, k) = Off(v, k - 1) + Width(vrank(kid))
                 /\ Off(v, k - 1) \in Nat /\ Off(v, k - 1) >= 1
  <2> DEFINE kid == tree_next(r)[k]
             j == k - 1
             w == v + two[j]
  <2>1. j \in Nat /\ j < n /\ j + 1 = k
    BY <1>2
  <2>2. /\ w \in Rank /\ w # 0 /\ LowBit(w) = j
        /\ Off(v, j) = two[j] /\ two[j] \in Nat /\ two[j] >= 1
        /\ Off(v, j + 1) = two[j] + Width(w)
        /\ Width(w) = Min({two[j], size - w})
    BY <1>1, <2>1, KidIs DEF n
  <2>3. kid = rank(w)
    BY <1>3
  <2>4. kid \in Rank /\ vrank(kid) = w /\ kid # root
    BY <2>2, <2>3, RanksTurn
  <2>5. tree_prev(kid) = rank(w - two[j])
    BY <2>2, <2>4, PrevOf
  <2>6. w - two[j] = v
    BY <1>1, <2>2
  <2>7. Count(r, kid) = Width(w)
    <3>1. Count(r, kid) = Min({w - v, size - w})
      BY <2>4 DEF Count
    <3>2. w - v = two[j]
      BY <1>1, <2>2
    <3> QED
      BY <2>2, <3>1, <3>2
  <2> HIDE DEF kid, w
  <2> QED
    BY <1>1, <2>1, <2>2, <2>4, <2>5, <2>6, <2>7 DEF kid, w
<1> QED
  BY <1>2, <1>4, <1>5, <1>6 DEF n

-----------------------------------------------------------------------------
(* Both modules of the composition have the tree under names of their own. *)

LEMMA ScatterNames ==
  /\ S!Rank = Rank
  /\ \A r : S!vrank(r) = vrank(r) /\ S!tree_next(r) = tree_next(r) /\ S!tree_prev(r) = tree_prev(r)
  /\ \A r, kid : S!Count(r, kid) = Count(r, kid)
  /\ \A r : S!Subtree(r) = Subtree(r)
  /\ \A s : S!ToSet(s) = ToSet(s)
  /\ \A X : S!Cardinality(X) = Cardinality(X)
<1>1. S!Rank = Rank
  BY DEF S!Rank, Rank
<1>2. ASSUME NEW r PROVE S!vrank(r) = vrank(r)
  BY DEF S!vrank, vrank
<1>3. ASSUME NEW r PROVE S!tree_next(r) = tree_next(r)
  BY DEF S!tree_next, tree_next, S!Kids, Kids, S!Reached, Reached, S!UpMasks, UpMasks, S!Masks, Masks,
         S!remote, remote, S!two, two, S!vrank, vrank, S!rank, rank, S!Rank, Rank, S!Cardinality, Cardinality
<1>4. ASSUME NEW r PROVE S!tree_prev(r) = tree_prev(r)
  BY DEF S!tree_prev, tree_prev, S!UpMasks, UpMasks, S!Masks, Masks, S!remote, remote, S!two, two,
         S!vrank, vrank, S!rank, rank, S!Rank, Rank, S!Min, Min
<1>5. ASSUME NEW r, NEW kid PROVE S!Count(r, kid) = Count(r, kid)
  BY DEF S!Count, Count, S!vrank, vrank, S!Min, Min
<1>6. ASSUME NEW r PROVE S!Subtree(r) = Subtree(r)
  BY DEF S!Subtree, Subtree, S!tree_prev, tree_prev, S!UpMasks, UpMasks, S!Masks, Masks, S!remote, remote,
         S!two, two, S!vrank, vrank, S!rank, rank, S!Rank, Rank, S!Min, Min
<1>7. ASSUME NEW s PROVE S!ToSet(s) = ToSet(s)
  BY DEF S!ToSet, ToSet
<1>8. ASSUME NEW X PROVE S!Cardinality(X) = Cardinality(X)
  BY DEF S!Cardinality, Cardinality
<1> QED
  BY <1>1, <1>2, <1>3, <1>4, <1>5, <1>6, <1>7, <1>8

LEMMA GatherNames ==
  /\ G!Rank = Rank
  /\ \A r : G!vrank(r) = vrank(r) /\ G!tree_next(r) = tree_next(r) /\ G!tree_prev(r) = tree_prev(r)
  /\ \A r, kid : G!Count(r, kid) = Count(r, kid)
  /\ \A r : G!Subtree(r) = Subtree(r)
  /\ \A s : G!ToSet(s) = ToSet(s)
<1>1. G!Rank = Rank
  BY DEF G!Rank, Rank
<1>2. ASSUME NEW r PROVE G!vrank(r) = vrank(r)
  BY DEF G!vrank, vrank
<1>3. ASSUME NEW r PROVE G!tree_next(r) = tree_next(r)
  BY DEF G!tree_next, tree_next, G!Kids, Kids, G!Reached, Reached, G!UpMasks, UpMasks, G!Masks, Masks,
         G!remote, remote, G!two, two, G!vrank, vrank, G!rank, rank, G!Rank, Rank, G!Cardinality, Cardinality
<1>4. ASSUME NEW r PROVE G!tree_prev(r) = tree_prev(r)
  BY DEF G!tree_prev, tree_prev, G!UpMasks, UpMasks, G!Masks, Masks, G!remote, remote, G!two, two,
         G!vrank, vrank, G!rank, rank, G!Rank, Rank, G!Min, Min
<1>5. ASSUME NEW r, NEW kid PROVE G!Count(r, kid) = Count(r, kid)
  BY DEF G!Count, Count, G!vrank, vrank, G!Min, Min
<1>6. ASSUME NEW r PROVE G!Subtree(r) = Subtree(r)
  BY DEF G!Subtree, Subtree, G!tree_prev, tree_prev, G!UpMasks, UpMasks, G!Masks, Masks, G!remote, remote,
         G!two, two, G!vrank, vrank, G!rank, rank, G!Rank, Rank, G!Min, Min
<1>7. ASSUME NEW s PROVE G!ToSet(s) = ToSet(s)
  BY DEF G!ToSet, ToSet
<1> QED
  BY <1>1, <1>2, <1>3, <1>4, <1>5, <1>6, <1>7

\* The root starts with its own piece, which is everything.
LEMMA RotatedIs ==
  ASSUME InTree
  PROVE  S!Rotated = Piece(root) /\ S!Rotated[1] = root
<1>1. size \in Nat /\ size >= 1 /\ root \in 0 .. (size - 1) /\ root \in Rank
  BY DEF InTree, Rank
<1>2. Piece(root) = [k \in 1 .. size |-> rank(k - 1)]
  <2>1. vrank(root) = 0 /\ 0 \in Rank
    BY RanksTurn
  <2>2. Width(0) = size
    BY <2>1, WidthIs
  <2>3. Piece(root) = [k \in 1 .. size |-> rank(0 + k - 1)]
    BY <2>1, <2>2 DEF Piece
  <2> QED
    BY <2>3
<1> DEFINE s == [k \in 1 .. size |-> k - 1]
           a == SubSeq(s, root + 1, size)
           b == SubSeq(s, 1, root)
<1>3. S!Rotated = a \o b
  BY DEF S!Rotated, S!sbuf
<1>4. s \in Seq(Int) /\ Len(s) = size /\ \A k \in 1 .. size : s[k] = k - 1
  BY <1>1
<1> HIDE DEF s
<1>5. a \in Seq(Int) /\ Len(a) = size - root /\ \A k \in 1 .. (size - root) : a[k] = s[root + k]
  BY <1>1, <1>4
<1>6. b \in Seq(Int) /\ Len(b) = root /\ \A k \in 1 .. root : b[k] = s[k]
  BY <1>1, <1>4
<1> HIDE DEF a, b
<1> DEFINE c == a \o b
<1>7. /\ c \in Seq(Int) /\ Len(c) = size
      /\ \A k \in 1 .. size : c[k] = IF k <= size - root THEN a[k] ELSE b[k - (size - root)]
  <2>1. (size - root) + root = size
    BY <1>1
  <2>2. /\ c \in Seq(Int) /\ Len(c) = Len(a) + Len(b)
        /\ \A k \in 1 .. Len(a) + Len(b) : c[k] = IF k <= Len(a) THEN a[k] ELSE b[k - Len(a)]
    BY <1>5, <1>6, ConcatProperties
  <2>3. Len(a) + Len(b) = size
    BY <1>5, <1>6, <2>1
  <2> HIDE DEF c
  <2>4. Len(c) = size
    BY <2>2, <2>3
  <2>5. \A k \in 1 .. size : c[k] = IF k <= size - root THEN a[k] ELSE b[k - (size - root)]
    BY <1>5, <2>2, <2>3
  <2> QED
    BY <2>2, <2>4, <2>5
<1>8. c \in [1 .. size -> Int]
  BY <1>7, LenProperties
<1> HIDE DEF c
<1>9. ASSUME NEW k \in 1 .. size PROVE c[k] = rank(k - 1)
  <2>1. k - 1 \in Rank /\ k - 1 \in Nat /\ k \in Nat
    BY <1>1 DEF Rank
  <2>2. rank(k - 1) = IF (k - 1) + root < size THEN (k - 1) + root ELSE (k - 1) + root - size
    BY <1>1, <2>1, RankIs DEF InTree
  <2>3. CASE k <= size - root
    <3>1. k \in 1 .. (size - root) /\ root + k \in 1 .. size
      BY <1>1, <2>3
    <3>2. c[k] = a[k]
      BY <1>7, <2>3
    <3>3. a[k] = s[root + k]
      BY <1>5, <3>1
    <3> DEFINE m == root + k
    <3>4. m \in 1 .. size
      BY <3>1
    <3> HIDE DEF m
    <3>5. s[m] = m - 1
      BY <1>4, <3>4
    <3> QED
      BY <1>1, <2>1, <2>2, <2>3, <3>2, <3>3, <3>5 DEF m
  <2>4. CASE ~(k <= size - root)
    <3> DEFINE j == k - (size - root)
    <3>1. j \in 1 .. root /\ j \in 1 .. size
      BY <1>1, <2>4
    <3> HIDE DEF j
    <3>2. c[k] = j - 1
      BY <1>4, <1>6, <1>7, <2>4, <3>1 DEF j
    <3> QED
      BY <1>1, <2>1, <2>2, <2>4, <3>2 DEF j
  <2> QED
    BY <2>3, <2>4
<1> DEFINE d == [k \in 1 .. size |-> rank(k - 1)]
<1>11. c = d
  <2>1. c = [k \in 1 .. size |-> c[k]]
    BY <1>8
  <2>2. \A k \in 1 .. size : c[k] = d[k]
    BY <1>9
  <2>3. d = [k \in 1 .. size |-> d[k]]
    OBVIOUS
  <2> HIDE DEF d
  <2> QED
    BY <2>1, <2>2, <2>3
<1>10. S!Rotated = Piece(root)
  BY <1>2, <1>3, <1>11 DEF c
<1> QED
  BY <1>1, <1>10, PieceIs

\* The piece of a child inside the piece of r.
LEMMA PartIs ==
  ASSUME InTree, NEW r \in Rank, NEW k \in 1 .. NKids(vrank(r))
  PROVE  LET v == vrank(r)
             kid == tree_next(r)[k]
             t == Off(v, k - 1)
         IN  /\ Off(v, k) <= Width(v) /\ Off(v, k) \in Nat
             /\ \A j \in 1 .. Width(vrank(kid)) : /\ t + j \in 1 .. Width(v)
                                                  /\ Piece(r)[t + j] = Piece(kid)[j]
<1> DEFINE v == vrank(r)
           n == NKids(v)
           kid == tree_next(r)[k]
           t == Off(v, k - 1)
           w == Width(vrank(kid))
<1>1. v \in Rank /\ v \in Nat /\ size \in Nat /\ v < size
  BY RanksTurn DEF InTree, Rank
<1>2. n \in Nat /\ k \in Nat /\ k <= n
  BY <1>1, NKidsIs
<1>3. /\ kid \in Rank /\ vrank(kid) = v + t /\ Off(v, k) = t + w /\ t \in Nat /\ t >= 1
  BY <1>2, ChildIs
<1>4. w \in Nat /\ w >= 1
  BY <1>3, PieceIs
<1>5. Off(v, k) <= Width(v)
  <2>1. two[k] \in Nat /\ two[n] \in Nat /\ two[k] <= two[n]
    BY <1>2, TwoRises, TwoIsPositive
  <2> HIDE DEF n
  <2> QED
    BY <1>1, <2>1 DEF Off, Width, n
<1>6. Width(v) \in Nat
  BY <1>1, WidthIs
<1> HIDE DEF v, w, kid, t
<1>7. ASSUME NEW j \in 1 .. w PROVE t + j \in 1 .. Width(v) /\ Piece(r)[t + j] = Piece(kid)[j]
  <2>1. t + j \in 1 .. Width(v)
    BY <1>3, <1>4, <1>5, <1>6
  <2>2. Piece(r)[t + j] = rank(v + (t + j) - 1)
    BY <2>1 DEF Piece, v
  <2>3. Piece(kid)[j] = rank(vrank(kid) + j - 1)
    BY DEF Piece, w
  <2>4. v + (t + j) - 1 = vrank(kid) + j - 1
    BY <1>1, <1>3, <1>4
  <2> QED
    BY <2>1, <2>2, <2>3, <2>4
<1>8. Off(v, k) \in Nat
  BY <1>3, <1>4
<1> QED
  BY <1>5, <1>7, <1>8 DEF v, w, kid, t

\* The tree stays as long as the communicator and the root do.
LEMMA TreeStays ==
  ASSUME size' = size, root' = root
  PROVE  /\ Rank' = Rank /\ InTree' = InTree
         /\ \A r : /\ vrank(r)' = vrank(r) /\ Piece(r)' = Piece(r) /\ tree_prev(r)' = tree_prev(r)
                   /\ NKids(r)' = NKids(r) /\ rank(r)' = rank(r)
         /\ \A r, k : Off(r, k)' = Off(r, k)
<1>1. Rank' = Rank
  BY DEF Rank
<1>2. \A r : vrank(r)' = vrank(r) /\ rank(r)' = rank(r)
  BY DEF vrank, rank
<1>3. \A r, k : Off(r, k)' = Off(r, k)
  BY DEF Off
<1>4. \A r : NKids(r)' = NKids(r)
  BY DEF NKids, Turn, LowBit
<1>5. \A r : Piece(r)' = Piece(r)
  BY DEF Piece, Width, Off, NKids, Turn, LowBit, vrank, rank
<1>6. \A r : tree_prev(r)' = tree_prev(r)
  BY DEF tree_prev, UpMasks, Masks, remote, vrank, rank
<1> QED
  BY <1>1, <1>2, <1>3, <1>4, <1>5, <1>6 DEF InTree

-----------------------------------------------------------------------------
(* The scatter.                                                            *)

Places == {"out", "recv", "send", "wait", "done"}

ScatterTypes == /\ spc \in [Rank -> Places]
                /\ sptmp \in [Rank -> Seq(Rank)]
                /\ total_send \in [Rank -> Nat]
                /\ si \in [Rank -> Nat \ {0}]
                /\ srbuf \in [Rank -> Rank \cup {-1}]
                /\ swire \in [Rank -> {<<>>} \cup (Rank \X Seq(Rank))]

\* The call in a process r, and what is on its way to it: what is left of its
\* own piece, and the whole of it.
ScatterAt(r) ==
  /\ spc[r] \in {"out", "recv"} => si[r] = 1
  /\ spc[r] = "recv" => r # root /\ (vrank(r) % 2 = 1 \/ total_send[r] = 1)
  /\ spc[r] \in {"send", "wait"} => /\ sptmp[r] = Piece(r)
                                    /\ si[r] <= NKids(vrank(r)) + 1
                                    /\ total_send[r] = Off(vrank(r), si[r] - 1)
  /\ spc[r] \in {"send", "wait", "done"} => srbuf[r] = r /\ spc[root] # "out"
  /\ swire[r] # <<>> => /\ r # root /\ spc[root] # "out"
                        /\ swire[r] = <<tree_prev(r), Piece(r)>>

ScatterInv == InTree /\ ScatterTypes /\ \A r \in Rank : ScatterAt(r)

LEMMA PiecesAre ==
  ASSUME InTree, NEW r \in Rank
  PROVE  Piece(r) \in Seq(Rank)
<1> DEFINE v == vrank(r)
           n == Width(v)
<1>1. v \in Rank /\ v \in Nat /\ n \in Nat /\ n <= size - v /\ size \in Nat
  BY RanksTurn, WidthIs DEF InTree, Rank
<1>2. ASSUME NEW k \in 1 .. n PROVE rank(v + k - 1) \in Rank
  <2>1. v + k - 1 \in Rank
    BY <1>1 DEF Rank
  <2> QED
    BY <2>1, RanksTurn
<1> HIDE DEF n, v
<1>3. [k \in 1 .. n |-> rank(v + k - 1)] \in [1 .. n -> Rank]
  BY <1>2
<1>4. Piece(r) \in [1 .. n -> Rank]
  BY <1>3 DEF Piece, n, v
<1> QED
  BY <1>1, <1>4

\* Nobody has called yet.
LEMMA ScatterStarts == Init => ScatterInv
<1> SUFFICES ASSUME Init PROVE ScatterInv
  OBVIOUS
<1> USE DEF S!Nothing, S!NoMessage
<1>1. /\ size \in Sizes /\ root \in Rank /\ spc = [r \in Rank |-> "out"]
      /\ sptmp = [r \in Rank |-> <<>>] /\ total_send = [r \in Rank |-> 0]
      /\ si = [r \in Rank |-> 1] /\ srbuf = [r \in Rank |-> -1] /\ swire = [r \in Rank |-> <<>>]
  BY ScatterNames DEF Init, S!Init
<1>2. InTree
  BY <1>1, SizesAssumption DEF InTree
<1>3. ScatterTypes
  BY <1>1 DEF ScatterTypes, Places
<1>4. \A r \in Rank : ScatterAt(r)
  BY <1>1 DEF ScatterAt
<1> QED
  BY <1>2, <1>3, <1>4 DEF ScatterInv

LEMMA ScatterCallRoot ==
  ASSUME ScatterInv, S!CallRoot
  PROVE  ScatterInv'
<1>1. InTree /\ ScatterTypes /\ (\A r \in Rank : ScatterAt(r)) /\ root \in Rank
  BY DEF ScatterInv, InTree
<1>2. /\ spc[root] = "out" /\ spc' = [spc EXCEPT ![root] = "send"]
      /\ sptmp' = [sptmp EXCEPT ![root] = Piece(root)]
      /\ srbuf' = [srbuf EXCEPT ![root] = root]
      /\ total_send' = [total_send EXCEPT ![root] = 1]
      /\ size' = size /\ root' = root /\ si' = si /\ swire' = swire
  BY <1>1, RotatedIs DEF S!CallRoot, S!Goto
<1>3. /\ Rank' = Rank /\ InTree' = InTree
      /\ \A r : /\ vrank(r)' = vrank(r) /\ Piece(r)' = Piece(r) /\ tree_prev(r)' = tree_prev(r)
                /\ NKids(r)' = NKids(r)
      /\ \A r, k : Off(r, k)' = Off(r, k)
  BY <1>2, TreeStays
<1>4. ScatterTypes'
  BY <1>1, <1>2, <1>3, PiecesAre DEF ScatterTypes, Places
<1>5. ASSUME NEW r \in Rank PROVE ScatterAt(r)'
  <2>1. CASE r = root
    <3>1. si[r] = 1 /\ swire[r] = <<>>
      BY <1>1, <1>2, <2>1 DEF ScatterAt
    <3>2. Off(vrank(r), 0) = 1 /\ NKids(vrank(r)) \in Nat
      BY <1>1, ChildIs
    <3>3. /\ spc'[r] = "send" /\ sptmp'[r] = Piece(r) /\ srbuf'[r] = r /\ total_send'[r] = 1
          /\ si'[r] = 1 /\ swire'[r] = <<>>
      BY <1>1, <1>2, <2>1, <3>1 DEF ScatterTypes
    <3> QED
      BY <1>2, <1>3, <2>1, <3>2, <3>3 DEF ScatterAt
  <2>2. CASE r # root
    <3>1. /\ spc'[r] = spc[r] /\ sptmp'[r] = sptmp[r] /\ srbuf'[r] = srbuf[r] /\ total_send'[r] = total_send[r]
          /\ si'[r] = si[r] /\ swire'[r] = swire[r] /\ spc'[root] = "send"
      BY <1>1, <1>2, <2>2 DEF ScatterTypes
    <3> QED
      BY <1>1, <1>2, <1>3, <2>2, <3>1 DEF ScatterAt
  <2> QED
    BY <2>1, <2>2
<1> QED
  BY <1>1, <1>3, <1>4, <1>5 DEF ScatterInv

LEMMA ScatterCall ==
  ASSUME ScatterInv, NEW r \in Rank, S!Call(r)
  PROVE  ScatterInv'
<1>1. InTree /\ ScatterTypes /\ ScatterAt(r) /\ (\A q \in Rank : ScatterAt(q)) /\ root \in Rank
  BY DEF ScatterInv, InTree
<1>2. /\ spc[r] = "out" /\ r # root /\ spc' = [spc EXCEPT ![r] = "recv"]
      /\ total_send' = [total_send EXCEPT ![r] = IF vrank(r) % 2 = 1 THEN @ ELSE 1]
      /\ size' = size /\ root' = root /\ sptmp' = sptmp /\ si' = si /\ srbuf' = srbuf /\ swire' = swire
  BY ScatterNames DEF S!Call, S!Goto, S!Leaf
<1>3. /\ Rank' = Rank /\ InTree' = InTree
      /\ \A q : /\ vrank(q)' = vrank(q) /\ Piece(q)' = Piece(q) /\ tree_prev(q)' = tree_prev(q)
                /\ NKids(q)' = NKids(q)
      /\ \A q, k : Off(q, k)' = Off(q, k)
  BY <1>2, TreeStays
<1>4. ScatterTypes'
  BY <1>1, <1>2, <1>3, PiecesAre DEF ScatterTypes, Places
<1>5. spc'[root] = "out" => spc[root] = "out"
  BY <1>1, <1>2 DEF ScatterTypes
<1>6. ASSUME NEW q \in Rank PROVE ScatterAt(q)'
  <2>1. CASE q = r
    <3>1. /\ spc'[q] = "recv" /\ (vrank(q) % 2 = 1 \/ total_send'[q] = 1)
          /\ si'[q] = si[q] /\ swire'[q] = swire[q]
      BY <1>1, <1>2, <2>1 DEF ScatterTypes
    <3>2. si[q] = 1 /\ q # root
      BY <1>1, <1>2, <2>1 DEF ScatterAt
    <3> QED
      BY <1>1, <1>2, <1>3, <1>5, <2>1, <3>1, <3>2 DEF ScatterAt
  <2>2. CASE q # r
    <3>1. /\ spc'[q] = spc[q] /\ sptmp'[q] = sptmp[q] /\ srbuf'[q] = srbuf[q] /\ total_send'[q] = total_send[q]
          /\ si'[q] = si[q] /\ swire'[q] = swire[q]
      BY <1>1, <1>2, <2>2 DEF ScatterTypes
    <3>2. ScatterAt(q)
      BY <1>1
    <3> QED
      BY <1>2, <1>3, <1>5, <3>1, <3>2 DEF ScatterAt
  <2> QED
    BY <2>1, <2>2
<1> QED
  BY <1>1, <1>3, <1>4, <1>6 DEF ScatterInv

LEMMA ScatterRecvLeaf ==
  ASSUME ScatterInv, NEW r \in Rank, S!RecvLeaf(r)
  PROVE  ScatterInv'
<1>1. InTree /\ ScatterTypes /\ ScatterAt(r) /\ (\A q \in Rank : ScatterAt(q)) /\ root \in Rank
  BY DEF ScatterInv, InTree
<1>20. /\ spc[r] = "recv" /\ swire[r] # <<>> /\ swire[r] = <<tree_prev(r), Piece(r)>>
       /\ S!Slices(r) = Piece(r) /\ spc[root] # "out" /\ r # root
  <2>1. spc[r] = "recv" /\ swire[r] # <<>>
    BY DEF S!RecvLeaf, S!Arrived, S!NoMessage
  <2>2. swire[r] = <<tree_prev(r), Piece(r)>>
    BY <1>1, <2>1 DEF ScatterAt
  <2>3. S!Slices(r) = Piece(r)
    BY <2>2 DEF S!Slices
  <2> QED
    BY <1>1, <2>1, <2>2, <2>3 DEF ScatterAt
<1>21. Piece(r)[1] = r /\ Len(Piece(r)) = Width(vrank(r)) /\ vrank(r) \in Rank
  BY <1>1, PieceIs, RanksTurn
<1>22. Len(S!Slices(r)) = 1
  <2>1. vrank(r) % 2 = 1
    BY ScatterNames DEF S!RecvLeaf, S!Leaf
  <2> QED
    BY <1>1, <1>20, <1>21, <2>1, OddIsLeaf
<1>2. /\ spc' = [spc EXCEPT ![r] = "done"] /\ srbuf' = [srbuf EXCEPT ![r] = r]
      /\ swire' = [swire EXCEPT ![r] = <<>>]
      /\ size' = size /\ root' = root /\ sptmp' = sptmp /\ total_send' = total_send /\ si' = si
  BY <1>20, <1>21, <1>22 DEF S!RecvLeaf, S!Goto, S!NoMessage
<1>3. /\ Rank' = Rank /\ InTree' = InTree
      /\ \A q : /\ vrank(q)' = vrank(q) /\ Piece(q)' = Piece(q) /\ tree_prev(q)' = tree_prev(q)
                /\ NKids(q)' = NKids(q)
      /\ \A q, k : Off(q, k)' = Off(q, k)
  BY <1>2, TreeStays
<1>4. ScatterTypes'
  BY <1>1, <1>2, <1>3, PiecesAre DEF ScatterTypes, Places
<1>5. spc'[root] = "out" => spc[root] = "out"
  BY <1>1, <1>2 DEF ScatterTypes
<1>6. ASSUME NEW q \in Rank PROVE ScatterAt(q)'
  <2>1. CASE q = r
    <3>1. spc'[q] = "done" /\ srbuf'[q] = q /\ swire'[q] = <<>>
      BY <1>1, <1>2, <2>1 DEF ScatterTypes
    <3> QED
      BY <1>2, <1>5, <1>20, <3>1 DEF ScatterAt
  <2>2. CASE q # r
    <3>1. /\ spc'[q] = spc[q] /\ sptmp'[q] = sptmp[q] /\ srbuf'[q] = srbuf[q] /\ total_send'[q] = total_send[q]
          /\ si'[q] = si[q] /\ swire'[q] = swire[q]
      BY <1>1, <1>2, <2>2 DEF ScatterTypes
    <3>2. ScatterAt(q)
      BY <1>1
    <3> QED
      BY <1>2, <1>3, <1>5, <3>1, <3>2 DEF ScatterAt
  <2> QED
    BY <2>1, <2>2
<1> QED
  BY <1>1, <1>3, <1>4, <1>6 DEF ScatterInv

LEMMA ScatterRecvInner ==
  ASSUME ScatterInv, NEW r \in Rank, S!RecvInner(r)
  PROVE  ScatterInv'
<1>1. InTree /\ ScatterTypes /\ ScatterAt(r) /\ (\A q \in Rank : ScatterAt(q)) /\ root \in Rank
  BY DEF ScatterInv, InTree
<1>20. /\ spc[r] = "recv" /\ swire[r] # <<>> /\ swire[r] = <<tree_prev(r), Piece(r)>>
       /\ S!Slices(r) = Piece(r) /\ spc[root] # "out" /\ r # root
  <2>1. spc[r] = "recv" /\ swire[r] # <<>>
    BY DEF S!RecvInner, S!Arrived, S!NoMessage
  <2>2. swire[r] = <<tree_prev(r), Piece(r)>>
    BY <1>1, <2>1 DEF ScatterAt
  <2>3. S!Slices(r) = Piece(r)
    BY <2>2 DEF S!Slices
  <2> QED
    BY <1>1, <2>1, <2>2, <2>3 DEF ScatterAt
<1>21. Piece(r)[1] = r /\ Len(Piece(r)) = Width(vrank(r)) /\ vrank(r) \in Rank
  BY <1>1, PieceIs, RanksTurn
<1>22. total_send[r] = 1 /\ si[r] = 1
  <2>1. vrank(r) % 2 # 1
    BY ScatterNames DEF S!RecvInner, S!Leaf
  <2> QED
    BY <1>1, <1>20, <2>1 DEF ScatterAt
<1>2. /\ spc' = [spc EXCEPT ![r] = "send"] /\ sptmp' = [sptmp EXCEPT ![r] = Piece(r)]
      /\ srbuf' = [srbuf EXCEPT ![r] = r] /\ swire' = [swire EXCEPT ![r] = <<>>]
      /\ size' = size /\ root' = root /\ total_send' = total_send /\ si' = si
  BY <1>20, <1>21 DEF S!RecvInner, S!Goto, S!NoMessage
<1>3. /\ Rank' = Rank /\ InTree' = InTree
      /\ \A q : /\ vrank(q)' = vrank(q) /\ Piece(q)' = Piece(q) /\ tree_prev(q)' = tree_prev(q)
                /\ NKids(q)' = NKids(q)
      /\ \A q, k : Off(q, k)' = Off(q, k)
  BY <1>2, TreeStays
<1>4. ScatterTypes'
  BY <1>1, <1>2, <1>3, PiecesAre DEF ScatterTypes, Places
<1>5. spc'[root] = "out" => spc[root] = "out"
  BY <1>1, <1>2 DEF ScatterTypes
<1>6. ASSUME NEW q \in Rank PROVE ScatterAt(q)'
  <2>1. CASE q = r
    <3>1. /\ spc'[q] = "send" /\ sptmp'[q] = Piece(q) /\ srbuf'[q] = q /\ swire'[q] = <<>>
          /\ total_send'[q] = 1 /\ si'[q] = 1
      BY <1>1, <1>2, <1>22, <2>1 DEF ScatterTypes
    <3>2. Off(vrank(q), 0) = 1 /\ NKids(vrank(q)) \in Nat
      BY <1>1, ChildIs
    <3> QED
      BY <1>2, <1>3, <1>5, <1>20, <3>1, <3>2 DEF ScatterAt
  <2>2. CASE q # r
    <3>1. /\ spc'[q] = spc[q] /\ sptmp'[q] = sptmp[q] /\ srbuf'[q] = srbuf[q] /\ total_send'[q] = total_send[q]
          /\ si'[q] = si[q] /\ swire'[q] = swire[q]
      BY <1>1, <1>2, <2>2 DEF ScatterTypes
    <3>2. ScatterAt(q)
      BY <1>1
    <3> QED
      BY <1>2, <1>3, <1>5, <3>1, <3>2 DEF ScatterAt
  <2> QED
    BY <2>1, <2>2
<1> QED
  BY <1>1, <1>3, <1>4, <1>6 DEF ScatterInv

LEMMA ScatterSendReturns ==
  ASSUME ScatterInv, NEW r \in Rank, S!SendReturns(r)
  PROVE  ScatterInv'
<1>1. InTree /\ ScatterTypes /\ ScatterAt(r) /\ (\A q \in Rank : ScatterAt(q)) /\ root \in Rank
  BY DEF ScatterInv, InTree
<1>2. /\ spc[r] = "wait" /\ spc' = [spc EXCEPT ![r] = "send"]
      /\ size' = size /\ root' = root /\ sptmp' = sptmp /\ total_send' = total_send /\ si' = si
      /\ srbuf' = srbuf /\ swire' = swire
  BY DEF S!SendReturns, S!Goto
<1>3. /\ Rank' = Rank /\ InTree' = InTree
      /\ \A q : /\ vrank(q)' = vrank(q) /\ Piece(q)' = Piece(q) /\ tree_prev(q)' = tree_prev(q)
                /\ NKids(q)' = NKids(q)
      /\ \A q, k : Off(q, k)' = Off(q, k)
  BY <1>2, TreeStays
<1>4. ScatterTypes'
  BY <1>1, <1>2, <1>3, PiecesAre DEF ScatterTypes, Places
<1>5. spc'[root] = "out" => spc[root] = "out"
  BY <1>1, <1>2 DEF ScatterTypes
<1>6. ASSUME NEW q \in Rank PROVE ScatterAt(q)'
  <2>1. CASE q = r
    <3>1. /\ spc'[q] = "send" /\ sptmp'[q] = sptmp[q] /\ srbuf'[q] = srbuf[q] /\ swire'[q] = swire[q]
          /\ total_send'[q] = total_send[q] /\ si'[q] = si[q]
      BY <1>1, <1>2, <2>1 DEF ScatterTypes
    <3> QED
      BY <1>1, <1>2, <1>3, <1>5, <2>1, <3>1 DEF ScatterAt
  <2>2. CASE q # r
    <3>1. /\ spc'[q] = spc[q] /\ sptmp'[q] = sptmp[q] /\ srbuf'[q] = srbuf[q] /\ total_send'[q] = total_send[q]
          /\ si'[q] = si[q] /\ swire'[q] = swire[q]
      BY <1>1, <1>2, <2>2 DEF ScatterTypes
    <3>2. ScatterAt(q)
      BY <1>1
    <3> QED
      BY <1>2, <1>3, <1>5, <3>1, <3>2 DEF ScatterAt
  <2> QED
    BY <2>1, <2>2
<1> QED
  BY <1>1, <1>3, <1>4, <1>6 DEF ScatterInv

LEMMA ScatterReturn ==
  ASSUME ScatterInv, NEW r \in Rank, S!Return(r)
  PROVE  ScatterInv'
<1>1. InTree /\ ScatterTypes /\ ScatterAt(r) /\ (\A q \in Rank : ScatterAt(q)) /\ root \in Rank
  BY DEF ScatterInv, InTree
<1>2. /\ spc[r] = "send" /\ spc' = [spc EXCEPT ![r] = "done"]
      /\ size' = size /\ root' = root /\ sptmp' = sptmp /\ total_send' = total_send /\ si' = si
      /\ srbuf' = srbuf /\ swire' = swire
  BY DEF S!Return, S!Goto
<1>3. /\ Rank' = Rank /\ InTree' = InTree
      /\ \A q : /\ vrank(q)' = vrank(q) /\ Piece(q)' = Piece(q) /\ tree_prev(q)' = tree_prev(q)
                /\ NKids(q)' = NKids(q)
      /\ \A q, k : Off(q, k)' = Off(q, k)
  BY <1>2, TreeStays
<1>4. ScatterTypes'
  BY <1>1, <1>2, <1>3, PiecesAre DEF ScatterTypes, Places
<1>5. spc'[root] = "out" => spc[root] = "out"
  BY <1>1, <1>2 DEF ScatterTypes
<1>6. ASSUME NEW q \in Rank PROVE ScatterAt(q)'
  <2>1. CASE q = r
    <3>1. /\ spc'[q] = "done" /\ sptmp'[q] = sptmp[q] /\ srbuf'[q] = srbuf[q] /\ swire'[q] = swire[q]
          /\ total_send'[q] = total_send[q] /\ si'[q] = si[q]
      BY <1>1, <1>2, <2>1 DEF ScatterTypes
    <3> QED
      BY <1>1, <1>2, <1>3, <1>5, <2>1, <3>1 DEF ScatterAt
  <2>2. CASE q # r
    <3>1. /\ spc'[q] = spc[q] /\ sptmp'[q] = sptmp[q] /\ srbuf'[q] = srbuf[q] /\ total_send'[q] = total_send[q]
          /\ si'[q] = si[q] /\ swire'[q] = swire[q]
      BY <1>1, <1>2, <2>2 DEF ScatterTypes
    <3>2. ScatterAt(q)
      BY <1>1
    <3> QED
      BY <1>2, <1>3, <1>5, <3>1, <3>2 DEF ScatterAt
  <2> QED
    BY <2>1, <2>2
<1> QED
  BY <1>1, <1>3, <1>4, <1>6 DEF ScatterInv

\* A process sends each child the child's piece.
LEMMA ScatterSend ==
  ASSUME ScatterInv, NEW r \in Rank, S!Send(r)
  PROVE  ScatterInv'
<1> DEFINE v == vrank(r)
           a == si[r]
           kid == tree_next(r)[a]
           t == total_send[r]
           w == Count(r, kid)
<1>1. InTree /\ ScatterTypes /\ ScatterAt(r) /\ (\A q \in Rank : ScatterAt(q)) /\ root \in Rank
  BY DEF ScatterInv, InTree
<1>2. /\ spc[r] = "send" /\ a <= Len(tree_next(r))
      /\ swire' = [swire EXCEPT ![kid] = <<r, [k \in 1 .. w |-> S!At(r, t + k)]>>]
      /\ total_send' = [total_send EXCEPT ![r] = @ + w]
      /\ spc' = [spc EXCEPT ![r] = IF eager THEN "send" ELSE "wait"]
      /\ si' = [si EXCEPT ![r] = @ + 1]
      /\ size' = size /\ root' = root /\ sptmp' = sptmp /\ srbuf' = srbuf
  BY ScatterNames DEF S!Send, S!Goto
<1>3. /\ Rank' = Rank /\ InTree' = InTree
      /\ \A q : /\ vrank(q)' = vrank(q) /\ Piece(q)' = Piece(q) /\ tree_prev(q)' = tree_prev(q)
                /\ NKids(q)' = NKids(q)
      /\ \A q, k : Off(q, k)' = Off(q, k)
  BY <1>2, TreeStays
<1>4. /\ a \in Nat /\ a >= 1 /\ t \in Nat
      /\ sptmp[r] = Piece(r) /\ t = Off(v, a - 1) /\ srbuf[r] = r /\ spc[root] # "out"
  BY <1>1, <1>2 DEF ScatterAt, ScatterTypes
<1>5. a \in 1 .. NKids(v) /\ NKids(v) \in Nat
  BY <1>1, <1>2, <1>4, ChildIs
<1>6. /\ kid \in Rank /\ kid # root /\ tree_prev(kid) = r
      /\ w = Width(vrank(kid)) /\ Off(v, a) = t + w /\ Off(v, a) \in Nat
      /\ \A j \in 1 .. w : t + j \in 1 .. Width(v) /\ Piece(r)[t + j] = Piece(kid)[j]
  BY <1>1, <1>4, <1>5, ChildIs, PartIs
<1>7. Len(Piece(r)) = Width(v) /\ Width(v) \in Nat /\ w \in Nat
  BY <1>1, <1>6, PieceIs
<1>8. [k \in 1 .. w |-> S!At(r, t + k)] = Piece(kid)
  <2>1. Piece(kid) = [k \in 1 .. w |-> rank(vrank(kid) + k - 1)]
    BY <1>6 DEF Piece
  <2>2. ASSUME NEW k \in 1 .. w PROVE S!At(r, t + k) = Piece(kid)[k]
    <3>1. t + k \in 1 .. Width(v) /\ Piece(r)[t + k] = Piece(kid)[k]
      BY <1>6
    <3>2. S!At(r, t + k) = Piece(r)[t + k]
      BY <1>4, <1>7, <3>1 DEF S!At
    <3> QED
      BY <3>1, <3>2
  <2> HIDE DEF w, kid, t
  <2> QED
    BY <2>1, <2>2
<1> HIDE DEF kid, t, w, a
<1>9. swire' = [swire EXCEPT ![kid] = <<r, Piece(kid)>>]
  BY <1>2, <1>8
<1>10. total_send' = [total_send EXCEPT ![r] = t + w] /\ si' = [si EXCEPT ![r] = a + 1]
  BY <1>1, <1>2 DEF ScatterTypes, t, a
<1>11. ScatterTypes'
  <2>1. Piece(kid) \in Seq(Rank) /\ t + w \in Nat /\ a + 1 \in Nat \ {0}
    BY <1>1, <1>4, <1>6, <1>7, PiecesAre
  <2>2. swire' \in [Rank -> {<<>>} \cup (Rank \X Seq(Rank))]
    BY <1>1, <1>9, <2>1 DEF ScatterTypes
  <2>3. /\ spc' \in [Rank -> Places] /\ total_send' \in [Rank -> Nat] /\ si' \in [Rank -> Nat \ {0}]
    BY <1>1, <1>2, <1>10, <2>1 DEF ScatterTypes, Places
  <2> QED
    BY <1>1, <1>2, <1>3, <2>2, <2>3 DEF ScatterTypes
<1>12. spc'[root] # "out"
  BY <1>1, <1>2, <1>4 DEF ScatterTypes
<1>13. ASSUME NEW q \in Rank
       PROVE  swire'[q] # <<>> => q # root /\ swire'[q] = <<tree_prev(q), Piece(q)>>
  <2>1. CASE q = kid
    <3>1. swire'[q] = <<r, Piece(kid)>>
      BY <1>1, <1>9, <2>1 DEF ScatterTypes
    <3> QED
      BY <1>6, <2>1, <3>1
  <2>2. CASE q # kid
    <3>1. swire'[q] = swire[q]
      BY <1>1, <1>9, <2>2 DEF ScatterTypes
    <3> QED
      BY <1>1, <3>1 DEF ScatterAt
  <2> QED
    BY <2>1, <2>2
<1>14. ASSUME NEW q \in Rank PROVE ScatterAt(q)'
  <2>1. CASE q = r
    <3>1. /\ spc'[q] \in {"send", "wait"} /\ sptmp'[q] = Piece(q) /\ srbuf'[q] = q
          /\ si'[q] = a + 1 /\ total_send'[q] = t + w
      BY <1>1, <1>2, <1>4, <1>10, <2>1 DEF ScatterTypes
    <3>2. a + 1 <= NKids(vrank(q)) + 1 /\ t + w = Off(vrank(q), (a + 1) - 1)
      <4>1. (a + 1) - 1 = a
        BY <1>4
      <4> QED
        BY <1>4, <1>5, <1>6, <2>1, <4>1
    <3> QED
      BY <1>2, <1>3, <1>12, <1>13, <3>1, <3>2 DEF ScatterAt
  <2>2. CASE q # r
    <3>1. /\ spc'[q] = spc[q] /\ sptmp'[q] = sptmp[q] /\ srbuf'[q] = srbuf[q] /\ total_send'[q] = total_send[q]
          /\ si'[q] = si[q]
      BY <1>1, <1>2, <1>10, <2>2 DEF ScatterTypes
    <3>2. ScatterAt(q)
      BY <1>1
    <3> QED
      BY <1>2, <1>3, <1>12, <1>13, <3>1, <3>2 DEF ScatterAt
  <2> QED
    BY <2>1, <2>2
<1> QED
  BY <1>1, <1>3, <1>11, <1>14 DEF ScatterInv

\* Steps of the gather change nothing of the scatter.
LEMMA ScatterStays ==
  ASSUME ScatterInv, UNCHANGED <<size, root, svars>>
  PROVE  ScatterInv'
<1>1. InTree /\ ScatterTypes /\ \A r \in Rank : ScatterAt(r)
  BY DEF ScatterInv
<1>2. /\ spc' = spc /\ sptmp' = sptmp /\ total_send' = total_send /\ si' = si /\ srbuf' = srbuf
      /\ swire' = swire /\ size' = size /\ root' = root
  BY DEF svars
<1>3. /\ Rank' = Rank /\ InTree' = InTree
      /\ \A q : /\ vrank(q)' = vrank(q) /\ Piece(q)' = Piece(q) /\ tree_prev(q)' = tree_prev(q)
                /\ NKids(q)' = NKids(q)
      /\ \A q, k : Off(q, k)' = Off(q, k)
  BY <1>2, TreeStays
<1>4. ScatterTypes'
  BY <1>1, <1>2, <1>3 DEF ScatterTypes
<1>5. ASSUME NEW r \in Rank PROVE ScatterAt(r)'
  BY <1>1, <1>2, <1>3 DEF ScatterAt
<1> QED
  BY <1>1, <1>3, <1>4, <1>5 DEF ScatterInv

\* A step of MPI_Gather leaves the communicator as it is.
LEMMA GatherLeaves ==
  ASSUME Gather \/ UNCHANGED vars
  PROVE  UNCHANGED <<size, root, svars>>
<1>1. CASE UNCHANGED vars
  BY <1>1 DEF vars
<1>2. CASE G!ReturnRoot /\ UNCHANGED svars
  BY <1>2 DEF G!ReturnRoot
<1>3. CASE (\E r \in Rank : spc[r] = "done" /\ G!Running(r)) /\ UNCHANGED svars
  <2>1. PICK r \in Rank : G!Running(r)
    BY <1>3
  <2> QED
    BY <1>3, <2>1 DEF G!Running, G!Call, G!Recv, G!Send, G!SendReturns
<1> QED
  BY <1>1, <1>2, <1>3 DEF Gather

LEMMA ScatterNext == ScatterInv /\ [Next]_vars => ScatterInv'
<1> SUFFICES ASSUME ScatterInv, [Next]_vars PROVE ScatterInv'
  OBVIOUS
<1>1. CASE Gather \/ UNCHANGED vars
  BY <1>1, GatherLeaves, ScatterStays
<1>2. CASE S!CallRoot
  BY <1>2, ScatterCallRoot
<1>3. CASE \E r \in Rank : S!Running(r)
  <2>1. PICK r \in Rank : S!Running(r)
    BY <1>3
  <2> QED
    BY <2>1, ScatterCall, ScatterRecvLeaf, ScatterRecvInner, ScatterSend, ScatterSendReturns, ScatterReturn
       DEF S!Running
<1> QED
  BY <1>1, <1>2, <1>3 DEF Next, Scatter, Stopped

\* What a process of the scatter has left, and what is on its way to it, is always
\* part of its own piece, also while its parent is in the gather.
THEOREM ScatterInvHolds == Spec => []ScatterInv
BY ScatterStarts, ScatterNext, PTL DEF Spec

\* What is on the way is a piece.
LEMMA ScatterMessages == ScatterInv => S!MessageIsSubtree
<1> SUFFICES ASSUME ScatterInv, NEW r \in Rank, swire[r] # <<>>
             PROVE  /\ ToSet(S!Slices(r)) = Subtree(r)
                    /\ Len(S!Slices(r)) = Cardinality(Subtree(r))
  BY ScatterNames DEF S!MessageIsSubtree, S!NoMessage
<1>1. InTree /\ swire[r] = <<tree_prev(r), Piece(r)>>
  BY DEF ScatterInv, ScatterAt
<1>2. S!Slices(r) = Piece(r)
  BY <1>1 DEF S!Slices
<1> QED
  BY <1>1, <1>2, PieceIs

\* The initial states are those of the promise.
LEMMA ScatterPromiseStarts == Init => S!P!Init
BY DEF Init, S!Init, S!P!Init, S!P!Rank, S!Rank, S!Nothing, S!P!Nothing

\* What a program sees of the scatter.
SCalled == {r \in Rank : spc[r] # "out"}
SReturned == {r \in Rank : spc[r] = "done"}
SKept == [r \in Rank |-> IF spc[r] = "done" THEN srbuf[r] ELSE -1]

LEMMA ScatterSeen ==
  /\ S!P!vars = <<size, root, SCalled, SReturned, SKept>>
  /\ (S!P!vars)' = <<size, root, SCalled, SReturned, SKept>>'
  /\ \A r : S!P!Call(r) <=> /\ r \notin SCalled
                           /\ SCalled' = SCalled \cup {r}
                           /\ UNCHANGED <<size, root, SReturned, SKept>>
  /\ \A r : S!P!Return(r) <=> /\ r \in SCalled \ SReturned
                             /\ root \in SCalled
                             /\ SReturned' = SReturned \cup {r}
                             /\ SKept' = [SKept EXCEPT ![r] = r]
                             /\ UNCHANGED <<size, root, SCalled>>
<1>1. S!Rank = Rank /\ S!Rank' = Rank'
  BY DEF S!Rank, Rank
<1> QED
  BY <1>1 DEF S!P!vars, S!P!Call, S!P!Return, SCalled, SReturned, SKept, S!Nothing

\* A process goes from one place of the call to another.
LEMMA ScatterMoves ==
  ASSUME ScatterInv, ScatterInv', NEW r \in Rank, NEW to \in Places \ {"out"},
         spc' = [spc EXCEPT ![r] = to], size' = size, root' = root,
         spc[r] # "done", to = "done" => spc[r] # "out",
         \A q \in Rank : q # r => srbuf'[q] = srbuf[q]
  PROVE  [S!P!Next]_(S!P!vars)
<1>1. ScatterTypes /\ (\A q \in Rank : ScatterAt(q)) /\ Rank' = Rank /\ spc[r] \in Places /\ root \in Rank
  BY TreeStays DEF ScatterInv, ScatterTypes, InTree
<1>2. /\ spc'[r] = to /\ to # "out" /\ to \in Places
      /\ \A q \in Rank : q # r => spc'[q] = spc[q] /\ srbuf'[q] = srbuf[q]
  BY <1>1 DEF ScatterTypes
<1>3. SCalled' = SCalled \cup {r}
  BY <1>1, <1>2 DEF SCalled
<1>4. CASE to # "done"
  <2>1. SReturned' = SReturned
    BY <1>1, <1>2, <1>4 DEF SReturned
  <2>2. SKept' = SKept
    <3>1. \A q \in Rank : (IF spc'[q] = "done" THEN srbuf'[q] ELSE -1) = (IF spc[q] = "done" THEN srbuf[q] ELSE -1)
      BY <1>2, <1>4
    <3> QED
      BY <1>1, <3>1 DEF SKept
  <2>3. CASE spc[r] = "out"
    <3>1. S!P!Call(r)
      <4>1. r \notin SCalled
        BY <2>3 DEF SCalled
      <4> QED
        BY <1>3, <2>1, <2>2, <4>1, ScatterSeen
    <3> QED
      BY <3>1 DEF S!P!Next, S!P!Rank, Rank
  <2>4. CASE spc[r] # "out"
    <3>1. SCalled' = SCalled
      BY <1>3, <2>4 DEF SCalled
    <3> QED
      BY <2>1, <2>2, <3>1, ScatterSeen
  <2> QED
    BY <2>3, <2>4
<1>5. CASE to = "done" /\ spc[r] # "out"
  <2>1. SReturned' = SReturned \cup {r}
    BY <1>1, <1>2, <1>5 DEF SReturned
  <2>2. SCalled' = SCalled /\ r \in SCalled /\ r \notin SReturned
    BY <1>3, <1>5 DEF SCalled, SReturned
  <2>3. srbuf'[r] = r /\ spc'[root] # "out"
    <3>1. ScatterAt(r)'
      BY <1>1 DEF ScatterInv
    <3> QED
      BY <1>2, <1>5, <3>1 DEF ScatterAt
  <2>4. root \in SCalled
    BY <1>1, <1>2, <1>5, <2>3 DEF SCalled
  <2>5. SKept' = [SKept EXCEPT ![r] = r]
    <3>1. \A q \in Rank : (IF spc'[q] = "done" THEN srbuf'[q] ELSE -1)
                            = IF q = r THEN r ELSE (IF spc[q] = "done" THEN srbuf[q] ELSE -1)
      BY <1>2, <1>5, <2>3
    <3> QED
      BY <1>1, <3>1 DEF SKept
  <2>6. S!P!Return(r)
    BY <2>1, <2>2, <2>4, <2>5, ScatterSeen
  <2> QED
    BY <2>6 DEF S!P!Next, S!P!Rank, Rank
<1>6. ~(to = "done" /\ spc[r] = "out")
  OBVIOUS
<1> QED
  BY <1>4, <1>5, <1>6

\* What a program sees does not change when no process goes on.
LEMMA ScatterUnseen ==
  ASSUME spc' = spc, srbuf' = srbuf, size' = size, root' = root
  PROVE  UNCHANGED S!P!vars
<1>1. Rank' = Rank
  BY DEF Rank
<1>2. SCalled' = SCalled /\ SReturned' = SReturned /\ SKept' = SKept
  BY <1>1 DEF SCalled, SReturned, SKept
<1> QED
  BY <1>2, ScatterSeen

LEMMA ScatterPromiseNext ==
  ASSUME ScatterInv, ScatterInv', [Next]_vars
  PROVE  [S!P!Next]_(S!P!vars)
<1>1. ScatterTypes /\ (\A q \in Rank : ScatterAt(q)) /\ root \in Rank
  BY DEF ScatterInv, InTree
<1>2. CASE Gather \/ UNCHANGED vars
  BY <1>2, GatherLeaves, ScatterUnseen DEF svars
<1>3. CASE S!CallRoot
  <2>1. /\ spc[root] = "out" /\ spc' = [spc EXCEPT ![root] = "send"]
        /\ srbuf' = [srbuf EXCEPT ![root] = S!Rotated[1]] /\ size' = size /\ root' = root
    BY <1>3 DEF S!CallRoot, S!Goto
  <2>2. \A q \in Rank : q # root => srbuf'[q] = srbuf[q]
    BY <1>1, <2>1 DEF ScatterTypes
  <2> QED
    BY <1>1, <2>1, <2>2, ScatterMoves DEF Places
<1>4. ASSUME NEW r \in Rank, S!Running(r) PROVE [S!P!Next]_(S!P!vars)
  <2>1. CASE S!Call(r)
    <3>1. spc[r] = "out" /\ spc' = [spc EXCEPT ![r] = "recv"] /\ srbuf' = srbuf /\ size' = size /\ root' = root
      BY <2>1 DEF S!Call, S!Goto
    <3> QED
      BY <1>1, <3>1, ScatterMoves DEF Places
  <2>2. CASE S!RecvLeaf(r)
    <3>1. /\ spc[r] = "recv" /\ size' = size /\ root' = root
          /\ \E to \in Places : spc' = [spc EXCEPT ![r] = to] /\ to # "out"
          /\ \A q \in Rank : q # r => srbuf'[q] = srbuf[q]
      <4>1. /\ spc[r] = "recv" /\ size' = size /\ root' = root
            /\ \E to \in {"done", "failed"} : spc' = [spc EXCEPT ![r] = to]
        BY <2>2 DEF S!RecvLeaf, S!Goto
      <4>2. spc'[r] \in Places
        BY <1>1, <4>1 DEF ScatterInv, ScatterTypes, Rank
      <4>3. spc' = [spc EXCEPT ![r] = "done"]
        BY <1>1, <4>1, <4>2 DEF ScatterTypes, Places
      <4>4. srbuf' = srbuf \/ srbuf' = [srbuf EXCEPT ![r] = S!Slices(r)[1]]
        BY <2>2 DEF S!RecvLeaf
      <4> QED
        BY <1>1, <4>1, <4>3, <4>4 DEF ScatterTypes, Places
    <3> QED
      BY <1>1, <3>1, ScatterMoves
  <2>3. CASE S!RecvInner(r)
    <3>1. /\ spc[r] = "recv" /\ spc' = [spc EXCEPT ![r] = "send"] /\ size' = size /\ root' = root
          /\ srbuf' = [srbuf EXCEPT ![r] = S!Slices(r)[1]]
      BY <2>3 DEF S!RecvInner, S!Goto
    <3>2. \A q \in Rank : q # r => srbuf'[q] = srbuf[q]
      BY <1>1, <3>1 DEF ScatterTypes
    <3> QED
      BY <1>1, <3>1, <3>2, ScatterMoves DEF Places
  <2>4. CASE S!Send(r)
    <3>1. /\ spc[r] = "send" /\ size' = size /\ root' = root /\ srbuf' = srbuf
          /\ \E to \in {"send", "wait"} : spc' = [spc EXCEPT ![r] = to]
      BY <2>4 DEF S!Send, S!Goto
    <3> QED
      BY <1>1, <3>1, ScatterMoves DEF Places
  <2>5. CASE S!SendReturns(r)
    <3>1. spc[r] = "wait" /\ spc' = [spc EXCEPT ![r] = "send"] /\ srbuf' = srbuf /\ size' = size /\ root' = root
      BY <2>5 DEF S!SendReturns, S!Goto
    <3> QED
      BY <1>1, <3>1, ScatterMoves DEF Places
  <2>6. CASE S!Return(r)
    <3>1. spc[r] = "send" /\ spc' = [spc EXCEPT ![r] = "done"] /\ srbuf' = srbuf /\ size' = size /\ root' = root
      BY <2>6 DEF S!Return, S!Goto
    <3> QED
      BY <1>1, <3>1, ScatterMoves DEF Places
  <2> QED
    BY <1>4, <2>1, <2>2, <2>3, <2>4, <2>5, <2>6 DEF S!Running
<1> QED
  BY <1>2, <1>3, <1>4 DEF Next, Scatter, Stopped

\* MPI_Scatter returns nowhere before the root has called it, and with its own slice
\* in each process, wherever the root is (coll_base_scatter.c:71-109).
THEOREM ScatterKept == Spec => S!ImplementsScatterPromise
<1>1. Init => S!P!Init
  BY ScatterPromiseStarts
<1>2. ScatterInv /\ ScatterInv' /\ [Next]_vars => [S!P!Next]_(S!P!vars)
  BY ScatterPromiseNext
<1> QED
  BY <1>1, <1>2, ScatterInvHolds, PTL DEF Spec, S!ImplementsScatterPromise, S!P!Spec

-----------------------------------------------------------------------------
(* The gather.                                                             *)

GatherTypes == /\ gpc \in [Rank -> Places]
               /\ gptmp \in [Rank -> [Rank -> Rank \cup {-1}]]
               /\ total_recv \in [Rank -> Nat]
               /\ gi \in [Rank -> Nat \ {0}]
               /\ grbuf \in [Rank -> Rank \cup {-1}]
               /\ gwire \in [Rank -> Seq(Rank)]

\* The places of r that are taken hold the first part of its piece, and whoever
\* is in it has called.
Collected(r) == \A k \in Rank : k < total_recv[r] => /\ gptmp[r][k] = rank(vrank(r) + k)
                                                     /\ gpc[rank(vrank(r) + k)] # "out"

GatherAt(r) ==
  /\ gpc[r] = "out" => gi[r] = 1
  /\ gpc[r] # "out" => /\ gi[r] <= NKids(vrank(r)) + 1
                       /\ total_recv[r] = Off(vrank(r), gi[r] - 1)
                       /\ Collected(r)
  /\ gpc[r] = "send" => vrank(r) % 2 = 1
  /\ gpc[r] \in {"wait", "done"} => gi[r] = NKids(vrank(r)) + 1
  /\ gpc[r] = "wait" => r # root
  /\ gwire[r] # <<>> => gpc[r] \in {"wait", "done"} /\ r # root /\ gwire[r] = Piece(r)

GatherInv == InTree /\ GatherTypes /\ \A r \in Rank : GatherAt(r)

LEMMA GatherStarts == Init => GatherInv
<1> SUFFICES ASSUME Init PROVE GatherInv
  OBVIOUS
<1> USE DEF G!Nothing, G!NoMessage
<1>1. /\ size \in Sizes /\ root \in Rank /\ gpc = [r \in Rank |-> "out"]
      /\ gptmp = [r \in Rank |-> [k \in Rank |-> -1]] /\ total_recv = [r \in Rank |-> 0]
      /\ gi = [r \in Rank |-> 1] /\ grbuf = [r \in Rank |-> -1] /\ gwire = [r \in Rank |-> <<>>]
  BY GatherNames DEF Init, G!Init
<1>2. InTree
  BY <1>1, SizesAssumption DEF InTree
<1>3. GatherTypes
  <2>1. <<>> \in Seq(Rank)
    OBVIOUS
  <2> QED
    BY <1>1, <2>1 DEF GatherTypes, Places
<1>4. \A r \in Rank : GatherAt(r)
  BY <1>1 DEF GatherAt
<1> QED
  BY <1>2, <1>3, <1>4 DEF GatherInv

\* Whoever has called keeps having called.
LEMMA CollectedStays ==
  ASSUME GatherInv, NEW r \in Rank, Collected(r), size' = size, root' = root,
         gptmp'[r] = gptmp[r], total_recv'[r] = total_recv[r],
         \A q \in Rank : gpc[q] # "out" => gpc'[q] # "out"
  PROVE  Collected(r)'
<1>1. InTree /\ vrank(r) \in Rank /\ GatherTypes
  BY RanksTurn DEF GatherInv
<1>2. Rank' = Rank /\ vrank(r)' = vrank(r) /\ \A k : rank(k)' = rank(k)
  BY TreeStays
<1>3. ASSUME NEW k \in Rank, k < total_recv[r]
      PROVE  gptmp'[r][k] = rank(vrank(r) + k) /\ gpc'[rank(vrank(r) + k)] # "out"
  <2>1. rank(vrank(r) + k) \in Rank
    <3>1. rank(vrank(r) + k) = gptmp[r][k] /\ gptmp[r][k] \in Rank \cup {-1}
      BY <1>1, <1>3 DEF Collected, GatherTypes
    <3>2. rank(vrank(r) + k) \in Nat
      <4>1. vrank(r) + k + root \in Nat /\ size \in Nat \ {0}
        BY <1>1 DEF InTree, Rank
      <4>2. (vrank(r) + k + root) % size \in 0 .. (size - 1)
        BY <4>1, Divided
      <4> QED
        BY <4>2 DEF rank
    <3> QED
      BY <3>1, <3>2
  <2> QED
    BY <1>3, <2>1 DEF Collected
<1> QED
  BY <1>2, <1>3 DEF Collected

LEMMA GatherCall ==
  ASSUME GatherInv, NEW r \in Rank, G!Call(r)
  PROVE  GatherInv'
<1>1. InTree /\ GatherTypes /\ GatherAt(r) /\ (\A q \in Rank : GatherAt(q)) /\ root \in Rank
  BY DEF GatherInv, InTree
<1>2. /\ gpc[r] = "out" /\ gptmp' = [gptmp EXCEPT ![r][0] = r] /\ total_recv' = [total_recv EXCEPT ![r] = 1]
      /\ gpc' = [gpc EXCEPT ![r] = IF vrank(r) % 2 = 1 THEN "send" ELSE "recv"]
      /\ size' = size /\ root' = root /\ gi' = gi /\ grbuf' = grbuf /\ gwire' = gwire
  BY GatherNames DEF G!Call, G!Goto, G!Leaf
<1>3. /\ Rank' = Rank /\ InTree' = InTree
      /\ \A q : /\ vrank(q)' = vrank(q) /\ Piece(q)' = Piece(q) /\ NKids(q)' = NKids(q)
                /\ rank(q)' = rank(q)
      /\ \A q, k : Off(q, k)' = Off(q, k)
  BY <1>2, TreeStays
<1>4. GatherTypes'
  <2>1. 0 \in Rank
    BY <1>1, RanksTurn
  <2> QED
    BY <1>1, <1>2, <1>3, <2>1 DEF GatherTypes, Places
<1>5. \A q \in Rank : gpc[q] # "out" => gpc'[q] # "out"
  BY <1>1, <1>2 DEF GatherTypes
<1>6. ASSUME NEW q \in Rank PROVE GatherAt(q)'
  <2>1. CASE q = r
    <3> DEFINE v == vrank(r)
    <3>1. v \in Rank /\ v \in Nat /\ rank(v) = r /\ 0 \in Rank /\ Rank \subseteq Nat
      BY <1>1, RanksTurn DEF Rank
    <3>2. gi[r] = 1 /\ gwire[r] = <<>>
      BY <1>1, <1>2 DEF GatherAt
    <3>3. Off(v, 0) = 1 /\ NKids(v) \in Nat
      BY <1>1, ChildIs
    <3>4. /\ gpc'[r] = (IF v % 2 = 1 THEN "send" ELSE "recv") /\ total_recv'[r] = 1 /\ gptmp'[r][0] = r
          /\ gi'[r] = 1 /\ gwire'[r] = <<>>
      BY <1>1, <1>2, <3>1, <3>2 DEF GatherTypes
    <3> HIDE DEF v
    <3>5. ASSUME NEW k \in Rank, k < 1 PROVE gptmp'[r][k] = rank(v + k) /\ gpc'[rank(v + k)] # "out"
      <4>1. k = 0 /\ v + k = v
        BY <3>1, <3>5
      <4> QED
        BY <3>1, <3>4, <4>1
    <3>6. Collected(r)'
      BY <1>3, <3>4, <3>5 DEF Collected, v
    <3> QED
      BY <1>2, <1>3, <2>1, <3>3, <3>4, <3>6 DEF GatherAt, v
  <2>2. CASE q # r
    <3>1. /\ gpc'[q] = gpc[q] /\ gptmp'[q] = gptmp[q] /\ total_recv'[q] = total_recv[q]
          /\ gi'[q] = gi[q] /\ gwire'[q] = gwire[q]
      BY <1>1, <1>2, <2>2 DEF GatherTypes
    <3>2. GatherAt(q)
      BY <1>1
    <3>3. gpc[q] # "out" => Collected(q)'
      BY <1>2, <1>5, <3>1, <3>2, CollectedStays DEF GatherAt
    <3> QED
      BY <1>2, <1>3, <3>1, <3>2, <3>3 DEF GatherAt
  <2> QED
    BY <2>1, <2>2
<1> QED
  BY <1>1, <1>3, <1>4, <1>6 DEF GatherInv

LEMMA GatherSendReturns ==
  ASSUME GatherInv, NEW r \in Rank, G!SendReturns(r)
  PROVE  GatherInv'
<1>1. InTree /\ GatherTypes /\ GatherAt(r) /\ (\A q \in Rank : GatherAt(q)) /\ root \in Rank
  BY DEF GatherInv, InTree
<1>2. /\ gpc[r] = "wait" /\ gpc' = [gpc EXCEPT ![r] = "done"] /\ gwire[r] = <<>>
      /\ size' = size /\ root' = root /\ gptmp' = gptmp /\ total_recv' = total_recv
      /\ gi' = gi /\ grbuf' = grbuf /\ gwire' = gwire
  BY DEF G!SendReturns, G!Goto, G!NoMessage
<1>3. /\ Rank' = Rank /\ InTree' = InTree
      /\ \A q : /\ vrank(q)' = vrank(q) /\ Piece(q)' = Piece(q) /\ NKids(q)' = NKids(q)
                /\ rank(q)' = rank(q)
      /\ \A q, k : Off(q, k)' = Off(q, k)
  BY <1>2, TreeStays
<1>4. GatherTypes'
  BY <1>1, <1>2, <1>3 DEF GatherTypes, Places
<1>5. \A q \in Rank : gpc[q] # "out" => gpc'[q] # "out"
  BY <1>1, <1>2 DEF GatherTypes
<1>6. ASSUME NEW q \in Rank PROVE GatherAt(q)'
  <2>1. CASE q = r
    <3>1. gpc'[r] = "done"
      BY <1>1, <1>2 DEF GatherTypes
    <3>2. Collected(r)'
      BY <1>1, <1>2, <1>5, CollectedStays DEF GatherAt
    <3> QED
      BY <1>1, <1>2, <1>3, <2>1, <3>1, <3>2 DEF GatherAt
  <2>2. CASE q # r
    <3>1. /\ gpc'[q] = gpc[q] /\ gptmp'[q] = gptmp[q] /\ total_recv'[q] = total_recv[q]
          /\ gi'[q] = gi[q] /\ gwire'[q] = gwire[q]
      BY <1>1, <1>2, <2>2 DEF GatherTypes
    <3>2. GatherAt(q)
      BY <1>1
    <3>3. gpc[q] # "out" => Collected(q)'
      BY <1>2, <1>5, <3>1, <3>2, CollectedStays DEF GatherAt
    <3> QED
      BY <1>2, <1>3, <3>1, <3>2, <3>3 DEF GatherAt
  <2> QED
    BY <2>1, <2>2
<1> QED
  BY <1>1, <1>3, <1>4, <1>6 DEF GatherInv

\* A process sends its whole piece.
LEMMA GatherSend ==
  ASSUME GatherInv, NEW r \in Rank, G!Send(r)
  PROVE  GatherInv'
<1>1. InTree /\ GatherTypes /\ GatherAt(r) /\ (\A q \in Rank : GatherAt(q)) /\ root \in Rank
  BY DEF GatherInv, InTree
<1>2. /\ gpc[r] = "send" \/ (gpc[r] = "recv" /\ r # root /\ gi[r] > Len(tree_next(r)))
      /\ gwire' = [gwire EXCEPT ![r] = [k \in 1 .. total_recv[r] |-> gptmp[r][k - 1]]]
      /\ gpc' = [gpc EXCEPT ![r] = IF eager THEN "done" ELSE "wait"]
      /\ size' = size /\ root' = root /\ gptmp' = gptmp /\ total_recv' = total_recv
      /\ gi' = gi /\ grbuf' = grbuf
  BY GatherNames DEF G!Send, G!Goto, G!HeardAll
<1>3. /\ Rank' = Rank /\ InTree' = InTree
      /\ \A q : /\ vrank(q)' = vrank(q) /\ Piece(q)' = Piece(q) /\ NKids(q)' = NKids(q)
                /\ rank(q)' = rank(q)
      /\ \A q, k : Off(q, k)' = Off(q, k)
  BY <1>2, TreeStays
<1>5. \A q \in Rank : gpc[q] # "out" => gpc'[q] # "out"
  BY <1>1, <1>2 DEF GatherTypes
<1> DEFINE v == vrank(r)
           n == NKids(v)
           t == total_recv[r]
<1>7. v \in Rank /\ v \in Nat /\ n \in Nat /\ Len(tree_next(r)) = n /\ size \in Nat /\ vrank(root) = 0
  BY <1>1, RanksTurn, ChildIs DEF InTree, Rank
<1>8. gi[r] \in Nat /\ gi[r] >= 1 /\ gi[r] <= n + 1 /\ t = Off(v, gi[r] - 1) /\ Collected(r)
  BY <1>1, <1>2 DEF GatherAt, GatherTypes
<1>9. gi[r] = n + 1 /\ r # root
  <2>1. CASE gpc[r] = "send"
    <3>1. v % 2 = 1
      BY <1>1, <2>1 DEF GatherAt
    <3>2. n = 0 /\ v # 0
      BY <1>1, <1>7, <3>1, OddIsLeaf
    <3> QED
      BY <1>7, <1>8, <3>2
  <2>2. CASE gpc[r] # "send"
    <3> HIDE DEF n
    <3> QED
      BY <1>2, <1>7, <1>8, <2>2
  <2> QED
    BY <2>1, <2>2
<1>10. t = Width(v) /\ t \in Nat /\ t <= size - v
  <2>1. (n + 1) - 1 = n
    BY <1>7
  <2>2. t = Width(v)
    BY <1>8, <1>9, <2>1 DEF Width
  <2> QED
    BY <1>1, <1>7, <2>2, WidthIs
<1>11. [k \in 1 .. t |-> gptmp[r][k - 1]] = Piece(r)
  <2>1. Piece(r) = [k \in 1 .. t |-> rank(v + k - 1)]
    BY <1>10 DEF Piece
  <2>2. ASSUME NEW k \in 1 .. t PROVE gptmp[r][k - 1] = rank(v + k - 1)
    <3>1. k - 1 \in Rank /\ k - 1 < t /\ v + (k - 1) = v + k - 1
      BY <1>7, <1>10 DEF Rank
    <3>2. gptmp[r][k - 1] = rank(v + (k - 1))
      BY <1>8, <3>1 DEF Collected
    <3> QED
      BY <3>1, <3>2
  <2> HIDE DEF t, v
  <2> QED
    BY <2>1, <2>2
<1>12. gwire' = [gwire EXCEPT ![r] = Piece(r)]
  BY <1>2, <1>11
<1>4. GatherTypes'
  BY <1>1, <1>2, <1>3, <1>12, PiecesAre DEF GatherTypes, Places
<1>6. ASSUME NEW q \in Rank PROVE GatherAt(q)'
  <2>1. CASE q = r
    <3>1. gpc'[r] \in {"done", "wait"} /\ gwire'[r] = Piece(r)
      BY <1>1, <1>2, <1>12 DEF GatherTypes
    <3>2. Collected(r)'
      BY <1>1, <1>2, <1>5, <1>8, CollectedStays
    <3> QED
      BY <1>2, <1>3, <1>8, <1>9, <2>1, <3>1, <3>2 DEF GatherAt
  <2>2. CASE q # r
    <3>1. /\ gpc'[q] = gpc[q] /\ gptmp'[q] = gptmp[q] /\ total_recv'[q] = total_recv[q]
          /\ gi'[q] = gi[q] /\ gwire'[q] = gwire[q]
      BY <1>1, <1>2, <2>2 DEF GatherTypes
    <3>2. GatherAt(q)
      BY <1>1
    <3>3. gpc[q] # "out" => Collected(q)'
      BY <1>2, <1>5, <3>1, <3>2, CollectedStays DEF GatherAt
    <3> QED
      BY <1>2, <1>3, <3>1, <3>2, <3>3 DEF GatherAt
  <2> QED
    BY <2>1, <2>2
<1> QED
  BY <1>1, <1>3, <1>4, <1>6 DEF GatherInv

\* A process puts the piece of each child where its own piece has it.
LEMMA GatherRecv ==
  ASSUME GatherInv, NEW r \in Rank, G!Recv(r)
  PROVE  GatherInv'
<1> DEFINE v == vrank(r)
           a == gi[r]
           kid == tree_next(r)[a]
           t == total_recv[r]
           w == Width(vrank(kid))
           data == gwire[kid]
           new == [k \in Rank |-> IF k - t + 1 \in DOMAIN data THEN data[k - t + 1] ELSE gptmp[r][k]]
<1>1. InTree /\ GatherTypes /\ GatherAt(r) /\ (\A q \in Rank : GatherAt(q)) /\ root \in Rank
  BY DEF GatherInv, InTree
<1>2. /\ gpc[r] = "recv" /\ a <= Len(tree_next(r)) /\ data # <<>>
      /\ gwire' = [gwire EXCEPT ![kid] = <<>>]
      /\ t + Len(data) <= size => /\ gptmp' = [gptmp EXCEPT ![r] = new]
                                  /\ total_recv' = [total_recv EXCEPT ![r] = @ + Count(r, kid)]
                                  /\ gi' = [gi EXCEPT ![r] = @ + 1]
                                  /\ gpc' = gpc
      /\ size' = size /\ root' = root /\ grbuf' = grbuf
  <2>1. /\ gpc[r] = "recv" /\ a <= Len(tree_next(r)) /\ data # <<>>
        /\ gwire' = [gwire EXCEPT ![kid] = <<>>] /\ size' = size /\ root' = root /\ grbuf' = grbuf
    BY GatherNames DEF G!Recv, G!NoMessage
  <2>2. ASSUME t + Len(data) <= size
        PROVE  /\ gptmp' = [gptmp EXCEPT ![r] = [k \in Rank |-> IF k - t + 1 \in DOMAIN data
                                                                  THEN data[k - t + 1] ELSE @[k]]]
               /\ total_recv' = [total_recv EXCEPT ![r] = @ + Count(r, kid)]
               /\ gi' = [gi EXCEPT ![r] = @ + 1]
               /\ gpc' = gpc
    BY <2>2, GatherNames DEF G!Recv
  <2> QED
    BY <2>1, <2>2
<1>3. /\ Rank' = Rank /\ InTree' = InTree
      /\ \A q : /\ vrank(q)' = vrank(q) /\ Piece(q)' = Piece(q) /\ NKids(q)' = NKids(q)
                /\ rank(q)' = rank(q)
      /\ \A q, k : Off(q, k)' = Off(q, k)
  BY <1>2, TreeStays
<1>4. /\ a \in Nat /\ a >= 1 /\ t \in Nat /\ t = Off(v, a - 1) /\ Collected(r)
  BY <1>1, <1>2 DEF GatherAt, GatherTypes
<1>5. a \in 1 .. NKids(v) /\ NKids(v) \in Nat
  BY <1>1, <1>2, <1>4, ChildIs
<1>6. /\ kid \in Rank /\ kid # root /\ vrank(kid) = v + t
      /\ Count(r, kid) = w /\ Off(v, a) = t + w /\ Off(v, a) <= Width(v) /\ t >= 1
  BY <1>1, <1>4, <1>5, ChildIs, PartIs
<1>7. /\ data = Piece(kid) /\ gpc[kid] \in {"wait", "done"} /\ gpc[kid] # "out"
      /\ total_recv[kid] = w /\ Collected(kid)
  <2>1. GatherAt(kid)
    BY <1>1, <1>6
  <2>2. data = Piece(kid) /\ gpc[kid] \in {"wait", "done"} /\ gi[kid] = NKids(vrank(kid)) + 1
    BY <1>2, <2>1 DEF GatherAt
  <2>3. total_recv[kid] = Off(vrank(kid), gi[kid] - 1) /\ Collected(kid)
    BY <2>1, <2>2 DEF GatherAt
  <2>4. NKids(vrank(kid)) \in Nat
    BY <1>1, <1>6, ChildIs
  <2>5. gi[kid] - 1 = NKids(vrank(kid))
    BY <2>2, <2>4
  <2> QED
    BY <2>2, <2>3, <2>5 DEF Width
<1>8. /\ Len(data) = w /\ w \in Nat /\ w >= 1 /\ DOMAIN data = 1 .. w
      /\ \A j \in 1 .. w : data[j] = rank(vrank(kid) + j - 1) /\ data[j] \in Rank
  <2>1. Len(data) = w /\ w \in Nat /\ w >= 1
    BY <1>1, <1>6, <1>7, PieceIs
  <2>2. data = [k \in 1 .. w |-> rank(vrank(kid) + k - 1)]
    BY <1>7 DEF Piece
  <2>3. data \in Seq(Rank)
    BY <1>1, <1>6, <1>7, PiecesAre
  <2> QED
    BY <2>1, <2>2, <2>3, ElementOfSeq
<1>9. v \in Rank /\ v \in Nat /\ size \in Nat /\ Rank = 0 .. (size - 1) /\ Width(v) \in Nat /\ Width(v) <= size - v
  BY <1>1, RanksTurn, WidthIs DEF InTree, Rank
<1>10. t + Len(data) <= size
  BY <1>4, <1>6, <1>8, <1>9
<1> HIDE DEF a, t, w, data, kid, v
<1>11. /\ gptmp' = [gptmp EXCEPT ![r] = new] /\ total_recv' = [total_recv EXCEPT ![r] = t + w]
       /\ gi' = [gi EXCEPT ![r] = a + 1] /\ gpc' = gpc
  BY <1>1, <1>2, <1>6, <1>10 DEF GatherTypes, a, t
<1>12. ASSUME NEW k \in Rank
       PROVE  /\ k < t => new[k] = gptmp[r][k]
              /\ t <= k /\ k < t + w => new[k] = rank(v + k)
              /\ new[k] \in Rank \cup {-1}
  <2>1. gptmp[r][k] \in Rank \cup {-1} /\ k \in Nat
    BY <1>1, <1>9 DEF GatherTypes
  <2>2. CASE k - t + 1 \in 1 .. w
    <3> DEFINE j == k - t + 1
    <3>1. new[k] = data[j] /\ j \in 1 .. w
      BY <1>8, <2>2
    <3>2. vrank(kid) + j - 1 = v + k
      BY <1>4, <1>6, <1>9, <2>1
    <3>3. data[j] = rank(v + k) /\ data[j] \in Rank
      BY <1>8, <3>1, <3>2
    <3>4. ~(k < t)
      BY <1>4, <2>1, <2>2
    <3> QED
      BY <3>1, <3>3, <3>4
  <2>3. CASE k - t + 1 \notin 1 .. w
    <3>1. new[k] = gptmp[r][k]
      BY <1>8, <2>3
    <3>2. ~(t <= k /\ k < t + w)
      BY <1>4, <1>8, <2>1, <2>3
    <3> QED
      BY <2>1, <3>1, <3>2
  <2> QED
    BY <2>2, <2>3
<1>13. new \in [Rank -> Rank \cup {-1}]
  <2>1. new = [k \in Rank |-> new[k]]
    OBVIOUS
  <2> HIDE DEF new
  <2> QED
    BY <1>12, <2>1
<1> HIDE DEF new
<1>14. GatherTypes'
  <2>1. t + w \in Nat /\ a + 1 \in Nat \ {0} /\ <<>> \in Seq(Rank)
    BY <1>4, <1>8
  <2>2. gwire' \in [Rank -> Seq(Rank)]
    BY <1>1, <1>2, <2>1 DEF GatherTypes
  <2>3. total_recv' \in [Rank -> Nat] /\ gi' \in [Rank -> Nat \ {0}]
    BY <1>1, <1>11, <2>1 DEF GatherTypes
  <2>4. gptmp' \in [Rank -> [Rank -> Rank \cup {-1}]]
    BY <1>1, <1>11, <1>13 DEF GatherTypes
  <2> QED
    BY <1>1, <1>2, <1>3, <1>11, <2>2, <2>3, <2>4 DEF GatherTypes
<1>15. ASSUME NEW k \in Rank, k < t + w PROVE new[k] = rank(v + k) /\ gpc[rank(v + k)] # "out"
  <2>1. CASE k < t
    BY <1>4, <1>12, <2>1 DEF Collected, t, v
  <2>2. CASE ~(k < t)
    <3> DEFINE j == k - t
    <3>1. j \in Rank /\ j < w /\ vrank(kid) + j = v + k
      <4>1. k \in Nat /\ k < size
        BY <1>9, <1>15
      <4>2. j \in Rank /\ j < w
        BY <1>4, <1>8, <1>9, <1>15, <2>2, <4>1
      <4>3. (v + t) + j = v + k
        BY <1>4, <1>9, <4>1
      <4> QED
        BY <1>6, <4>2, <4>3
    <3>2. gpc[rank(vrank(kid) + j)] # "out"
      BY <1>7, <3>1 DEF Collected
    <3>3. new[k] = rank(v + k)
      BY <1>4, <1>9, <1>12, <1>15, <2>2
    <3> QED
      BY <3>1, <3>2, <3>3
  <2> QED
    BY <2>1, <2>2
<1>16. ASSUME NEW q \in Rank
       PROVE  gwire'[q] # <<>> => gpc[q] \in {"wait", "done"} /\ q # root /\ gwire'[q] = Piece(q)
  <2>1. gwire'[q] = <<>> \/ gwire'[q] = gwire[q]
    BY <1>1, <1>2 DEF GatherTypes
  <2> QED
    BY <1>1, <2>1 DEF GatherAt
<1>17. ASSUME NEW q \in Rank PROVE GatherAt(q)'
  <2>1. CASE q = r
    <3>1. gptmp'[r] = new /\ total_recv'[r] = t + w /\ gi'[r] = a + 1 /\ gpc'[r] = "recv"
      BY <1>1, <1>2, <1>11 DEF GatherTypes
    <3>2. Collected(r)'
      BY <1>3, <1>11, <1>15, <3>1 DEF Collected, v
    <3>3. a + 1 <= NKids(v) + 1 /\ t + w = Off(v, (a + 1) - 1)
      <4>1. (a + 1) - 1 = a
        BY <1>4
      <4> QED
        BY <1>4, <1>5, <1>6, <4>1
    <3> QED
      BY <1>2, <1>3, <1>16, <2>1, <3>1, <3>2, <3>3 DEF GatherAt, v
  <2>2. CASE q # r
    <3>1. gpc'[q] = gpc[q] /\ gptmp'[q] = gptmp[q] /\ total_recv'[q] = total_recv[q] /\ gi'[q] = gi[q]
      BY <1>1, <1>11, <2>2 DEF GatherTypes
    <3>2. GatherAt(q)
      BY <1>1
    <3>3. gpc[q] # "out" => Collected(q)'
      BY <1>2, <1>11, <3>1, <3>2, CollectedStays DEF GatherAt
    <3> QED
      BY <1>2, <1>3, <1>11, <1>16, <3>1, <3>2, <3>3 DEF GatherAt
  <2> QED
    BY <2>1, <2>2
<1> QED
  BY <1>1, <1>3, <1>14, <1>17 DEF GatherInv

\* The root returns with everything, from everybody, in the order of the ranks.
LEMMA RootHasAll ==
  ASSUME GatherInv, gpc[root] = "recv", G!HeardAll(root)
  PROVE  (\A r \in Rank : gpc[r] # "out") /\ G!Unrotated = [k \in Rank |-> k]
<1> DEFINE n == NKids(0)
<1>1. InTree /\ GatherTypes /\ GatherAt(root) /\ vrank(root) = 0 /\ root \in Rank /\ 0 \in Rank
  BY RanksTurn DEF GatherInv
<1>2. size \in Nat /\ Rank = 0 .. (size - 1) /\ root \in Nat /\ root < size
  BY <1>1 DEF InTree, Rank
<1>3. gi[root] > Len(tree_next(root)) /\ Len(tree_next(root)) = n /\ n \in Nat
  BY <1>1, GatherNames, ChildIs DEF G!HeardAll
<1>4. gi[root] \in Nat /\ gi[root] <= n + 1 /\ total_recv[root] = Off(0, gi[root] - 1) /\ Collected(root)
  BY <1>1 DEF GatherAt, GatherTypes
<1> HIDE DEF n
<1>5. gi[root] - 1 = n
  BY <1>3, <1>4
<1>6. total_recv[root] = size
  BY <1>1, <1>4, <1>5, WidthIs DEF Width, n
<1>7. ASSUME NEW k \in Rank PROVE gptmp[root][k] = rank(k) /\ gpc[rank(k)] # "out"
  <2>1. k < size /\ 0 + k = k
    BY <1>2
  <2> QED
    BY <1>1, <1>4, <1>6, <2>1 DEF Collected
<1>8. ASSUME NEW r \in Rank PROVE gpc[r] # "out"
  <2>1. vrank(r) \in Rank /\ rank(vrank(r)) = r
    BY <1>1, RanksTurn
  <2> QED
    BY <1>7, <2>1
<1>9. ASSUME NEW k \in Rank
      PROVE  (IF k >= root THEN gptmp[root][k - root] ELSE gptmp[root][(size - root) + k]) = k
  <2>1. CASE k >= root
    <3>1. k - root \in Rank /\ vrank(k) = k - root
      BY <1>1, <1>2, <2>1, VrankIs
    <3>2. rank(k - root) = k
      BY <1>1, <3>1, RanksTurn
    <3> QED
      BY <1>7, <2>1, <3>1, <3>2
  <2>2. CASE ~(k >= root)
    <3>1. (size - root) + k \in Rank /\ k - root + size = (size - root) + k
      BY <1>2, <2>2
    <3>2. vrank(k) = (size - root) + k
      BY <1>1, <2>2, <3>1, VrankIs
    <3>3. rank((size - root) + k) = k
      BY <1>1, <3>2, RanksTurn
    <3> QED
      BY <1>7, <2>2, <3>1, <3>3
  <2> QED
    BY <2>1, <2>2
<1>10. G!Unrotated = [k \in Rank |-> IF k >= root THEN gptmp[root][k - root] ELSE gptmp[root][(size - root) + k]]
  BY GatherNames DEF G!Unrotated
<1> QED
  BY <1>8, <1>9, <1>10

LEMMA GatherReturnRoot ==
  ASSUME GatherInv, G!ReturnRoot
  PROVE  GatherInv'
<1> DEFINE r == root
<1>1. InTree /\ GatherTypes /\ GatherAt(r) /\ (\A q \in Rank : GatherAt(q)) /\ root \in Rank
  BY DEF GatherInv, InTree
<1>2. /\ gpc[r] = "recv" /\ gi[r] > Len(tree_next(r)) /\ gpc' = [gpc EXCEPT ![r] = "done"]
      /\ grbuf' = [k \in Rank |-> k]
      /\ size' = size /\ root' = root /\ gptmp' = gptmp /\ total_recv' = total_recv
      /\ gi' = gi /\ gwire' = gwire
  BY GatherNames, RootHasAll DEF G!ReturnRoot, G!Goto, G!HeardAll
<1>3. /\ Rank' = Rank /\ InTree' = InTree
      /\ \A q : /\ vrank(q)' = vrank(q) /\ Piece(q)' = Piece(q) /\ NKids(q)' = NKids(q)
                /\ rank(q)' = rank(q)
      /\ \A q, k : Off(q, k)' = Off(q, k)
  BY <1>2, TreeStays
<1>4. GatherTypes'
  BY <1>1, <1>2, <1>3 DEF GatherTypes, Places
<1>5. \A q \in Rank : gpc[q] # "out" => gpc'[q] # "out"
  BY <1>1, <1>2 DEF GatherTypes
<1>6. ASSUME NEW q \in Rank PROVE GatherAt(q)'
  <2>1. CASE q = r
    <3>1. gpc'[r] = "done"
      BY <1>1, <1>2 DEF GatherTypes
    <3>2. Collected(r)'
      BY <1>1, <1>2, <1>5, CollectedStays DEF GatherAt
    <3>3. gi[r] = NKids(vrank(r)) + 1 /\ gwire[r] = <<>>
      <4>1. Len(tree_next(r)) = NKids(vrank(r)) /\ NKids(vrank(r)) \in Nat
        BY <1>1, ChildIs
      <4>2. gi[r] <= NKids(vrank(r)) + 1 /\ gi[r] \in Nat /\ gwire[r] = <<>>
        BY <1>1, <1>2 DEF GatherAt, GatherTypes
      <4> QED
        BY <1>2, <4>1, <4>2
    <3> QED
      BY <1>1, <1>2, <1>3, <2>1, <3>1, <3>2, <3>3 DEF GatherAt
  <2>2. CASE q # r
    <3>1. /\ gpc'[q] = gpc[q] /\ gptmp'[q] = gptmp[q] /\ total_recv'[q] = total_recv[q]
          /\ gi'[q] = gi[q] /\ gwire'[q] = gwire[q]
      BY <1>1, <1>2, <2>2 DEF GatherTypes
    <3>2. GatherAt(q)
      BY <1>1
    <3>3. gpc[q] # "out" => Collected(q)'
      BY <1>2, <1>5, <3>1, <3>2, CollectedStays DEF GatherAt
    <3> QED
      BY <1>2, <1>3, <3>1, <3>2, <3>3 DEF GatherAt
  <2> QED
    BY <2>1, <2>2
<1> QED
  BY <1>1, <1>3, <1>4, <1>6 DEF GatherInv

\* Steps of the scatter change nothing of the gather.
LEMMA GatherStays ==
  ASSUME GatherInv, UNCHANGED <<size, root, gvars>>
  PROVE  GatherInv'
<1>1. InTree /\ GatherTypes /\ \A q \in Rank : GatherAt(q)
  BY DEF GatherInv
<1>2. /\ gpc' = gpc /\ gptmp' = gptmp /\ total_recv' = total_recv /\ gi' = gi /\ grbuf' = grbuf
      /\ gwire' = gwire /\ size' = size /\ root' = root
  BY DEF gvars
<1>3. /\ Rank' = Rank /\ InTree' = InTree
      /\ \A q : /\ vrank(q)' = vrank(q) /\ Piece(q)' = Piece(q) /\ NKids(q)' = NKids(q)
                /\ rank(q)' = rank(q)
      /\ \A q, k : Off(q, k)' = Off(q, k)
  BY <1>2, TreeStays
<1>4. GatherTypes'
  BY <1>1, <1>2, <1>3 DEF GatherTypes
<1>5. ASSUME NEW q \in Rank PROVE GatherAt(q)'
  <2>1. GatherAt(q) /\ (gpc[q] # "out" => Collected(q)')
    BY <1>1, <1>2, CollectedStays DEF GatherAt
  <2> QED
    BY <1>2, <1>3, <2>1 DEF GatherAt
<1> QED
  BY <1>1, <1>3, <1>4, <1>5 DEF GatherInv

\* A step of MPI_Scatter leaves the communicator as it is.
LEMMA ScatterLeaves ==
  ASSUME Scatter \/ UNCHANGED vars
  PROVE  UNCHANGED <<size, root, gvars>>
<1>1. CASE UNCHANGED vars
  BY <1>1 DEF vars
<1>2. CASE S!CallRoot /\ UNCHANGED gvars
  BY <1>2 DEF S!CallRoot
<1>3. CASE (\E r \in Rank : S!Running(r)) /\ UNCHANGED gvars
  <2>1. PICK r \in Rank : S!Running(r)
    BY <1>3
  <2> QED
    BY <1>3, <2>1 DEF S!Running, S!Call, S!RecvLeaf, S!RecvInner, S!Send, S!SendReturns, S!Return
<1> QED
  BY <1>1, <1>2, <1>3 DEF Scatter

LEMMA GatherNext == GatherInv /\ [Next]_vars => GatherInv'
<1> SUFFICES ASSUME GatherInv, [Next]_vars PROVE GatherInv'
  OBVIOUS
<1>1. CASE Scatter \/ UNCHANGED vars
  BY <1>1, ScatterLeaves, GatherStays
<1>2. CASE G!ReturnRoot
  BY <1>2, GatherReturnRoot
<1>3. CASE \E r \in Rank : spc[r] = "done" /\ G!Running(r)
  <2>1. PICK r \in Rank : G!Running(r)
    BY <1>3
  <2> QED
    BY <2>1, GatherCall, GatherRecv, GatherSend, GatherSendReturns DEF G!Running
<1> QED
  BY <1>1, <1>2, <1>3 DEF Next, Gather, Stopped

\* What a process of the gather has collected is always the beginning of its piece,
\* and everybody in it has called.
THEOREM GatherInvHolds == Spec => []GatherInv
BY GatherStarts, GatherNext, PTL DEF Spec

LEMMA GatherMessages == GatherInv => G!MessageIsSubtree
<1> SUFFICES ASSUME GatherInv, NEW r \in Rank, gwire[r] # <<>>
             PROVE  Len(gwire[r]) = Count(tree_prev(r), r) /\ ToSet(gwire[r]) = Subtree(r)
  BY GatherNames DEF G!MessageIsSubtree, G!NoMessage
<1>1. InTree /\ gwire[r] = Piece(r) /\ r # root
  BY DEF GatherInv, GatherAt
<1> QED
  BY <1>1, PieceIs, PrevOf

LEMMA GatherPromiseStarts == Init => G!P!Init
BY DEF Init, G!Init, G!P!Init, G!P!Rank, G!Rank, G!Nothing, G!P!Nothing

\* What a program sees of the gather.
GCalled == {r \in Rank : gpc[r] # "out"}
GReturned == {r \in Rank : gpc[r] = "done"}

LEMMA GatherSeen ==
  /\ G!P!vars = <<size, root, GCalled, GReturned, grbuf>>
  /\ (G!P!vars)' = <<size, root, GCalled, GReturned, grbuf>>'
  /\ \A r : G!P!Call(r) <=> /\ r \notin GCalled
                           /\ GCalled' = GCalled \cup {r}
                           /\ UNCHANGED <<size, root, GReturned, grbuf>>
  /\ \A r : G!P!Return(r) <=> /\ r \in GCalled \ GReturned
                             /\ r # root
                             /\ GReturned' = GReturned \cup {r}
                             /\ UNCHANGED <<size, root, GCalled, grbuf>>
  /\ G!P!ReturnRoot <=> /\ root \notin GReturned
                        /\ GCalled = Rank
                        /\ GReturned' = GReturned \cup {root}
                        /\ grbuf' = [k \in Rank |-> k]
                        /\ UNCHANGED <<size, root, GCalled>>
<1>1. G!Rank = Rank /\ G!Rank' = Rank' /\ G!P!Rank = Rank
  BY DEF G!Rank, Rank, G!P!Rank
<1> QED
  BY <1>1 DEF G!P!vars, G!P!Call, G!P!Return, G!P!ReturnRoot, GCalled, GReturned

\* What a program sees when a process goes from one place of the call to another.
LEMMA GatherSees ==
  ASSUME GatherInv, NEW r \in Rank, NEW to \in Places \ {"out"},
         gpc' = [gpc EXCEPT ![r] = to], size' = size, root' = root
  PROVE  /\ GCalled' = GCalled \cup {r}
         /\ gpc[r] # "out" => GCalled' = GCalled
         /\ gpc[r] # "done" => GReturned' = IF to = "done" THEN GReturned \cup {r} ELSE GReturned
<1>1. gpc \in [Rank -> Places] /\ Rank' = Rank
  BY TreeStays DEF GatherInv, GatherTypes
<1>2. \A q \in Rank : gpc'[q] = IF q = r THEN to ELSE gpc[q]
  BY <1>1
<1>3. GCalled' = GCalled \cup {r}
  BY <1>1, <1>2 DEF GCalled
<1>4. gpc[r] # "out" => r \in GCalled
  BY DEF GCalled
<1>5. gpc[r] # "done" => GReturned' = IF to = "done" THEN GReturned \cup {r} ELSE GReturned
  BY <1>1, <1>2 DEF GReturned
<1> QED
  BY <1>3, <1>4, <1>5

LEMMA GatherUnseen ==
  ASSUME gpc' = gpc, grbuf' = grbuf, size' = size, root' = root
  PROVE  UNCHANGED G!P!vars
<1>1. Rank' = Rank
  BY DEF Rank
<1>2. GCalled' = GCalled /\ GReturned' = GReturned
  BY <1>1 DEF GCalled, GReturned
<1> QED
  BY <1>2, GatherSeen

LEMMA GatherPromiseNext ==
  ASSUME GatherInv, GatherInv', [Next]_vars
  PROVE  [G!P!Next]_(G!P!vars)
<1>1. GatherTypes /\ GatherTypes' /\ (\A q \in Rank : GatherAt(q)) /\ root \in Rank /\ InTree
  BY DEF GatherInv, InTree
<1>2. CASE Scatter \/ UNCHANGED vars
  BY <1>2, ScatterLeaves, GatherUnseen DEF gvars
<1>3. CASE G!ReturnRoot
  <2>1. /\ gpc[root] = "recv" /\ gpc' = [gpc EXCEPT ![root] = "done"] /\ size' = size /\ root' = root
        /\ grbuf' = [k \in Rank |-> k] /\ \A r \in Rank : gpc[r] # "out"
    BY <1>3, RootHasAll DEF G!ReturnRoot, G!Goto
  <2>2. GCalled = Rank /\ root \notin GReturned
    BY <2>1 DEF GCalled, GReturned
  <2>3. GCalled' = GCalled /\ GReturned' = GReturned \cup {root}
    BY <1>1, <2>1, <2>2, GatherSees DEF Places
  <2>4. G!P!ReturnRoot
    BY <2>1, <2>2, <2>3, GatherSeen
  <2> QED
    BY <2>4 DEF G!P!Next
<1>4. ASSUME NEW r \in Rank, G!Running(r) PROVE [G!P!Next]_(G!P!vars)
  <2>1. CASE G!Call(r)
    <3>1. /\ gpc[r] = "out" /\ size' = size /\ root' = root /\ grbuf' = grbuf
          /\ \E to \in {"send", "recv"} : gpc' = [gpc EXCEPT ![r] = to]
      BY <2>1 DEF G!Call, G!Goto
    <3>2. r \notin GCalled
      BY <3>1 DEF GCalled
    <3>3. GCalled' = GCalled \cup {r} /\ GReturned' = GReturned
      BY <3>1, GatherSees DEF Places
    <3>4. G!P!Call(r)
      BY <3>1, <3>2, <3>3, GatherSeen
    <3> QED
      BY <3>4 DEF G!P!Next, G!P!Rank, Rank
  <2>2. CASE G!Recv(r)
    <3>1. /\ gpc[r] = "recv" /\ size' = size /\ root' = root /\ grbuf' = grbuf
          /\ gpc' = gpc \/ gpc' = [gpc EXCEPT ![r] = "failed"]
      BY <2>2 DEF G!Recv, G!Goto
    <3>2. gpc' = gpc
      <4>1. gpc' \in [Rank -> Places]
        BY <1>1, <3>1 DEF GatherTypes, Rank
      <4>2. gpc' # [gpc EXCEPT ![r] = "failed"]
        BY <1>1, <4>1 DEF GatherTypes, Places
      <4> QED
        BY <3>1, <4>2
    <3> QED
      BY <3>1, <3>2, GatherUnseen
  <2>3. CASE G!Send(r)
    <3>1. /\ gpc[r] = "send" \/ (gpc[r] = "recv" /\ r # root)
          /\ size' = size /\ root' = root /\ grbuf' = grbuf
          /\ \E to \in {"done", "wait"} : gpc' = [gpc EXCEPT ![r] = to]
      BY <2>3 DEF G!Send, G!Goto
    <3>2. r # root /\ gpc[r] \notin {"out", "done"}
      <4>1. gpc[r] = "send" => vrank(r) % 2 = 1
        BY <1>1 DEF GatherAt
      <4>2. vrank(root) % 2 # 1
        BY <1>1, RanksTurn
      <4> QED
        BY <3>1, <4>1, <4>2
    <3>3. r \in GCalled \ GReturned
      BY <3>2 DEF GCalled, GReturned
    <3>4. GCalled' = GCalled /\ (GReturned' = GReturned \/ GReturned' = GReturned \cup {r})
      <4>1. PICK to \in {"done", "wait"} : gpc' = [gpc EXCEPT ![r] = to]
        BY <3>1
      <4> QED
        BY <3>1, <3>2, <3>3, <4>1, GatherSees DEF Places
    <3>5. UNCHANGED G!P!vars \/ G!P!Return(r)
      BY <3>1, <3>2, <3>3, <3>4, GatherSeen
    <3> QED
      BY <3>5 DEF G!P!Next, G!P!Rank, Rank
  <2>4. CASE G!SendReturns(r)
    <3>1. gpc[r] = "wait" /\ gpc' = [gpc EXCEPT ![r] = "done"] /\ size' = size /\ root' = root /\ grbuf' = grbuf
      BY <2>4 DEF G!SendReturns, G!Goto
    <3>2. r # root /\ r \in GCalled \ GReturned
      BY <1>1, <3>1 DEF GatherAt, GCalled, GReturned
    <3>3. GCalled' = GCalled /\ GReturned' = GReturned \cup {r}
      BY <3>1, <3>2, GatherSees DEF Places
    <3>4. G!P!Return(r)
      BY <3>1, <3>2, <3>3, GatherSeen
    <3> QED
      BY <3>4 DEF G!P!Next, G!P!Rank, Rank
  <2> QED
    BY <1>4, <2>1, <2>2, <2>3, <2>4 DEF G!Running
<1> QED
  BY <1>2, <1>3, <1>4 DEF Next, Gather, Stopped

\* MPI_Gather returns at the root when all have called it, with their elements in the
\* order of the ranks (coll_base_gather.c:170-181).
THEOREM GatherKept == Spec => G!ImplementsGatherPromise
<1>1. Init => G!P!Init
  BY GatherPromiseStarts
<1>2. GatherInv /\ GatherInv' /\ [Next]_vars => [G!P!Next]_(G!P!vars)
  BY GatherPromiseNext
<1> QED
  BY <1>1, <1>2, GatherInvHolds, PTL DEF Spec, G!ImplementsGatherPromise, G!P!Spec

-----------------------------------------------------------------------------
(* The properties.                                                         *)

\* Every message of both calls holds the subtree of its child, all of it and nothing
\* else: the counts that are computed from the vranks agree with the tree that is
\* computed from their bits (coll_base_topo.c:436-453).
THEOREM MessagesAreSubtrees == Spec => []MessageIsSubtree
<1>1. ScatterInv /\ GatherInv => MessageIsSubtree
  BY ScatterMessages, GatherMessages DEF MessageIsSubtree
<1> QED
  BY <1>1, ScatterInvHolds, GatherInvHolds, PTL

\* The two calls one after the other keep both promises, although a process may be
\* in the second while its parent is in the first.
THEOREM PromisesKept == Spec => KeepsPromises
BY ScatterKept, GatherKept DEF KeepsPromises

\* No call of the two returns an error: every message fits where it is received.
THEOREM NobodyFails == Spec => [](\A r \in Rank : spc[r] # "failed" /\ gpc[r] # "failed")
<1>1. ScatterInv /\ GatherInv => \A r \in Rank : spc[r] # "failed" /\ gpc[r] # "failed"
  BY DEF ScatterInv, ScatterTypes, GatherInv, GatherTypes, Places
<1> QED
  BY <1>1, ScatterInvHolds, GatherInvHolds, PTL
=============================================================================
