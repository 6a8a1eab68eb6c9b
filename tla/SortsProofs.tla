----------------------------- MODULE SortsProofs -----------------------------
(***************************************************************************)
(* What Sorts promises, proved for arrays of every length, every integer,  *)
(* and every width of an int and of a digit.                               *)
(***************************************************************************)
EXTENDS Sorts, FiniteSetTheorems, SequenceTheorems, WellFoundedInduction, TLAPS

-----------------------------------------------------------------------------
(* Arrays.                                                                 *)

\* The array of n elements.
IsArray(l, k, V) == k \in Nat /\ l \in [0 .. (k - 1) -> V]

Size(l) == Cardinality(DOMAIN l)

LEMMA ArraySize ==
  ASSUME NEW l, NEW k, NEW V, IsArray(l, k, V)
  PROVE  DOMAIN l = 0 .. (k - 1) /\ Cardinality(DOMAIN l) = k
<1>1. DOMAIN l = 0 .. (k - 1) /\ k \in Nat
  BY DEF IsArray
<1>2. Cardinality(0 .. (k - 1)) = k
  <2>1. CASE k = 0
    BY <2>1, FS_EmptySet, FS_Interval
  <2>2. CASE k # 0
    <3>1. k - 1 \in Int /\ 0 \in Int /\ 0 <= k - 1
      BY <1>1, <2>2
    <3>2. Cardinality(0 .. (k - 1)) = IF 0 > k - 1 THEN 0 ELSE (k - 1) - 0 + 1
      BY <3>1, FS_Interval
    <3> QED
      BY <1>1, <3>1, <3>2
  <2> QED
    BY <2>1, <2>2
<1> QED
  BY <1>1, <1>2

\* The sizes that the instances speak of.
LEMMA SameCardinality ==
  ASSUME NEW X
  PROVE  /\ L!Cardinality(X) = Cardinality(X) /\ M!Cardinality(X) = Cardinality(X)
         /\ I!Cardinality(X) = Cardinality(X) /\ R!Cardinality(X) = Cardinality(X)
BY DEF L!Cardinality, M!Cardinality, I!Cardinality, R!Cardinality, Cardinality

InOrderFrom(l, a, b) == \A j1, k1 \in a .. b : j1 < k1 => l[j1] <= l[k1]

-----------------------------------------------------------------------------
(* Rearrangements.                                                         *)

\* h holds what l holds, in places of its own.
Permutes(p, D) ==
  /\ p \in [D -> D]
  /\ \A a, b \in D : p[a] = p[b] => a = b
  /\ \A b \in D : \E a \in D : p[a] = b

Rearranged(l, h) ==
  /\ DOMAIN h = DOMAIN l
  /\ \E p : Permutes(p, DOMAIN l) /\ \A a \in DOMAIN l : h[a] = l[p[a]]

LEMMA RearrangedSelf ==
  ASSUME NEW l PROVE Rearranged(l, l)
<1> DEFINE p == [a \in DOMAIN l |-> a]
<1>1. Permutes(p, DOMAIN l) /\ \A a \in DOMAIN l : l[a] = l[p[a]]
  BY DEF Permutes
<1> HIDE DEF p
<1> QED
  BY <1>1 DEF Rearranged

LEMMA RearrangedTwice ==
  ASSUME NEW l, NEW h, NEW g, Rearranged(l, h), Rearranged(h, g)
  PROVE  Rearranged(l, g)
<1> DEFINE D == DOMAIN l
<1>1. DOMAIN h = D /\ DOMAIN g = D
  BY DEF Rearranged
<1>2. PICK p : Permutes(p, D) /\ \A a \in D : h[a] = l[p[a]]
  BY <1>1 DEF Rearranged
<1>3. PICK q : Permutes(q, D) /\ \A a \in D : g[a] = h[q[a]]
  BY <1>1 DEF Rearranged
<1> DEFINE r == [a \in D |-> p[q[a]]]
<1> HIDE DEF D
<1>4. \A a \in D : r[a] = p[q[a]] /\ q[a] \in D /\ p[q[a]] \in D /\ g[a] = l[r[a]]
  BY <1>2, <1>3 DEF Permutes
<1>5. r \in [D -> D]
  BY <1>4
<1> HIDE DEF r
<1>6. \A a, b \in D : r[a] = r[b] => a = b
  BY <1>2, <1>3, <1>4 DEF Permutes
<1>7. ASSUME NEW b \in D PROVE \E a \in D : r[a] = b
  <2>1. PICK c \in D : p[c] = b
    BY <1>2 DEF Permutes
  <2>2. PICK a \in D : q[a] = c
    BY <1>3 DEF Permutes
  <2> QED
    BY <1>4, <2>1, <2>2
<1>8. Permutes(r, D)
  BY <1>5, <1>6, <1>7 DEF Permutes
<1> QED
  BY <1>1, <1>4, <1>8 DEF Rearranged, D

\* Two elements in each other's place.
LEMMA RearrangedPair ==
  ASSUME NEW l, NEW h, NEW a \in DOMAIN l, NEW b \in DOMAIN l,
         DOMAIN h = DOMAIN l, h[a] = l[b], h[b] = l[a],
         \A c \in DOMAIN l : c # a /\ c # b => h[c] = l[c]
  PROVE  Rearranged(l, h)
<1> DEFINE D == DOMAIN l
           p == [c \in D |-> IF c = a THEN b ELSE IF c = b THEN a ELSE c]
<1>1. p \in [D -> D] /\ \A c \in D : p[c] = IF c = a THEN b ELSE IF c = b THEN a ELSE c
  OBVIOUS
<1>2. a \in D /\ b \in D
  OBVIOUS
<1>3. \A c \in D : h[c] = l[p[c]]
  BY <1>1
<1> HIDE DEF p, D
<1>4. \A c, d \in D : p[c] = p[d] => c = d
  BY <1>1
<1>5. \A d \in D : p[p[d]] = d /\ p[d] \in D
  BY <1>1, <1>2
<1>6. Permutes(p, D)
  BY <1>1, <1>4, <1>5 DEF Permutes
<1> QED
  BY <1>3, <1>6 DEF Rearranged, D

\* A rearrangement holds every value as often.
LEMMA RearrangedSame ==
  ASSUME NEW l, NEW h, NEW k, NEW V, IsArray(l, k, V), Rearranged(l, h)
  PROVE  S!SameValues(l, h) /\ S!SameValues(h, l)
<1> DEFINE D == DOMAIN l
<1>1. DOMAIN h = D
  BY DEF Rearranged
<1>2. PICK p : Permutes(p, D) /\ \A a \in D : h[a] = l[p[a]]
  BY DEF Rearranged
<1>3. D = 0 .. (k - 1) /\ k \in Nat
  BY ArraySize DEF IsArray
<1>4. IsFiniteSet(D)
  BY <1>3, FS_Interval
<1> HIDE DEF D
<1>5. ASSUME NEW v PROVE S!Occurrences(v, h) = S!Occurrences(v, l)
  <2> DEFINE A == {a \in D : h[a] = v}
             B == {b \in D : l[b] = v}
             f == [a \in A |-> p[a]]
  <2>1. f \in [A -> B] /\ \A a \in A : f[a] = p[a] /\ a \in D
    BY <1>2 DEF Permutes
  <2>2. \A a, b \in A : f[a] = f[b] => a = b
    BY <1>2, <2>1 DEF Permutes
  <2>3. ASSUME NEW b \in B PROVE \E a \in A : f[a] = b
    <3>1. PICK a \in D : p[a] = b
      BY <1>2 DEF Permutes
    <3>2. a \in A
      BY <1>2, <3>1
    <3> QED
      BY <2>1, <3>1, <3>2
  <2>4. IsFiniteSet(A)
    <3>1. A \in SUBSET D
      OBVIOUS
    <3> QED
      BY <1>4, <3>1, FS_Subset
  <2>5. S!Occurrences(v, h) = S!Cardinality(A) /\ S!Occurrences(v, l) = S!Cardinality(B)
    BY <1>1 DEF S!Occurrences, D
  <2> HIDE DEF A, B, f
  <2>6. f \in Bijection(A, B)
    BY <2>1, <2>2, <2>3 DEF Bijection, Injection, Surjection, IsInjective
  <2>7. Cardinality(A) = Cardinality(B)
    BY <2>4, <2>6, FS_Bijection DEF ExistsBijection
  <2> QED
    BY <2>5, <2>7 DEF S!Cardinality, Cardinality
<1> QED
  BY <1>1, <1>5 DEF S!SameValues, D

LEMMA RearrangedBack ==
  ASSUME NEW l, NEW h, Rearranged(l, h) PROVE Rearranged(h, l)
<1> DEFINE D == DOMAIN l
<1>1. DOMAIN h = D
  BY DEF Rearranged
<1>2. PICK p : Permutes(p, D) /\ \A a \in D : h[a] = l[p[a]]
  BY DEF Rearranged
<1> DEFINE q == [b \in D |-> CHOOSE a \in D : p[a] = b]
<1> HIDE DEF D
<1>3. \A b \in D : q[b] \in D /\ p[q[b]] = b
  BY <1>2 DEF Permutes
<1>4. q \in [D -> D]
  BY <1>3
<1> HIDE DEF q
<1>5. \A a \in D : q[p[a]] = a /\ p[a] \in D
  BY <1>2, <1>3 DEF Permutes
<1>6. Permutes(q, D)
  BY <1>3, <1>4, <1>5 DEF Permutes
<1>7. \A b \in D : l[b] = h[q[b]]
  BY <1>2, <1>3
<1> QED
  BY <1>1, <1>6, <1>7 DEF Rearranged, D

LEMMA RearrangedNumbers ==
  ASSUME NEW l, NEW h, Rearranged(l, h)
  PROVE  Rearranged([k \in DOMAIN l |-> Decimal[l[k]]], [k \in DOMAIN h |-> Decimal[h[k]]])
<1>1. DOMAIN h = DOMAIN l
  BY DEF Rearranged
<1>2. PICK p : Permutes(p, DOMAIN l) /\ \A a \in DOMAIN l : h[a] = l[p[a]]
  BY DEF Rearranged
<1>3. \A a \in DOMAIN l : p[a] \in DOMAIN l
  BY <1>2 DEF Permutes
<1> DEFINE f == [k \in DOMAIN l |-> Decimal[l[k]]]
           g == [k \in DOMAIN h |-> Decimal[h[k]]]
<1>4. DOMAIN f = DOMAIN l /\ DOMAIN g = DOMAIN l /\ \A a \in DOMAIN l : g[a] = f[p[a]]
  BY <1>1, <1>2, <1>3
<1> HIDE DEF f, g
<1>5. Rearranged(f, g)
  BY <1>2, <1>4 DEF Rearranged
<1> QED
  BY <1>5 DEF f, g

-----------------------------------------------------------------------------
(* Selection sort.                                                         *)

SelInv ==
  which = "select" =>
    /\ IsArray(list, L!n, Values)
    /\ i \in Nat /\ j \in Nat /\ min \in Nat /\ pc \in {"scan", "done"}
    /\ i < j /\ (i < L!n - 1 => j <= L!n)
    /\ pc = "done" => i >= L!n - 1
    /\ L!LeastFirst

LEMMA InitSelInv == Init => SelInv
<1> SUFFICES ASSUME Init, which = "select" PROVE SelInv
  BY DEF SelInv
<1>1. L!Init
  BY DEF Init
<1>2. PICK len \in 0 .. MaxLen : list \in [0 .. (len - 1) -> Values]
  BY <1>1 DEF L!Init
<1>3. IsArray(list, len, Values)
  BY <1>2, MaxLenAssumption DEF IsArray
<1>4. L!n = len /\ DOMAIN list = 0 .. (len - 1)
  BY <1>3, ArraySize, SameCardinality DEF L!n
<1>5. i = 0 /\ j = 1 /\ min = 0 /\ pc = "scan"
  BY <1>1 DEF L!Init
<1>6. \A k \in 0 .. (0 - 1) : FALSE
  OBVIOUS
<1>7. len \in Nat
  BY <1>3 DEF IsArray
<1>8. L!LeastFirst
  <2>1. \A k \in 0 .. (len - 1) : list[k] \in Int
    BY <1>2, <1>7, ValuesAssumption
  <2> QED
    BY <1>4, <1>5, <1>6, <1>7, <2>1 DEF L!LeastFirst
<1> QED
  BY <1>3, <1>4, <1>5, <1>7, <1>8 DEF SelInv

LEMMA ScanSelInv == SelInv /\ which = "select" /\ which' = which /\ L!Scan => SelInv'
<1> SUFFICES ASSUME SelInv, which = "select", L!Scan PROVE SelInv'
  BY DEF SelInv
<1> DEFINE n == L!n
<1>1. /\ n \in Nat /\ list \in [0 .. (n - 1) -> Values] /\ DOMAIN list = 0 .. (n - 1)
      /\ i \in Nat /\ j \in Nat /\ min \in Nat /\ pc = "scan" /\ i < j /\ i < n - 1 /\ j < n
      /\ list' = list /\ i' = i /\ j' = j + 1 /\ pc' = pc
      /\ min' = IF list[j] < list[min] THEN j ELSE min
      /\ IsArray(list, n, Values)
  BY DEF SelInv, IsArray, L!Scan, L!Least
<1>2. n' = n
  BY <1>1 DEF L!n
<1>3. /\ \A k \in 0 .. (i - 1), l \in DOMAIN list : k < l => list[k] <= list[l]
      /\ min \in i .. (j - 1) /\ \A k \in i .. (j - 1) : list[min] <= list[k]
  BY <1>1 DEF SelInv, L!LeastFirst
<1> HIDE DEF n
<1>4. \A k \in 0 .. (n - 1) : list[k] \in Int
  BY <1>1, ValuesAssumption
<1>5. min' \in i .. j /\ \A k \in i .. j : list[min'] <= list[k]
  <2>1. j \in 0 .. (n - 1) /\ min \in 0 .. (n - 1) /\ list[j] \in Int /\ list[min] \in Int
    BY <1>1, <1>3, <1>4
  <2>2. CASE list[j] < list[min]
    <3>1. min' = j
      BY <1>1, <2>2
    <3>2. ASSUME NEW k \in i .. j PROVE list[j] <= list[k]
      <4>1. k = j \/ k \in i .. (j - 1)
        BY <1>1
      <4>2. k \in 0 .. (n - 1) /\ list[k] \in Int
        BY <1>1, <1>4
      <4> QED
        BY <1>3, <2>1, <2>2, <4>1, <4>2
    <3> QED
      BY <1>1, <3>1, <3>2
  <2>3. CASE ~(list[j] < list[min])
    <3>1. min' = min
      BY <1>1, <2>3
    <3>2. ASSUME NEW k \in i .. j PROVE list[min] <= list[k]
      <4>1. k = j \/ k \in i .. (j - 1)
        BY <1>1
      <4> QED
        BY <1>3, <2>1, <2>3, <4>1
    <3> QED
      BY <1>1, <1>3, <3>1, <3>2
  <2> QED
    BY <2>2, <2>3
<1>6. j + 1 - 1 = j /\ min' \in Nat
  BY <1>1, <1>5
<1>7. L!LeastFirst'
  BY <1>1, <1>2, <1>3, <1>5, <1>6 DEF L!LeastFirst, n
<1> QED
  BY <1>1, <1>2, <1>6, <1>7 DEF SelInv, n

LEMMA SwapSelInv == SelInv /\ which = "select" /\ which' = which /\ L!Swap => SelInv'
<1> SUFFICES ASSUME SelInv, which = "select", L!Swap PROVE SelInv'
  BY DEF SelInv
<1> DEFINE n == L!n
<1>1. /\ n \in Nat /\ list \in [0 .. (n - 1) -> Values] /\ DOMAIN list = 0 .. (n - 1)
      /\ i \in Nat /\ j = n /\ min \in i .. (n - 1) /\ pc = "scan" /\ i < n - 1
      /\ i' = i + 1 /\ j' = i + 2 /\ min' = i + 1 /\ pc' = pc
      /\ \A k \in 0 .. (i - 1), l \in DOMAIN list : k < l => list[k] <= list[l]
      /\ \A k \in i .. (n - 1) : list[min] <= list[k]
  BY DEF SelInv, IsArray, L!Swap, L!LeastFirst
<1>2. list' = [list EXCEPT ![i] = list[min], ![min] = list[i]]
  <2>1. min # j
    BY <1>1
  <2> QED
    BY <2>1 DEF L!Swap, L!Exchanged
<1> HIDE DEF n
<1>3. /\ i \in 0 .. (n - 1) /\ min \in 0 .. (n - 1)
      /\ list' \in [0 .. (n - 1) -> Values]
      /\ list'[i] = list[min] /\ list'[min] = list[i]
      /\ \A k \in 0 .. (n - 1) : k # i /\ k # min => list'[k] = list[k]
  BY <1>1, <1>2
<1>4. IsArray(list', n, Values)
  BY <1>1, <1>3 DEF IsArray
<1>5. n' = n /\ DOMAIN list' = 0 .. (n - 1)
  BY <1>4, ArraySize, SameCardinality DEF n, L!n
<1>6. ASSUME NEW k \in 0 .. i, NEW l \in 0 .. (n - 1), k < l PROVE list'[k] <= list'[l]
  <2>1. CASE k = i
    <3>1. l \in i .. (n - 1) /\ i \in i .. (n - 1)
      BY <1>1, <1>6, <2>1
    <3> QED
      BY <1>1, <1>3, <1>6, <2>1, <3>1
  <2>2. CASE k # i
    <3>1. k \in 0 .. (i - 1) /\ k < i /\ k < min /\ k \in 0 .. (n - 1) /\ list'[k] = list[k]
      BY <1>1, <1>3, <2>2
    <3> QED
      BY <1>1, <1>3, <1>6, <3>1
  <2> QED
    BY <2>1, <2>2
<1>7. i + 1 - 1 = i /\ i + 2 - 1 = i + 1 /\ i + 1 < i + 2 /\ (i + 1 < n - 1 => i + 2 <= n) /\ i + 1 \in Nat
      /\ i + 2 \in Nat /\ \A k \in (i + 1) .. (i + 1) : k = i + 1
  BY <1>1
<1>8. \A k \in 0 .. (n - 1) : list'[k] \in Int
  BY <1>1, <1>3, ValuesAssumption
<1>9. L!LeastFirst'
  BY <1>1, <1>5, <1>6, <1>7, <1>8 DEF L!LeastFirst, n
<1> QED
  BY <1>1, <1>4, <1>5, <1>7, <1>9 DEF SelInv, n

LEMMA FinishSelInv == SelInv /\ which = "select" /\ L!Finish => SelInv' /\ S!InOrder(list)
<1> SUFFICES ASSUME SelInv, which = "select", L!Finish PROVE SelInv' /\ S!InOrder(list)
  OBVIOUS
<1>1. /\ list' = list /\ i' = i /\ j' = j /\ min' = min /\ pc' = "done" /\ i >= L!n - 1
  BY DEF L!Finish
<1>2. L!n' = L!n
  BY <1>1 DEF L!n
<1>3. SelInv'
  BY <1>1, <1>2 DEF SelInv, L!LeastFirst
<1>4. IsArray(list, L!n, Values) /\ i \in Nat /\ L!LeastFirst
  BY DEF SelInv
<1>5. L!n \in Nat /\ DOMAIN list = 0 .. (L!n - 1)
  BY <1>4 DEF IsArray
<1>6. \A k, l \in DOMAIN list : k < l => k \in 0 .. (i - 1)
  BY <1>1, <1>4, <1>5
<1>7. S!InOrder(list)
  BY <1>4, <1>6 DEF S!InOrder, L!LeastFirst
<1> QED
  BY <1>3, <1>7

LEMMA AgainSelInv == SelInv /\ which = "select" /\ L!Again => SelInv'
<1> SUFFICES ASSUME SelInv, which = "select", L!Again PROVE SelInv'
  OBVIOUS
<1>1. list' = list /\ i' = 0 /\ j' = 1 /\ min' = 0 /\ pc' = "scan"
  BY DEF L!Again
<1>2. L!n' = L!n
  BY <1>1 DEF L!n
<1>3. IsArray(list, L!n, Values) /\ L!n \in Nat /\ DOMAIN list = 0 .. (L!n - 1)
  BY DEF SelInv, IsArray
<1>4. \A k \in 0 .. (L!n - 1) : list[k] \in Int
  BY <1>3, ValuesAssumption DEF IsArray
<1>5. L!LeastFirst'
  BY <1>1, <1>2, <1>3, <1>4 DEF L!LeastFirst
<1> QED
  BY <1>1, <1>2, <1>3, <1>5 DEF SelInv

LEMMA NextSelInv == SelInv /\ [Next]_vars => SelInv'
<1> SUFFICES ASSUME SelInv, [Next]_vars, which' = "select" PROVE SelInv'
  BY DEF SelInv
<1>1. which = "select"
  BY DEF Next, Merge, Radix, Select, Insert, Again, Stopped, vars
<1>2. CASE Select
  <2>1. L!Scan \/ L!Swap \/ L!Finish
    BY <1>2 DEF Select, L!Next
  <2> QED
    BY <1>1, <2>1, ScanSelInv, SwapSelInv, FinishSelInv
<1>3. CASE Again
  BY <1>1, <1>3, AgainSelInv DEF Again
<1>4. CASE Stopped \/ UNCHANGED vars
  <2>1. list' = list /\ i' = i /\ j' = j /\ min' = min /\ pc' = pc
    BY <1>4 DEF Stopped, vars
  <2>2. L!n' = L!n
    BY <2>1 DEF L!n
  <2> QED
    BY <1>1, <2>1, <2>2 DEF SelInv, L!LeastFirst
<1> QED
  BY <1>1, <1>2, <1>3, <1>4 DEF Next, Merge, Radix, Insert

\* A step of selection sort rearranges the array.
LEMMA SelRearranges == SelInv /\ which = "select" /\ L!Next => Rearranged(list, list')
<1> SUFFICES ASSUME SelInv, which = "select", L!Next PROVE Rearranged(list, list')
  OBVIOUS
<1>1. CASE L!Swap
  <2> DEFINE n == L!n
  <2>1. /\ n \in Nat /\ DOMAIN list = 0 .. (n - 1) /\ i \in Nat /\ j = n /\ min \in i .. (n - 1) /\ i < n - 1
    BY <1>1 DEF SelInv, IsArray, L!Swap, L!LeastFirst
  <2> HIDE DEF n
  <2>2. min # j /\ i \in DOMAIN list /\ min \in DOMAIN list
    BY <2>1
  <2>3. list' = [list EXCEPT ![i] = list[min], ![min] = list[i]]
    BY <1>1, <2>2 DEF L!Swap, L!Exchanged
  <2>4. /\ DOMAIN list' = DOMAIN list /\ list'[i] = list[min] /\ list'[min] = list[i]
        /\ \A c \in DOMAIN list : c # i /\ c # min => list'[c] = list[c]
    BY <2>2, <2>3
  <2> QED
    BY <2>2, <2>4, RearrangedPair
<1>2. CASE L!Scan \/ L!Finish
  BY <1>2, RearrangedSelf DEF L!Scan, L!Finish
<1> QED
  BY <1>1, <1>2 DEF L!Next

-----------------------------------------------------------------------------
(* Insertion sort.                                                         *)

\* The script, called with a last word that does nothing in the test of while.
Called == which = "insert" /\ I!Harmless

\* The words of the array, the one in hand in its place.
Held == CASE pc = "refused" -> params
          [] pc = "shift"   -> [list EXCEPT ![j + 1] = x]
          [] OTHER          -> list

\* The words before idx have been checked, those behind it not been touched.
Checked ==
  pc # "refused" =>
    /\ IsArray(list, Size(params), Words)
    /\ idx \in 0 .. Size(params)
    /\ \A k \in 0 .. (idx - 1) : params[k] \in Integer /\ list[k] \in Integer
    /\ \A k \in DOMAIN params : k > idx \/ (k = idx /\ pc # "shift") => list[k] = params[k]
    /\ I!Plain => \A k \in DOMAIN list : list[k] \notin Refused

\* What is in order between the arguments, and while one is inserted.
Inserted ==
  /\ pc \in {"check", "echoed"} /\ I!Plain =>
       \A k, l \in 0 .. (idx - 1) : k < l => Decimal[list[k]] <= Decimal[list[l]]
  /\ pc = "shift" =>
       /\ idx < Size(params) /\ j \in -1 .. (idx - 1) /\ x \in Integer
       /\ params[idx] \in Integer /\ list[idx] \in Integer
       /\ I!Plain => x \notin Refused
       /\ \A k \in (j + 2) .. idx : I!Greater(list[k], x)
       /\ I!Plain => \A k, l \in (0 .. idx) \ {j + 1} : k < l => Decimal[list[k]] <= Decimal[list[l]]

InsInv ==
  Called =>
    /\ IsArray(params, Size(params), Words)
    /\ pc \in {"check", "shift", "echoed", "refused"}
    /\ Checked /\ Inserted
    /\ pc = "echoed" => idx = Size(params)
    /\ I!AllOrNothing

LEMMA InitInsInv == Init => InsInv
<1> SUFFICES ASSUME Init, Called PROVE InsInv
  BY DEF InsInv
<1>1. /\ params \in I!Params /\ list = params /\ idx = 0 /\ j = -1 /\ pc = "check"
  BY DEF Called, Init, I!Init
<1>2. PICK len \in 0 .. MaxLen : params \in [0 .. (len - 1) -> Words]
  BY <1>1 DEF I!Params
<1>3. IsArray(params, len, Words)
  BY <1>2, MaxLenAssumption DEF IsArray
<1>4. Size(params) = len /\ len \in Nat
  BY <1>3, ArraySize DEF Size, IsArray
<1>5. \A k \in 0 .. (0 - 1) : FALSE
  OBVIOUS
<1> QED
  BY <1>1, <1>3, <1>4, <1>5 DEF InsInv, Checked, Inserted, I!AllOrNothing, I!Plain

LEMMA TakeInsInv == InsInv /\ Called /\ I!Take => InsInv'
<1> SUFFICES ASSUME InsInv, Called, I!Take PROVE InsInv'
  OBVIOUS
<1> DEFINE n == Size(params)
<1>1. /\ pc = "check" /\ idx \in DOMAIN list /\ list[idx] \in Integer
      /\ x' = list[idx] /\ j' = idx - 1 /\ pc' = "shift"
      /\ params' = params /\ list' = list /\ idx' = idx
  BY DEF I!Take
<1>2. n' = n
  BY <1>1 DEF Size
<1>3. /\ IsArray(params, n, Words) /\ Checked /\ Inserted
      /\ IsArray(list, n, Words)
  BY <1>1 DEF InsInv, Checked
<1>4. /\ n \in Nat /\ list \in [0 .. (n - 1) -> Words] /\ DOMAIN list = 0 .. (n - 1)
      /\ DOMAIN params = 0 .. (n - 1) /\ params[idx] = list[idx]
  BY <1>1, <1>3 DEF IsArray, Checked
<1> HIDE DEF n
<1>5. /\ idx \in Nat /\ idx < n /\ idx - 1 + 1 = idx /\ \A k \in (idx - 1 + 2) .. idx : FALSE
      /\ (0 .. idx) \ {idx} = 0 .. (idx - 1) /\ idx - 1 \in -1 .. (idx - 1)
  BY <1>1, <1>4
<1>6. Checked'
  BY <1>1, <1>2, <1>3 DEF Checked, I!Plain, n
<1>7. Inserted'
  BY <1>1, <1>2, <1>3, <1>4, <1>5 DEF Checked, Inserted, I!Plain, n
<1> QED
  BY <1>1, <1>2, <1>3, <1>6, <1>7 DEF InsInv, I!AllOrNothing, n

LEMMA RefuseInsInv == InsInv /\ Called /\ I!Refuse => InsInv'
<1> SUFFICES ASSUME InsInv, Called, I!Refuse PROVE InsInv'
  OBVIOUS
<1>1. /\ pc = "check" /\ idx \in DOMAIN list /\ list[idx] \notin Integer
      /\ list' = <<>> /\ pc' = "refused" /\ params' = params
  BY DEF I!Refuse
<1>2. Size(params') = Size(params) /\ IsArray(params, Size(params), Words) /\ IsArray(list, Size(params), Words)
  BY <1>1 DEF InsInv, Checked
<1>3. idx \in DOMAIN params /\ params[idx] = list[idx]
  BY <1>1, <1>2 DEF InsInv, Checked, IsArray
<1> QED
  BY <1>1, <1>2, <1>3 DEF InsInv, Checked, Inserted, I!AllOrNothing

LEMMA EchoInsInv == InsInv /\ Called /\ I!Echo => InsInv'
<1> SUFFICES ASSUME InsInv, Called, I!Echo PROVE InsInv'
  OBVIOUS
<1>1. /\ pc = "check" /\ idx \notin DOMAIN list /\ pc' = "echoed"
      /\ list' = list /\ params' = params /\ idx' = idx
  BY DEF I!Echo
<1>2. Size(params') = Size(params) /\ IsArray(params, Size(params), Words) /\ IsArray(list, Size(params), Words)
  BY <1>1 DEF InsInv, Checked
<1>3. idx \in 0 .. Size(params) /\ Size(params) \in Nat
  BY <1>1, <1>2 DEF InsInv, Checked, IsArray
<1>4. idx = Size(params) /\ DOMAIN list = DOMAIN params /\ DOMAIN params = 0 .. (idx - 1)
  BY <1>1, <1>2, <1>3 DEF IsArray
<1>5. \A k \in DOMAIN params : params[k] \in Integer
  BY <1>1, <1>4 DEF InsInv, Checked
<1>6. Checked'
  BY <1>1 DEF InsInv, Checked, I!Plain, Size
<1>7. Inserted'
  BY <1>1 DEF InsInv, Inserted, I!Plain
<1> QED
  BY <1>1, <1>2, <1>4, <1>5, <1>6, <1>7 DEF InsInv, I!AllOrNothing

\* bash's index k is that of the array, but for a negative one.
LEMMA AtIs ==
  ASSUME NEW n \in Nat, NEW V, list \in [0 .. (n - 1) -> V]
  PROVE  /\ \A k \in Nat : I!At(k) = k
         /\ I!At(-1) = n - 1
         /\ \A w : \A k \in 0 .. (n - 1) : I!Put(k, w) = [list EXCEPT ![k] = w]
<1>1. DOMAIN list = 0 .. (n - 1) /\ I!Cardinality(DOMAIN list) = n
  <2>1. IsArray(list, n, V)
    BY DEF IsArray
  <2> QED
    BY <2>1, ArraySize, SameCardinality
<1>2. \A k \in Nat : I!At(k) = k
  BY DEF I!At
<1>3. I!At(-1) = n - 1
  <2>1. I!At(-1) = I!Cardinality(DOMAIN list) + (-1)
    BY DEF I!At
  <2> QED
    BY <1>1, <2>1
<1>4. ASSUME NEW k \in 0 .. (n - 1), NEW w PROVE I!Put(k, w) = [list EXCEPT ![k] = w]
  <2>1. I!At(k) = k /\ DOMAIN list \cup {k} = DOMAIN list
    BY <1>1, <1>2
  <2> QED
    BY <2>1 DEF I!Put
<1> QED
  BY <1>2, <1>3, <1>4

\* What is pasted into the test behind j>=0 changes nothing: before the last word
\* is checked it is that word, then an integer.
LEMMA WhileIs ==
  InsInv /\ Called /\ pc = "shift" =>
    I!While.j = j /\ (I!While.holds <=> j >= 0 /\ I!Greater(list[j], x))
<1> SUFFICES ASSUME InsInv, Called, pc = "shift"
             PROVE  I!While.j = j /\ (I!While.holds <=> j >= 0 /\ I!Greater(list[j], x))
  OBVIOUS
<1> DEFINE n == Size(params)
<1>1. /\ IsArray(params, n, Words) /\ IsArray(list, n, Words) /\ Checked /\ Inserted
  BY DEF InsInv, Checked
<1>2. /\ n \in Nat /\ list \in [0 .. (n - 1) -> Words] /\ DOMAIN list = 0 .. (n - 1)
      /\ DOMAIN params = 0 .. (n - 1) /\ I!Cardinality(DOMAIN params) = n
  BY <1>1, ArraySize, SameCardinality DEF IsArray
<1>3. idx < n /\ idx \in Nat /\ j \in -1 .. (idx - 1) /\ x \in Integer /\ list[idx] \in Integer
  BY <1>1, <1>2 DEF Checked, Inserted
<1>4. \A k \in 0 .. (idx - 1) : list[k] \in Integer
  BY <1>1 DEF Checked
<1>5. \A k \in DOMAIN params : k > idx => list[k] = params[k]
  BY <1>1 DEF Checked
<1> HIDE DEF n
<1>a. (\A k \in Nat : I!At(k) = k) /\ I!At(-1) = n - 1
  BY <1>2, AtIs
<1>6. CASE j >= 0
  <2>1. I!At(j) = j /\ j \in DOMAIN list /\ list[j] \in Integer
    <3>1. j \in Nat /\ j \in 0 .. (idx - 1) /\ j \in 0 .. (n - 1)
      BY <1>2, <1>3, <1>6
    <3> QED
      BY <1>2, <1>4, <1>a, <3>1
  <2>2. I!While = [holds |-> j \in DOMAIN list /\ j >= 0 /\ I!Greater(list[j], x), j |-> j]
    BY <2>1 DEF I!While
  <2> QED
    BY <2>1, <2>2
<1>7. CASE j = -1
  <2>1. I!At(j) = n - 1 /\ n - 1 \in DOMAIN list /\ n - 1 \in DOMAIN params /\ ~(j >= 0)
    <3>1. I!At(j) = n - 1
      BY <1>7, <1>a
    <3>2. n - 1 \in 0 .. (n - 1) /\ ~(j >= 0)
      BY <1>2, <1>3, <1>7
    <3> QED
      BY <1>2, <3>1, <3>2
  <2>2. CASE list[n - 1] \in Integer
    <3>1. I!While = [holds |-> n - 1 \in DOMAIN list /\ j >= 0 /\ I!Greater(list[n - 1], x), j |-> j]
      BY <2>1, <2>2 DEF I!While
    <3> QED
      BY <2>1, <3>1
  <2>3. CASE list[n - 1] \notin Integer
    <3>1. n - 1 > idx /\ list[n - 1] = params[n - 1]
      <4>1. n - 1 # idx
        BY <1>3, <2>3
      <4>2. n - 1 > idx
        BY <1>2, <1>3, <4>1
      <4> QED
        BY <1>5, <2>1, <4>2
    <3>2. n - 1 + 1 = n
      BY <1>2
    <3>3. I!Inert(params[n - 1])
      BY <1>2, <2>1, <3>2 DEF Called, I!Harmless
    <3>4. Pasted(params[n - 1], -1, x) = [holds |-> FALSE, j |-> -1]
      BY <1>3, <2>3, <3>1, <3>3 DEF I!Inert
    <3>5. I!While = Pasted(list[n - 1], j, x)
      BY <2>1, <2>3 DEF I!While
    <3>6. I!While = [holds |-> FALSE, j |-> -1]
      BY <1>7, <3>1, <3>4, <3>5
    <3> QED
      BY <1>7, <2>1, <3>6
  <2> QED
    BY <2>2, <2>3
<1> QED
  BY <1>3, <1>6, <1>7

\* So a turn of while shifts one word, ...
LEMMA ShiftIs ==
  InsInv /\ Called /\ I!Shift =>
    /\ pc = "shift" /\ j >= 0 /\ I!Greater(list[j], x)
    /\ list' = [list EXCEPT ![j + 1] = list[j]] /\ j' = j - 1
    /\ params' = params /\ idx' = idx /\ x' = x /\ pc' = pc
<1> SUFFICES ASSUME InsInv, Called, I!Shift
             PROVE  /\ pc = "shift" /\ j >= 0 /\ I!Greater(list[j], x)
                    /\ list' = [list EXCEPT ![j + 1] = list[j]] /\ j' = j - 1
                    /\ params' = params /\ idx' = idx /\ x' = x /\ pc' = pc
  OBVIOUS
<1>1. /\ pc = "shift" /\ I!While.holds /\ list' = I!Put(I!While.j + 1, list[I!At(I!While.j)])
      /\ j' = I!While.j - 1 /\ params' = params /\ idx' = idx /\ x' = x /\ pc' = pc
  BY DEF I!Shift
<1>2. I!While.j = j /\ j >= 0 /\ I!Greater(list[j], x)
  BY <1>1, WhileIs
<1>3. /\ IsArray(list, Size(params), Words) /\ idx < Size(params)
      /\ idx \in 0 .. Size(params) /\ j \in -1 .. (idx - 1)
  BY <1>1 DEF InsInv, Checked, Inserted
<1>4. Size(params) \in Nat /\ list \in [0 .. (Size(params) - 1) -> Words]
  BY <1>3 DEF IsArray
<1>5. I!At(j) = j /\ j + 1 \in 0 .. (Size(params) - 1)
  <2>1. \A k \in Nat : I!At(k) = k
    BY <1>4, AtIs
  <2>2. j \in Nat /\ j + 1 \in 0 .. (Size(params) - 1)
    BY <1>2, <1>3, <1>4
  <2> QED
    BY <2>1, <2>2
<1>6. I!Put(j + 1, list[j]) = [list EXCEPT ![j + 1] = list[j]]
  BY <1>4, <1>5, AtIs
<1> QED
  BY <1>1, <1>2, <1>5, <1>6

\* ... and its end puts x into the free place.
LEMMA PlaceIs ==
  InsInv /\ Called /\ I!Place =>
    /\ pc = "shift" /\ ~(j >= 0 /\ I!Greater(list[j], x))
    /\ list' = [list EXCEPT ![j + 1] = x] /\ idx' = idx + 1
    /\ params' = params /\ pc' = "check"
<1> SUFFICES ASSUME InsInv, Called, I!Place
             PROVE  /\ pc = "shift" /\ ~(j >= 0 /\ I!Greater(list[j], x))
                    /\ list' = [list EXCEPT ![j + 1] = x] /\ idx' = idx + 1
                    /\ params' = params /\ pc' = "check"
  OBVIOUS
<1>1. /\ pc = "shift" /\ ~I!While.holds /\ list' = I!Put(I!While.j + 1, x)
      /\ idx' = idx + 1 /\ params' = params /\ pc' = "check"
  BY DEF I!Place
<1>2. I!While.j = j /\ ~(j >= 0 /\ I!Greater(list[j], x))
  BY <1>1, WhileIs
<1>3. /\ IsArray(list, Size(params), Words) /\ idx < Size(params)
      /\ idx \in 0 .. Size(params) /\ j \in -1 .. (idx - 1)
  BY <1>1 DEF InsInv, Checked, Inserted
<1>4. Size(params) \in Nat /\ list \in [0 .. (Size(params) - 1) -> Words]
  BY <1>3 DEF IsArray
<1>5. j + 1 \in 0 .. (Size(params) - 1)
  BY <1>3, <1>4
<1>6. I!Put(j + 1, x) = [list EXCEPT ![j + 1] = x]
  BY <1>4, <1>5, AtIs
<1> QED
  BY <1>1, <1>2, <1>6

LEMMA ShiftInsInv == InsInv /\ Called /\ I!Shift => InsInv'
<1> SUFFICES ASSUME InsInv, Called, I!Shift PROVE InsInv'
  OBVIOUS
<1> DEFINE n == Size(params)
<1>1. /\ pc = "shift" /\ j >= 0 /\ I!Greater(list[j], x)
      /\ list' = [list EXCEPT ![j + 1] = list[j]] /\ j' = j - 1
      /\ params' = params /\ idx' = idx /\ x' = x /\ pc' = pc
  BY ShiftIs
<1>2. n' = n
  BY <1>1 DEF Size
<1>3. /\ IsArray(params, n, Words) /\ Checked /\ Inserted
      /\ IsArray(list, n, Words)
  BY <1>1 DEF InsInv, Checked
<1>4. /\ n \in Nat /\ list \in [0 .. (n - 1) -> Words] /\ DOMAIN list = 0 .. (n - 1)
      /\ DOMAIN params = 0 .. (n - 1)
  BY <1>3 DEF IsArray
<1>5. idx < n /\ idx \in Nat /\ j \in 0 .. (idx - 1) /\ x \in Integer
  BY <1>1, <1>3, <1>4 DEF Checked, Inserted
<1> HIDE DEF n
<1>6. /\ list' \in [0 .. (n - 1) -> Words] /\ list'[j + 1] = list[j] /\ DOMAIN list' = 0 .. (n - 1)
      /\ \A k \in 0 .. (n - 1) : k # j + 1 => list'[k] = list[k]
      /\ j + 1 \in 0 .. idx /\ j \in 0 .. (n - 1)
  BY <1>1, <1>4, <1>5
<1>7. IsArray(list', n, Words)
  BY <1>4, <1>6 DEF IsArray
<1>8. \A k \in 0 .. idx : list'[k] \in Integer
  <2>1. \A k \in 0 .. idx : list[k] \in Integer
    <3>1. \A k \in 0 .. (idx - 1) : list[k] \in Integer
      BY <1>1, <1>3 DEF Checked
    <3>2. list[idx] \in Integer
      BY <1>1, <1>3 DEF Inserted
    <3> QED
      BY <1>5, <3>1, <3>2
  <2> QED
    BY <1>4, <1>5, <1>6, <2>1
<1>9. Checked'
  <2>1. \A k \in 0 .. (idx - 1) : params[k] \in Integer
    BY <1>1, <1>3 DEF Checked
  <2>2. \A k \in DOMAIN params : k > idx => list'[k] = params[k]
    BY <1>1, <1>3, <1>4, <1>5, <1>6 DEF Checked
  <2>3. I!Plain => \A k \in 0 .. (n - 1) : list'[k] \notin Refused
    BY <1>1, <1>3, <1>4, <1>6 DEF Checked
  <2>4. idx \in 0 .. n
    BY <1>4, <1>5
  <2>5. \A k \in 0 .. (idx - 1) : list'[k] \in Integer
    BY <1>5, <1>8
  <2> QED
    BY <1>1, <1>2, <1>5, <1>6, <1>7, <2>1, <2>2, <2>3, <2>4, <2>5 DEF Checked, I!Plain, n
<1>10. \A k \in (j + 1) .. idx : I!Greater(list'[k], x)
  <2>1. \A k \in (j + 2) .. idx : I!Greater(list[k], x)
    BY <1>1, <1>3 DEF Inserted
  <2> TAKE k \in (j + 1) .. idx
  <2>2. CASE k = j + 1
    BY <1>1, <1>6, <2>2
  <2>3. CASE k # j + 1
    BY <1>4, <1>5, <1>6, <2>1, <2>3
  <2> QED
    BY <2>2, <2>3
<1>11. ASSUME I!Plain, NEW k \in (0 .. idx) \ {j}, NEW l \in (0 .. idx) \ {j}, k < l
       PROVE  Decimal[list'[k]] <= Decimal[list'[l]]
  <2>1. \A p, q \in (0 .. idx) \ {j + 1} : p < q => Decimal[list[p]] <= Decimal[list[q]]
    BY <1>1, <1>3, <1>11 DEF Inserted
  <2>2. CASE k = j + 1
    <3>1. l # j + 1 /\ j < l /\ l \in (0 .. idx) \ {j + 1} /\ j \in (0 .. idx) \ {j + 1}
      BY <1>5, <1>11, <2>2
    <3>2. list'[l] = list[l] /\ list'[k] = list[j]
      BY <1>4, <1>5, <1>6, <2>2, <3>1
    <3> QED
      BY <2>1, <3>1, <3>2
  <2>3. CASE l = j + 1
    <3>1. k # j + 1 /\ k < j /\ k \in (0 .. idx) \ {j + 1} /\ j \in (0 .. idx) \ {j + 1}
      BY <1>5, <1>11, <2>3
    <3>2. list'[k] = list[k] /\ list'[l] = list[j]
      BY <1>4, <1>5, <1>6, <2>3, <3>1
    <3> QED
      BY <2>1, <3>1, <3>2
  <2>4. CASE k # j + 1 /\ l # j + 1
    <3>1. list'[k] = list[k] /\ list'[l] = list[l]
      BY <1>4, <1>5, <1>6, <2>4
    <3> QED
      BY <1>11, <2>1, <2>4, <3>1
  <2> QED
    BY <2>2, <2>3, <2>4
<1>12. Inserted'
  <2>1. j - 1 + 1 = j /\ j - 1 + 2 = j + 1 /\ j - 1 \in -1 .. (idx - 1) /\ idx \in 0 .. idx
    BY <1>5
  <2>2. /\ idx < n /\ params[idx] \in Integer /\ (I!Plain => x \notin Refused)
    BY <1>1, <1>3, <1>5 DEF Inserted
  <2>3. I!Plain' <=> I!Plain
    BY <1>1 DEF I!Plain
  <2>4. \A k \in (j' + 2) .. idx' : I!Greater(list'[k], x)
    BY <1>1, <1>10, <2>1
  <2>5. list'[idx] \in Integer
    BY <1>8, <2>1
  <2>6. I!Plain => \A k, l \in (0 .. idx) \ {j' + 1} : k < l => Decimal[list'[k]] <= Decimal[list'[l]]
    BY <1>1, <1>11, <2>1
  <2> QED
    BY <1>1, <1>2, <1>5, <2>1, <2>2, <2>3, <2>4, <2>5, <2>6 DEF Inserted, I!Greater, n
<1> QED
  BY <1>1, <1>2, <1>3, <1>9, <1>12 DEF InsInv, I!AllOrNothing, n

LEMMA PlaceInsInv == InsInv /\ Called /\ I!Place => InsInv'
<1> SUFFICES ASSUME InsInv, Called, I!Place PROVE InsInv'
  OBVIOUS
<1> DEFINE n == Size(params)
<1>1. /\ pc = "shift" /\ ~(j >= 0 /\ I!Greater(list[j], x))
      /\ list' = [list EXCEPT ![j + 1] = x] /\ idx' = idx + 1
      /\ params' = params /\ pc' = "check"
  BY PlaceIs
<1>2. n' = n
  BY <1>1 DEF Size
<1>3. /\ IsArray(params, n, Words) /\ Checked /\ Inserted
      /\ IsArray(list, n, Words)
  BY <1>1 DEF InsInv, Checked
<1>4. /\ n \in Nat /\ list \in [0 .. (n - 1) -> Words] /\ DOMAIN list = 0 .. (n - 1)
      /\ DOMAIN params = 0 .. (n - 1)
  BY <1>3 DEF IsArray
<1>5. idx < n /\ idx \in Nat /\ j \in -1 .. (idx - 1) /\ x \in Integer /\ x \in Words
  BY <1>1, <1>3, <1>4, WordsAssumption DEF Checked, Inserted
<1> HIDE DEF n
<1>6. /\ list' \in [0 .. (n - 1) -> Words] /\ list'[j + 1] = x /\ DOMAIN list' = 0 .. (n - 1)
      /\ \A k \in 0 .. (n - 1) : k # j + 1 => list'[k] = list[k]
      /\ j + 1 \in 0 .. idx /\ idx + 1 - 1 = idx
  BY <1>1, <1>4, <1>5
<1>7. IsArray(list', n, Words)
  BY <1>4, <1>6 DEF IsArray
<1>8. \A k \in 0 .. idx : list'[k] \in Integer /\ params[k] \in Integer
  <2>1. \A k \in 0 .. idx : list[k] \in Integer /\ params[k] \in Integer
    <3>1. \A k \in 0 .. (idx - 1) : list[k] \in Integer /\ params[k] \in Integer
      BY <1>1, <1>3 DEF Checked
    <3>2. list[idx] \in Integer /\ params[idx] \in Integer
      BY <1>1, <1>3 DEF Inserted
    <3> QED
      BY <1>5, <3>1, <3>2
  <2> QED
    BY <1>4, <1>5, <1>6, <2>1
<1>9. I!Plain => x \notin Refused /\ \A k \in 0 .. (n - 1) : list[k] \notin Refused /\ list'[k] \notin Refused
  BY <1>1, <1>3, <1>4, <1>6 DEF Checked, Inserted
<1>10. Checked'
  <2>1. \A k \in DOMAIN params : k > idx \/ k = idx + 1 => list'[k] = params[k]
    BY <1>1, <1>3, <1>4, <1>5, <1>6 DEF Checked
  <2>2. \A k \in DOMAIN params : k > idx + 1 => k > idx
    BY <1>4, <1>5
  <2>3. idx' \in 0 .. n' /\ IsArray(list', n', Words)
    BY <1>1, <1>2, <1>4, <1>5, <1>7
  <2>4. \A k \in 0 .. (idx' - 1) : params'[k] \in Integer /\ list'[k] \in Integer
    <3>1. idx' - 1 = idx
      BY <1>1, <1>5
    <3> QED
      BY <1>1, <1>8, <3>1
  <2>5. \A k \in DOMAIN params' : k > idx' \/ (k = idx' /\ pc' # "shift") => list'[k] = params'[k]
    BY <1>1, <2>1, <2>2
  <2>6. I!Plain' => \A k \in DOMAIN list' : list'[k] \notin Refused
    BY <1>1, <1>6, <1>9 DEF I!Plain
  <2> QED
    BY <2>3, <2>4, <2>5, <2>6 DEF Checked, n
<1>11. ASSUME I!Plain, NEW k \in 0 .. idx, NEW l \in 0 .. idx, k < l
       PROVE  Decimal[list'[k]] <= Decimal[list'[l]]
  <2>1. \A p, q \in (0 .. idx) \ {j + 1} : p < q => Decimal[list[p]] <= Decimal[list[q]]
    BY <1>1, <1>3, <1>11 DEF Inserted
  <2>2. \A w \in Words : Decimal[w] \in Int
    BY WordsAssumption
  <2>3. \A p \in 0 .. idx : list[p] \in Words /\ Decimal[list[p]] \in Int
    BY <1>4, <1>5, <2>2
  <2>4. CASE k = j + 1
    <3>1. l \in (j + 2) .. idx /\ list'[l] = list[l] /\ list'[k] = x
      BY <1>4, <1>5, <1>6, <1>11, <2>4
    <3>2. I!Greater(list[l], x)
      BY <1>1, <1>3, <3>1 DEF Inserted
    <3> QED
      BY <1>5, <2>2, <2>3, <3>1, <3>2 DEF I!Greater
  <2>5. CASE l = j + 1
    <3>1. j >= 0 /\ j \in 0 .. (n - 1) /\ list'[l] = x /\ list'[k] = list[k] /\ (k = j \/ k < j)
      BY <1>4, <1>5, <1>6, <1>11, <2>5
    <3>2. ~I!Greater(list[j], x)
      BY <1>1, <3>1
    <3>3. Decimal[list[j]] \in Int /\ Decimal[x] \in Int
      BY <1>5, <2>2, <2>3, <3>1
    <3>4. Decimal[list[j]] <= Decimal[x]
      BY <1>9, <1>11, <3>1, <3>2, <3>3 DEF I!Greater
    <3>5. Decimal[list[k]] <= Decimal[list[j]]
      <4>1. k = j \/ (k \in (0 .. idx) \ {j + 1} /\ j \in (0 .. idx) \ {j + 1} /\ k < j)
        BY <1>5, <1>11, <2>5, <3>1
      <4> QED
        BY <2>1, <3>3, <4>1
    <3> QED
      BY <2>3, <3>1, <3>3, <3>4, <3>5
  <2>6. CASE k # j + 1 /\ l # j + 1
    <3>1. list'[k] = list[k] /\ list'[l] = list[l]
      BY <1>4, <1>5, <1>6, <2>6
    <3> QED
      BY <1>11, <2>1, <2>6, <3>1
  <2> QED
    BY <2>4, <2>5, <2>6
<1>12. Inserted'
  <2>1. I!Plain' <=> I!Plain
    BY <1>1 DEF I!Plain
  <2>2. idx' - 1 = idx /\ pc' = "check"
    BY <1>1, <1>5
  <2>3. I!Plain' => \A k, l \in 0 .. (idx' - 1) : k < l => Decimal[list'[k]] <= Decimal[list'[l]]
    BY <1>11, <2>1, <2>2
  <2> QED
    BY <2>2, <2>3 DEF Inserted
<1> QED
  BY <1>1, <1>2, <1>3, <1>10, <1>12 DEF InsInv, I!AllOrNothing, n

LEMMA CalledStays == [Next]_vars => (Called' <=> Called) /\ (which = "insert" => params' = params)
<1> SUFFICES ASSUME [Next]_vars PROVE (Called' <=> Called) /\ (which = "insert" => params' = params)
  OBVIOUS
<1>1. which' = which
  BY DEF Next, Merge, Radix, Select, Insert, Again, Stopped, vars
<1>2. which = "insert" => params' = params
  BY DEF Next, Merge, Radix, Select, Insert, Again, Stopped, vars, ivars,
         I!Next, I!Refuse, I!Take, I!Shift, I!Place, I!Echo
<1>3. params' = params => (I!Harmless' <=> I!Harmless)
  BY DEF I!Harmless, I!Inert
<1> QED
  BY <1>1, <1>2, <1>3 DEF Called

LEMMA NextInsInv == InsInv /\ [Next]_vars => InsInv'
<1> SUFFICES ASSUME InsInv, [Next]_vars, Called' PROVE InsInv'
  BY DEF InsInv
<1>1. Called
  BY CalledStays
<1>2. CASE Insert
  BY <1>1, <1>2, TakeInsInv, RefuseInsInv, EchoInsInv, ShiftInsInv, PlaceInsInv DEF Insert, I!Next
<1>3. CASE Stopped \/ UNCHANGED vars
  <2>1. params' = params /\ list' = list /\ idx' = idx /\ x' = x /\ j' = j /\ pc' = pc
    BY <1>3 DEF Stopped, vars, ivars
  <2>2. Size(params') = Size(params) /\ (I!Plain' <=> I!Plain)
    BY <2>1 DEF Size, I!Plain
  <2>3. Checked' <=> Checked
    BY <2>1, <2>2 DEF Checked
  <2>4. Inserted' <=> Inserted
    BY <2>1, <2>2 DEF Inserted, I!Greater
  <2> QED
    BY <1>1, <2>1, <2>2, <2>3, <2>4 DEF InsInv, I!AllOrNothing, Called
<1> QED
  BY <1>1, <1>2, <1>3 DEF Next, Merge, Radix, Select, Again, Called

\* A call that is refused has emptied the array, whatever its last word does.
EmptyInv == which = "insert" /\ pc = "refused" => list = <<>>

LEMMA InitEmptyInv == Init => EmptyInv
BY DEF Init, I!Init, EmptyInv

LEMMA NextEmptyInv == EmptyInv /\ [Next]_vars => EmptyInv'
<1> SUFFICES ASSUME EmptyInv, [Next]_vars, which' = "insert", pc' = "refused" PROVE list' = <<>>
  BY DEF EmptyInv
<1>1. which = "insert"
  BY DEF Next, Merge, Radix, Select, Insert, Again, Stopped, vars
<1>2. CASE Insert
  <2>1. I!Refuse
    BY <1>2 DEF Insert, I!Next, I!Take, I!Shift, I!Place, I!Echo
  <2> QED
    BY <2>1 DEF I!Refuse
<1>3. CASE Stopped \/ UNCHANGED vars
  BY <1>1, <1>3 DEF EmptyInv, Stopped, vars
<1> QED
  BY <1>1, <1>2, <1>3 DEF Next, Merge, Radix, Select, Again

\* The words held are those of the call.
HeldInv == Called => Rearranged(params, Held)

LEMMA InitHeldInv == Init => HeldInv
<1> SUFFICES ASSUME Init, Called PROVE Rearranged(params, Held)
  BY DEF HeldInv
<1>1. list = params /\ pc = "check"
  BY DEF Called, Init, I!Init
<1> QED
  BY <1>1, RearrangedSelf DEF Held

\* A step of the script keeps the words that are held.
LEMMA InsRearranges ==
  InsInv /\ HeldInv /\ Called /\ I!Next => params' = params /\ Rearranged(Held, Held')
<1> SUFFICES ASSUME InsInv, HeldInv, Called, I!Next
             PROVE  params' = params /\ Rearranged(Held, Held')
  OBVIOUS
<1>1. params' = params
  BY DEF I!Next, I!Refuse, I!Take, I!Shift, I!Place, I!Echo
<1>2. CASE I!Refuse
  <2>1. pc = "check" /\ pc' = "refused" /\ Held = list /\ Held' = params
    BY <1>1, <1>2 DEF I!Refuse, Held
  <2>2. Rearranged(params, list)
    BY <2>1 DEF HeldInv
  <2> QED
    BY <1>1, <2>1, <2>2, RearrangedBack
<1>3. CASE I!Take
  <2>1. pc = "check" /\ idx \in DOMAIN list /\ x' = list[idx] /\ j' = idx - 1 /\ pc' = "shift" /\ list' = list
    BY <1>3 DEF I!Take
  <2>2. idx \in Int
    BY <2>1 DEF InsInv, Checked
  <2>3. j' + 1 = idx
    BY <2>1, <2>2
  <2>4. Held = list /\ Held' = [list EXCEPT ![idx] = list[idx]]
    BY <2>1, <2>3 DEF Held
  <2>5. Held' = list
    BY <2>1, <2>4 DEF InsInv, Checked, IsArray
  <2> QED
    BY <1>1, <2>4, <2>5, RearrangedSelf
<1>4. CASE I!Shift
  <2>1. pc = "shift" /\ pc' = "shift" /\ j >= 0 /\ list' = [list EXCEPT ![j + 1] = list[j]] /\ j' = j - 1 /\ x' = x
    BY <1>4, ShiftIs
  <2>2. /\ IsArray(list, Size(params), Words) /\ idx < Size(params) /\ j \in 0 .. (idx - 1) /\ idx \in Nat
    BY <2>1 DEF InsInv, Checked, Inserted
  <2>3. Size(params) \in Nat /\ DOMAIN list = 0 .. (Size(params) - 1)
    BY <2>2 DEF IsArray
  <2>4. j \in DOMAIN list /\ j + 1 \in DOMAIN list /\ j' + 1 = j /\ j # j + 1
    BY <2>1, <2>2, <2>3
  <2>5. Held = [list EXCEPT ![j + 1] = x] /\ Held' = [[list EXCEPT ![j + 1] = list[j]] EXCEPT ![j] = x]
    BY <2>1, <2>4 DEF Held
  <2>6. /\ DOMAIN Held = DOMAIN list /\ DOMAIN Held' = DOMAIN list
        /\ Held'[j] = x /\ Held[j + 1] = x /\ Held'[j + 1] = list[j] /\ Held[j] = list[j]
        /\ \A c \in DOMAIN list : c # j /\ c # j + 1 => Held'[c] = Held[c]
    BY <2>4, <2>5
  <2> QED
    BY <1>1, <2>4, <2>6, RearrangedPair
<1>5. CASE I!Place
  <2>1. Held' = Held
    BY <1>5, PlaceIs DEF Held
  <2> QED
    BY <1>1, <2>1, RearrangedSelf
<1>6. CASE I!Echo
  <2>1. Held' = Held
    BY <1>6 DEF I!Echo, Held
  <2> QED
    BY <1>1, <2>1, RearrangedSelf
<1> QED
  BY <1>2, <1>3, <1>4, <1>5, <1>6 DEF I!Next

LEMMA NextHeldInv == InsInv /\ HeldInv /\ [Next]_vars => HeldInv'
<1> SUFFICES ASSUME InsInv, HeldInv, [Next]_vars, Called' PROVE Rearranged(params', Held')
  BY DEF HeldInv
<1>1. Called /\ Rearranged(params, Held)
  BY CalledStays DEF HeldInv
<1>2. CASE Insert
  BY <1>1, <1>2, InsRearranges, RearrangedTwice DEF Insert
<1>3. CASE Stopped \/ UNCHANGED vars
  <2>1. params' = params /\ list' = list /\ x' = x /\ j' = j /\ pc' = pc
    BY <1>3 DEF Stopped, vars, ivars
  <2> QED
    BY <1>1, <2>1 DEF Held
<1> QED
  BY <1>1, <1>2, <1>3 DEF Next, Merge, Radix, Select, Again, Called

LEMMA NumbersHeld == I!Harmless => I!Numbers = [k \in DOMAIN Held |-> Decimal[Held[k]]]
BY DEF I!Numbers, Held

LEMMA NumbersHeldNext == I!Harmless' => I!Numbers' = [k \in DOMAIN Held' |-> Decimal[Held'[k]]]
BY DEF I!Numbers, Held

LEMMA NumbersOfCall == ~I!Harmless => I!Numbers = [k \in DOMAIN params |-> Decimal[params[k]]]
BY DEF I!Numbers

LEMMA NumbersOfCallNext == ~I!Harmless' => I!Numbers' = [k \in DOMAIN params' |-> Decimal[params'[k]]]
BY DEF I!Numbers

LEMMA HeldIsArray == InsInv /\ Called => IsArray(Held, Size(params), Words)
<1> SUFFICES ASSUME InsInv, Called PROVE IsArray(Held, Size(params), Words)
  OBVIOUS
<1>1. CASE pc = "refused"
  BY <1>1 DEF InsInv, Held
<1>2. CASE pc = "shift"
  <2>1. IsArray(list, Size(params), Words) /\ x \in Words
    BY <1>2, WordsAssumption DEF InsInv, Checked, Inserted
  <2>2. Held = [list EXCEPT ![j + 1] = x]
    BY <1>2 DEF Held
  <2> QED
    BY <2>1, <2>2 DEF IsArray
<1>3. CASE pc \notin {"refused", "shift"}
  BY <1>3 DEF InsInv, Checked, Held
<1> QED
  BY <1>1, <1>2, <1>3

\* The script ends with its numbers in order.
LEMMA EchoInOrder == InsInv /\ Called /\ I!Echo /\ I!Plain => S!InOrder(I!Numbers)
<1> SUFFICES ASSUME InsInv, Called, I!Echo, I!Plain PROVE S!InOrder(I!Numbers)
  OBVIOUS
<1>1. pc = "check" /\ idx \notin DOMAIN list /\ Held = list
  BY DEF I!Echo, Held
<1>2. IsArray(list, Size(params), Words) /\ idx \in 0 .. Size(params)
  BY <1>1 DEF InsInv, Checked
<1>3. DOMAIN list = 0 .. (idx - 1)
  BY <1>1, <1>2 DEF IsArray
<1>4. \A k, l \in 0 .. (idx - 1) : k < l => Decimal[list[k]] <= Decimal[list[l]]
  BY <1>1 DEF InsInv, Inserted
<1>5. \A k \in DOMAIN list : I!Numbers[k] = Decimal[list[k]]
  BY <1>1, NumbersHeld DEF Called
<1>6. DOMAIN I!Numbers = DOMAIN list
  BY <1>1, NumbersHeld DEF Called
<1> QED
  BY <1>3, <1>4, <1>5, <1>6 DEF S!InOrder

-----------------------------------------------------------------------------
(* Merging two parts that are in order: l from p1 to e and from p2 to r, t  *)
(* from a to ti.                                                            *)

\* t holds at A what l holds at B.
Copies(t, l, A, B) ==
  \E p : /\ p \in [A -> B]
         /\ \A a, b \in A : p[a] = p[b] => a = b
         /\ \A b \in B : \E a \in A : p[a] = b
         /\ \A a \in A : t[a] = l[p[a]]

LEMMA CopiesOneMore ==
  ASSUME NEW t, NEW h, NEW l, NEW A, NEW B, NEW c, NEW d, Copies(t, l, A, B), c \notin A, d \notin B,
         h[c] = l[d], \A a \in A : h[a] = t[a]
  PROVE  Copies(h, l, A \cup {c}, B \cup {d})
<1>1. PICK p : /\ p \in [A -> B]
               /\ \A a, b \in A : p[a] = p[b] => a = b
               /\ \A b \in B : \E a \in A : p[a] = b
               /\ \A a \in A : t[a] = l[p[a]]
  BY DEF Copies
<1> DEFINE q == [a \in A \cup {c} |-> IF a = c THEN d ELSE p[a]]
<1>2. q[c] = d /\ \A a \in A : q[a] = p[a] /\ p[a] \in B
  BY <1>1
<1>3. q \in [A \cup {c} -> B \cup {d}]
  BY <1>1
<1> HIDE DEF q
<1>4. \A a, b \in A \cup {c} : q[a] = q[b] => a = b
  BY <1>1, <1>2
<1>5. \A b \in B \cup {d} : \E a \in A \cup {c} : q[a] = b
  BY <1>1, <1>2
<1>6. \A a \in A \cup {c} : h[a] = l[q[a]]
  BY <1>1, <1>2
<1> QED
  BY <1>3, <1>4, <1>5, <1>6 DEF Copies

LEMMA CopiesBack ==
  ASSUME NEW t, NEW l, NEW A \in SUBSET DOMAIN l, Copies(t, l, A, A)
  PROVE  Rearranged(l, [k \in DOMAIN l |-> IF k \in A THEN t[k] ELSE l[k]])
<1> DEFINE D == DOMAIN l
           h == [k \in D |-> IF k \in A THEN t[k] ELSE l[k]]
<1>1. PICK p : /\ p \in [A -> A]
               /\ \A a, b \in A : p[a] = p[b] => a = b
               /\ \A b \in A : \E a \in A : p[a] = b
               /\ \A a \in A : t[a] = l[p[a]]
  BY DEF Copies
<1> DEFINE q == [k \in D |-> IF k \in A THEN p[k] ELSE k]
<1>2. /\ A \in SUBSET D /\ DOMAIN h = D
      /\ \A k \in D : q[k] = (IF k \in A THEN p[k] ELSE k) /\ h[k] = IF k \in A THEN t[k] ELSE l[k]
  OBVIOUS
<1>3. q \in [D -> D]
  BY <1>1, <1>2
<1> HIDE DEF q, D, h
<1>4. \A k \in A : q[k] = p[k] /\ p[k] \in A /\ k \in D
  BY <1>1, <1>2
<1>5. \A a, b \in D : q[a] = q[b] => a = b
  <2> SUFFICES ASSUME NEW a \in D, NEW b \in D, q[a] = q[b] PROVE a = b
    OBVIOUS
  <2>1. CASE a \in A /\ b \in A
    BY <1>1, <1>4, <2>1
  <2>2. CASE a \notin A \/ b \notin A
    BY <1>2, <1>4, <2>2
  <2> QED
    BY <2>1, <2>2
<1>6. ASSUME NEW b \in D PROVE \E a \in D : q[a] = b
  <2>1. CASE b \in A
    BY <1>1, <1>4, <2>1
  <2>2. CASE b \notin A
    BY <1>2, <2>2
  <2> QED
    BY <2>1, <2>2
<1>7. Permutes(q, D)
  BY <1>3, <1>5, <1>6 DEF Permutes
<1>8. \A k \in D : h[k] = l[q[k]]
  BY <1>1, <1>2
<1>9. Rearranged(l, h)
  BY <1>2, <1>7, <1>8 DEF Rearranged, D
<1> QED
  BY <1>9 DEF h, D

Merging(l, t, a, e, r, p1, p2, ti) ==
  /\ a \in Nat /\ e \in a .. r /\ r \in Nat /\ e < r
  /\ p1 \in a .. (e + 1) /\ p2 \in (e + 1) .. (r + 1)
  /\ ti = p1 + (p2 - (e + 1))
  /\ InOrderFrom(t, a, ti - 1) /\ InOrderFrom(l, p1, e) /\ InOrderFrom(l, p2, r)
  /\ \A j1 \in a .. (ti - 1), k1 \in (p1 .. e) \cup (p2 .. r) : t[j1] <= l[k1]
  /\ Copies(t, l, a .. (ti - 1), (a .. (p1 - 1)) \cup ((e + 1) .. (p2 - 1)))

LEMMA OneMore ==
  ASSUME NEW a \in Int, NEW b \in Int, a <= b
  PROVE  \A c : c \in (a .. (b - 1)) \cup {b} <=> c \in a .. b
OBVIOUS

LEMMA MergingStarts ==
  ASSUME NEW l, NEW t, NEW a \in Nat, NEW r \in Nat, NEW e \in a .. r, e < r,
         InOrderFrom(l, a, e), InOrderFrom(l, e + 1, r)
  PROVE  Merging(l, t, a, e, r, a, e + 1, a)
<1>1. a .. (a - 1) = {} /\ (e + 1) .. (e + 1 - 1) = {} /\ a + (e + 1 - (e + 1)) = a
  OBVIOUS
<1>2. Copies(t, l, {}, {})
  <2> DEFINE p == [k \in {} |-> k]
  <2>1. p \in [{} -> {}]
    OBVIOUS
  <2> HIDE DEF p
  <2> QED
    BY <2>1 DEF Copies
<1>3. Copies(t, l, a .. (a - 1), (a .. (a - 1)) \cup ((e + 1) .. (e + 1 - 1)))
  BY <1>1, <1>2
<1>4. InOrderFrom(t, a, a - 1)
  BY <1>1 DEF InOrderFrom
<1>5. a \in a .. (e + 1) /\ e + 1 \in (e + 1) .. (r + 1)
  OBVIOUS
<1> QED
  BY <1>1, <1>3, <1>4, <1>5 DEF Merging

\* The element at d, the least of what is left, is taken next.
Taken(l, h, a, e, r, p1, p2, ti, d) ==
  /\ ti \in a .. r
  /\ InOrderFrom(h, a, ti)
  /\ \A j1 \in a .. ti, k1 \in (p1 .. e) \cup (p2 .. r) : h[j1] <= l[k1]
  /\ Copies(h, l, a .. ti, (a .. (p1 - 1)) \cup ((e + 1) .. (p2 - 1)) \cup {d})

LEMMA MergingTakes ==
  ASSUME NEW n \in Nat, NEW l \in [0 .. (n - 1) -> Int], NEW t \in [0 .. (n - 1) -> Int],
         NEW a, NEW e, NEW r, NEW p1, NEW p2, NEW ti, NEW d, r <= n - 1,
         Merging(l, t, a, e, r, p1, p2, ti),
         d \in (p1 .. e) \cup (p2 .. r),
         \A k1 \in (p1 .. e) \cup (p2 .. r) : l[d] <= l[k1]
  PROVE  Taken(l, [t EXCEPT ![ti] = l[d]], a, e, r, p1, p2, ti, d)
<1> DEFINE h == [t EXCEPT ![ti] = l[d]]
<1>1. /\ a \in Nat /\ e \in Int /\ r \in Nat /\ a <= e /\ e < r
      /\ p1 \in Int /\ a <= p1 /\ p1 <= e + 1 /\ p2 \in Int /\ e + 1 <= p2 /\ p2 <= r + 1
      /\ ti = p1 + (p2 - (e + 1)) /\ d \in Int
  BY DEF Merging
<1>2. ti \in a .. r
  <2>1. p1 <= e \/ p2 <= r
    BY <1>1
  <2> QED
    BY <1>1, <2>1
<1>3. /\ h[ti] = l[d] /\ \A k \in a .. (ti - 1) : h[k] = t[k]
      /\ d \in 0 .. (n - 1) /\ l[d] \in Int
  BY <1>1, <1>2
<1>4. \A k \in a .. (ti - 1) : t[k] <= l[d]
  BY DEF Merging
<1> HIDE DEF h
<1>5. InOrderFrom(h, a, ti)
  <2> SUFFICES ASSUME NEW j1 \in a .. ti, NEW k1 \in a .. ti, j1 < k1 PROVE h[j1] <= h[k1]
    BY DEF InOrderFrom
  <2>1. j1 \in a .. (ti - 1) /\ (k1 = ti \/ k1 \in a .. (ti - 1))
    BY <1>1, <1>2
  <2>2. InOrderFrom(t, a, ti - 1)
    BY DEF Merging
  <2> QED
    BY <1>3, <1>4, <2>1, <2>2 DEF InOrderFrom
<1>6. ASSUME NEW j1 \in a .. ti, NEW k1 \in (p1 .. e) \cup (p2 .. r) PROVE h[j1] <= l[k1]
  <2>1. j1 = ti \/ j1 \in a .. (ti - 1)
    BY <1>1, <1>2
  <2>2. \A j2 \in a .. (ti - 1), k2 \in (p1 .. e) \cup (p2 .. r) : t[j2] <= l[k2]
    BY DEF Merging
  <2> QED
    BY <1>3, <2>1, <2>2
<1>7. Copies(h, l, a .. ti, (a .. (p1 - 1)) \cup ((e + 1) .. (p2 - 1)) \cup {d})
  <2> DEFINE A == a .. (ti - 1)
             B == (a .. (p1 - 1)) \cup ((e + 1) .. (p2 - 1))
  <2>1. Copies(t, l, A, B)
    BY DEF Merging
  <2>2. ti \notin A /\ A \cup {ti} = a .. ti
    BY <1>1, <1>2
  <2>5. d \notin B
    <3>1. (p1 <= d /\ d <= e) \/ (p2 <= d /\ d <= r)
      BY <1>1
    <3>2. \A b \in B : (a <= b /\ b <= p1 - 1) \/ (e + 1 <= b /\ b <= p2 - 1)
      BY <1>1
    <3> QED
      BY <1>1, <3>1, <3>2
  <2>3. \A k \in A : h[k] = t[k]
    BY <1>3
  <2> HIDE DEF A, B
  <2>4. Copies(h, l, A \cup {ti}, B \cup {d})
    BY <1>3, <2>1, <2>2, <2>3, <2>5, CopiesOneMore
  <2> QED
    BY <2>2, <2>4 DEF B
<1> QED
  BY <1>2, <1>5, <1>6, <1>7 DEF Taken, h

LEMMA MergingLeft ==
  ASSUME NEW n \in Nat, NEW l \in [0 .. (n - 1) -> Int], NEW t \in [0 .. (n - 1) -> Int],
         NEW a, NEW e, NEW r, NEW p1, NEW p2, NEW ti, r <= n - 1,
         Merging(l, t, a, e, r, p1, p2, ti), p1 <= e, p2 <= r => l[p1] <= l[p2]
  PROVE  ti \in a .. r /\ Merging(l, [t EXCEPT ![ti] = l[p1]], a, e, r, p1 + 1, p2, ti + 1)
<1> DEFINE h == [t EXCEPT ![ti] = l[p1]]
<1>1. /\ a \in Nat /\ e \in a .. r /\ r \in Nat /\ a <= e /\ e < r
      /\ p1 \in Int /\ a <= p1 /\ p1 <= e + 1 /\ p2 \in Int /\ e + 1 <= p2 /\ p2 <= r + 1
      /\ ti = p1 + (p2 - (e + 1)) /\ e \in Int
      /\ InOrderFrom(l, p1, e) /\ InOrderFrom(l, p2, r)
  BY DEF Merging
<1>2. \A k \in a .. r : l[k] \in Int
  BY <1>1
<1>3. ASSUME NEW k1 \in (p1 .. e) \cup (p2 .. r) PROVE l[p1] <= l[k1]
  <2>1. p1 \in a .. r /\ l[p1] \in Int
    BY <1>1, <1>2
  <2>2. CASE k1 \in p1 .. e
    <3>1. k1 = p1 \/ p1 < k1
      BY <1>1, <2>2
    <3>2. p1 \in p1 .. e
      BY <1>1
    <3>3. CASE p1 < k1
      BY <1>1, <2>2, <3>2, <3>3 DEF InOrderFrom
    <3>4. CASE k1 = p1
      BY <2>1, <3>4
    <3> QED
      BY <3>1, <3>3, <3>4
  <2>3. CASE k1 \in p2 .. r
    <3>1. (k1 = p2 \/ p2 < k1) /\ p2 \in p2 .. r /\ p2 <= r /\ k1 \in a .. r /\ p2 \in a .. r
      BY <1>1, <2>3
    <3>2. l[p2] <= l[k1] /\ l[p2] \in Int /\ l[k1] \in Int /\ l[p1] <= l[p2]
      <4>1. l[p2] \in Int /\ l[k1] \in Int
        BY <1>2, <3>1
      <4>2. CASE p2 < k1
        BY <1>1, <2>3, <3>1, <4>1, <4>2 DEF InOrderFrom
      <4>3. CASE k1 = p2
        BY <3>1, <4>1, <4>3
      <4> QED
        BY <3>1, <4>1, <4>2, <4>3
    <3> QED
      BY <2>1, <3>2
  <2> QED
    BY <2>2, <2>3
<1>4. p1 \in (p1 .. e) \cup (p2 .. r)
  BY <1>1
<1>5. /\ ti \in a .. r
      /\ InOrderFrom(h, a, ti)
      /\ \A j1 \in a .. ti, k1 \in (p1 .. e) \cup (p2 .. r) : h[j1] <= l[k1]
      /\ Copies(h, l, a .. ti, (a .. (p1 - 1)) \cup ((e + 1) .. (p2 - 1)) \cup {p1})
  <2>1. Taken(l, [t EXCEPT ![ti] = l[p1]], a, e, r, p1, p2, ti, p1)
    BY <1>3, <1>4, MergingTakes
  <2> QED
    BY <2>1 DEF Taken
<1> HIDE DEF h
<1>6. /\ ti + 1 - 1 = ti /\ ti + 1 = p1 + 1 + (p2 - (e + 1)) /\ p1 + 1 \in a .. (e + 1) /\ p2 \in (e + 1) .. (r + 1)
      /\ (a .. (p1 - 1)) \cup ((e + 1) .. (p2 - 1)) \cup {p1} = (a .. (p1 + 1 - 1)) \cup ((e + 1) .. (p2 - 1))
      /\ (p1 + 1) .. e \subseteq p1 .. e
  <2>0. p1 + 1 - 1 = p1
    BY <1>1
  <2>5. a \in Int /\ p1 \in Int /\ a <= p1
    BY <1>1
  <2>4. \A b : b \in (a .. (p1 - 1)) \cup {p1} <=> b \in a .. p1
    BY <2>5, OneMore
  <2>1. (a .. (p1 - 1)) \cup {p1} = a .. (p1 + 1 - 1)
    BY <2>0, <2>4
  <2>2. (a .. (p1 - 1)) \cup ((e + 1) .. (p2 - 1)) \cup {p1} = (a .. (p1 + 1 - 1)) \cup ((e + 1) .. (p2 - 1))
    BY <2>1
  <2>3. ti \in Int
    BY <1>1
  <2> QED
    BY <1>1, <2>2, <2>3
<1>7. InOrderFrom(l, p1 + 1, e)
  BY <1>1, <1>6 DEF InOrderFrom
<1>8. \A j1 \in a .. (ti + 1 - 1), k1 \in ((p1 + 1) .. e) \cup (p2 .. r) : h[j1] <= l[k1]
  BY <1>5, <1>6
<1>9. InOrderFrom(h, a, ti + 1 - 1)
  BY <1>5, <1>6
<1>10. Copies(h, l, a .. (ti + 1 - 1), (a .. (p1 + 1 - 1)) \cup ((e + 1) .. (p2 - 1)))
  BY <1>5, <1>6
<1>11. Merging(l, h, a, e, r, p1 + 1, p2, ti + 1)
  BY <1>1, <1>6, <1>7, <1>8, <1>9, <1>10 DEF Merging
<1> QED
  BY <1>5, <1>11 DEF h

LEMMA MergingRight ==
  ASSUME NEW n \in Nat, NEW l \in [0 .. (n - 1) -> Int], NEW t \in [0 .. (n - 1) -> Int],
         NEW a, NEW e, NEW r, NEW p1, NEW p2, NEW ti, r <= n - 1,
         Merging(l, t, a, e, r, p1, p2, ti), p2 <= r, p1 <= e => l[p1] > l[p2]
  PROVE  ti \in a .. r /\ Merging(l, [t EXCEPT ![ti] = l[p2]], a, e, r, p1, p2 + 1, ti + 1)
<1> DEFINE h == [t EXCEPT ![ti] = l[p2]]
<1>1. /\ a \in Nat /\ e \in a .. r /\ r \in Nat /\ a <= e /\ e < r
      /\ p1 \in Int /\ a <= p1 /\ p1 <= e + 1 /\ p2 \in Int /\ e + 1 <= p2 /\ p2 <= r + 1
      /\ ti = p1 + (p2 - (e + 1)) /\ e \in Int
      /\ InOrderFrom(l, p1, e) /\ InOrderFrom(l, p2, r)
  BY DEF Merging
<1>2. \A k \in a .. r : l[k] \in Int
  BY <1>1
<1>3. ASSUME NEW k1 \in (p1 .. e) \cup (p2 .. r) PROVE l[p2] <= l[k1]
  <2>1. p2 \in a .. r /\ l[p2] \in Int
    BY <1>1, <1>2
  <2>2. CASE k1 \in p2 .. r
    <3>1. k1 = p2 \/ p2 < k1
      BY <1>1, <2>2
    <3>2. p2 \in p2 .. r
      BY <1>1
    <3>3. CASE p2 < k1
      BY <1>1, <2>2, <3>2, <3>3 DEF InOrderFrom
    <3>4. CASE k1 = p2
      BY <2>1, <3>4
    <3> QED
      BY <3>1, <3>3, <3>4
  <2>3. CASE k1 \in p1 .. e
    <3>0. k1 \in Int /\ p1 <= k1 /\ k1 <= e
      BY <1>1, <2>3
    <3>1. (k1 = p1 \/ p1 < k1) /\ p1 \in p1 .. e /\ p1 <= e /\ k1 \in a .. r /\ p1 \in a .. r
      <4>1. (k1 = p1 \/ p1 < k1) /\ p1 <= e
        BY <1>1, <3>0
      <4>2. p1 \in p1 .. e
        BY <1>1, <4>1
      <4>3. a <= k1 /\ k1 <= r /\ p1 <= r
        BY <1>1, <3>0, <4>1
      <4> QED
        BY <1>1, <3>0, <4>1, <4>2, <4>3
    <3>2. l[p1] <= l[k1] /\ l[p1] \in Int /\ l[k1] \in Int /\ l[p1] > l[p2]
      <4>1. l[p1] \in Int /\ l[k1] \in Int
        BY <1>2, <3>1
      <4>2. CASE p1 < k1
        BY <1>1, <2>3, <3>1, <4>1, <4>2 DEF InOrderFrom
      <4>3. CASE k1 = p1
        BY <3>1, <4>1, <4>3
      <4> QED
        BY <3>1, <4>1, <4>2, <4>3
    <3> QED
      BY <2>1, <3>2
  <2> QED
    BY <2>2, <2>3
<1>4. p2 \in (p1 .. e) \cup (p2 .. r)
  BY <1>1
<1>5. /\ ti \in a .. r
      /\ InOrderFrom(h, a, ti)
      /\ \A j1 \in a .. ti, k1 \in (p1 .. e) \cup (p2 .. r) : h[j1] <= l[k1]
      /\ Copies(h, l, a .. ti, (a .. (p1 - 1)) \cup ((e + 1) .. (p2 - 1)) \cup {p2})
  <2>1. Taken(l, [t EXCEPT ![ti] = l[p2]], a, e, r, p1, p2, ti, p2)
    BY <1>3, <1>4, MergingTakes
  <2> QED
    BY <2>1 DEF Taken
<1> HIDE DEF h
<1>6. /\ ti + 1 - 1 = ti /\ ti + 1 = p1 + (p2 + 1 - (e + 1)) /\ p1 \in a .. (e + 1) /\ p2 + 1 \in (e + 1) .. (r + 1)
      /\ (a .. (p1 - 1)) \cup ((e + 1) .. (p2 - 1)) \cup {p2} = (a .. (p1 - 1)) \cup ((e + 1) .. (p2 + 1 - 1))
      /\ (p2 + 1) .. r \subseteq p2 .. r
  <2>0. p2 + 1 - 1 = p2
    BY <1>1
  <2>3. e + 1 \in Int /\ p2 \in Int /\ e + 1 <= p2
    BY <1>1
  <2>4. \A b : b \in ((e + 1) .. (p2 - 1)) \cup {p2} <=> b \in (e + 1) .. p2
    BY <2>3, OneMore
  <2>1. ((e + 1) .. (p2 - 1)) \cup {p2} = (e + 1) .. (p2 + 1 - 1)
    BY <2>0, <2>4
  <2>2. (a .. (p1 - 1)) \cup ((e + 1) .. (p2 - 1)) \cup {p2} = (a .. (p1 - 1)) \cup ((e + 1) .. (p2 + 1 - 1))
    BY <2>1
  <2>8. ti \in Int
    BY <1>1
  <2>5. ti + 1 - 1 = ti /\ ti + 1 = p1 + (p2 + 1 - (e + 1)) /\ p1 \in a .. (e + 1) /\ p2 + 1 \in (e + 1) .. (r + 1)
    BY <1>1, <2>8
  <2>6. (p2 + 1) .. r \subseteq p2 .. r
    BY <1>1
  <2> QED
    BY <2>2, <2>5, <2>6
<1>7. InOrderFrom(l, p2 + 1, r)
  BY <1>1, <1>6 DEF InOrderFrom
<1>8. \A j1 \in a .. (ti + 1 - 1), k1 \in (p1 .. e) \cup ((p2 + 1) .. r) : h[j1] <= l[k1]
  BY <1>5, <1>6
<1>9. InOrderFrom(h, a, ti + 1 - 1)
  BY <1>5, <1>6
<1>10. Copies(h, l, a .. (ti + 1 - 1), (a .. (p1 - 1)) \cup ((e + 1) .. (p2 + 1 - 1)))
  BY <1>5, <1>6
<1>11. Merging(l, h, a, e, r, p1, p2 + 1, ti + 1)
  BY <1>1, <1>6, <1>7, <1>8, <1>9, <1>10 DEF Merging
<1> QED
  BY <1>5, <1>11 DEF h

LEMMA MergingEnds ==
  ASSUME NEW n \in Nat, NEW l \in [0 .. (n - 1) -> Int], NEW t,
         NEW a, NEW e, NEW r, NEW p1, NEW p2, NEW ti, r <= n - 1,
         Merging(l, t, a, e, r, p1, p2, ti), p1 > e, p2 > r
  PROVE  InOrderFrom(t, a, r) /\ Copies(t, l, a .. r, a .. r) /\ a .. r \subseteq 0 .. (n - 1)
<1>1. /\ a \in Nat /\ e \in Int /\ r \in Nat /\ a <= e /\ e < r /\ p1 = e + 1 /\ p2 = r + 1
      /\ ti = p1 + (p2 - (e + 1))
  BY DEF Merging
<1>2. ti - 1 = r /\ (a .. (p1 - 1)) \cup ((e + 1) .. (p2 - 1)) = a .. r /\ a .. r \subseteq 0 .. (n - 1)
  BY <1>1
<1> QED
  BY <1>2 DEF Merging

-----------------------------------------------------------------------------
(* The calls that have not returned, from the outermost on, for an array l  *)
(* of n elements.                                                          *)

CallSet == [left : Int, right : Int, next : Int]

MidOf(c) == (c.right + c.left) \div 2

\* d is the call that c waits for.
Callee(c, d) == IF c.next = 2 THEN d.left = c.left /\ d.right = MidOf(c)
                              ELSE d.left = MidOf(c) + 1 /\ d.right = c.right

\* What holds of a call wherever it is, and of the innermost one.
Framed(l, c, n) ==
  /\ 0 <= c.left /\ c.right <= n - 1 /\ c.next \in {1, 2, 3}
  /\ c.next # 1 => c.left < c.right
  /\ c.next = 3 => InOrderFrom(l, c.left, MidOf(c))

HalfDone(l, c) ==
  /\ c.next = 2 => InOrderFrom(l, c.left, MidOf(c))
  /\ c.next = 3 => InOrderFrom(l, MidOf(c) + 1, c.right)

Stack(l, s, n) ==
  /\ s \in Seq(CallSet)
  /\ s = <<>> => InOrderFrom(l, 0, n - 1)
  /\ s # <<>> => s[1].left = 0 /\ s[1].right = n - 1 /\ HalfDone(l, s[Len(s)])
  /\ \A a \in 1 .. Len(s) : Framed(l, s[a], n)
  /\ \A a \in 1 .. (Len(s) - 1) : s[a].next # 1 /\ Callee(s[a], s[a + 1])
  /\ \A a, b \in 1 .. Len(s) : a < b /\ s[a].next = 3 => MidOf(s[a]) < s[b].left

LEMMA MidBetween ==
  ASSUME NEW c \in CallSet, 0 <= c.left, c.left < c.right
  PROVE  MidOf(c) \in Int /\ c.left <= MidOf(c) /\ MidOf(c) < c.right
<1>1. c.left \in Int /\ c.right \in Int
  BY DEF CallSet
<1> DEFINE a == c.left
           b == c.right
<1>2. a \in Int /\ b \in Int /\ 0 <= a /\ a < b
  BY <1>1
<1> HIDE DEF a, b
<1>3. (b + a) \div 2 \in Int /\ a <= (b + a) \div 2 /\ (b + a) \div 2 < b
  BY <1>2
<1> QED
  BY <1>3 DEF MidOf, a, b

LEMMA PopCalls ==
  ASSUME NEW s \in Seq(CallSet), s # <<>>
  PROVE  LET u == SubSeq(s, 1, Len(s) - 1)
         IN  u \in Seq(CallSet) /\ Len(s) \in Nat /\ Len(s) >= 1 /\ Len(u) = Len(s) - 1
             /\ \A k \in 1 .. (Len(s) - 1) : u[k] = s[k]
OBVIOUS

\* The calls s, with c for the innermost one and d called by it.
Pushed(s, c, d) == SubSeq(s, 1, Len(s) - 1) \o <<c, d>>

LEMMA PushCall ==
  ASSUME NEW s \in Seq(CallSet), s # <<>>, NEW c \in CallSet, NEW d \in CallSet
  PROVE  /\ Pushed(s, c, d) \in Seq(CallSet) /\ Len(s) \in Nat /\ Len(s) >= 1
         /\ Len(Pushed(s, c, d)) = Len(s) + 1
         /\ Pushed(s, c, d)[Len(s)] = c /\ Pushed(s, c, d)[Len(s) + 1] = d
         /\ \A k \in 1 .. (Len(s) - 1) : Pushed(s, c, d)[k] = s[k]
<1> DEFINE v == SubSeq(s, 1, Len(s) - 1)
<1>1. v \in Seq(CallSet) /\ Len(s) \in Nat /\ Len(s) >= 1 /\ Len(v) = Len(s) - 1
      /\ \A k \in 1 .. (Len(s) - 1) : v[k] = s[k]
  BY PopCalls
<1> DEFINE w == <<c, d>>
<1>2. w \in Seq(CallSet) /\ Len(w) = 2 /\ w[1] = c /\ w[2] = d
  OBVIOUS
<1> DEFINE z == Len(s)
           u == v \o w
<1>3. z \in Nat /\ z >= 1 /\ Len(v) = z - 1 /\ \A k \in 1 .. (z - 1) : v[k] = s[k]
  BY <1>1
<1> HIDE DEF v, w, z
<1>4. /\ u \in Seq(CallSet) /\ Len(u) = Len(v) + Len(w)
      /\ \A k \in 1 .. (Len(v) + Len(w)) : u[k] = IF k <= Len(v) THEN v[k] ELSE w[k - Len(v)]
  BY <1>1, <1>2, ConcatProperties
<1> HIDE DEF u
<1>5. Len(u) = z + 1 /\ \A k \in 1 .. (z + 1) : u[k] = IF k <= z - 1 THEN v[k] ELSE w[k - (z - 1)]
  BY <1>2, <1>3, <1>4
<1>6. u[z] = c
  <2>1. z \in 1 .. (z + 1) /\ ~(z <= z - 1) /\ z - (z - 1) = 1
    BY <1>3
  <2>2. u[z] = w[z - (z - 1)]
    BY <1>5, <2>1
  <2> QED
    BY <1>2, <2>1, <2>2
<1>7. u[z + 1] = d
  <2>1. z + 1 \in 1 .. (z + 1) /\ ~(z + 1 <= z - 1) /\ z + 1 - (z - 1) = 2
    BY <1>3
  <2> DEFINE y == z + 1
  <2>3. y \in 1 .. (z + 1) /\ ~(y <= z - 1)
    BY <2>1
  <2> HIDE DEF y
  <2>4. u[y] = w[y - (z - 1)]
    BY <1>5, <2>3
  <2>2. y - (z - 1) = 2
    <3>1. z \in Int
      BY <1>3
    <3> QED
      BY <3>1 DEF y
  <2>5. u[y] = d
    BY <1>2, <2>2, <2>4
  <2> QED
    BY <2>5 DEF y
<1>8. \A k \in 1 .. (z - 1) : u[k] = s[k]
  <2>1. \A k \in 1 .. (z - 1) : k \in 1 .. (z + 1) /\ k <= z - 1
    BY <1>3
  <2> QED
    BY <1>3, <1>5, <2>1
<1> QED
  BY <1>3, <1>4, <1>5, <1>6, <1>7, <1>8 DEF Pushed, u, v, w, z

\* The innermost call starts on a half of its part.
LEMMA StackPushed ==
  ASSUME NEW n \in Nat, NEW l, NEW s, NEW d \in CallSet, Stack(l, s, n), s # <<>>,
         s[Len(s)].left < s[Len(s)].right, s[Len(s)].next # 3, d.next = 1,
         Callee([s[Len(s)] EXCEPT !.next = @ + 1], d)
  PROVE  Stack(l, Pushed(s, [s[Len(s)] EXCEPT !.next = @ + 1], d), n)
<1> DEFINE z == Len(s)
           c == s[z]
           e == [c EXCEPT !.next = @ + 1]
           u == Pushed(s, e, d)
<1>1. s \in Seq(CallSet) /\ z \in Nat /\ z >= 1 /\ c \in CallSet
  BY DEF Stack
<1>2. /\ e \in CallSet /\ e.left = c.left /\ e.right = c.right /\ e.next = c.next + 1
      /\ c.left \in Int /\ c.right \in Int /\ MidOf(e) = MidOf(c)
  BY <1>1 DEF CallSet, MidOf
<1>3. /\ u \in Seq(CallSet) /\ Len(u) = z + 1
      /\ u[z] = e /\ u[z + 1] = d /\ \A k \in 1 .. (z - 1) : u[k] = s[k]
  <2>1. e \in CallSet
    BY <1>2
  <2> HIDE DEF e
  <2> QED
    BY <1>1, <2>1, PushCall
<1>4. Framed(l, c, n) /\ HalfDone(l, c) /\ c.left < c.right /\ c.next # 3 /\ Callee(e, d) /\ d.next = 1
  BY <1>1 DEF Stack
<1>5. /\ 0 <= c.left /\ c.right <= n - 1 /\ c.next \in {1, 2} /\ e.next \in {2, 3}
      /\ MidOf(c) \in Int /\ c.left <= MidOf(c) /\ MidOf(c) < c.right
  BY <1>1, <1>2, <1>4, MidBetween DEF Framed
<1>6. s[1].left = 0 /\ s[1].right = n - 1
  BY DEF Stack
<1> HIDE DEF e, u
<1>7. Framed(l, e, n)
  BY <1>2, <1>4, <1>5 DEF Framed, HalfDone
<1>8. d.left \in Int /\ d.right \in Int /\ c.left <= d.left /\ d.right <= c.right
  BY <1>2, <1>4, <1>5 DEF Callee, CallSet
<1>9. Framed(l, d, n) /\ HalfDone(l, d)
  BY <1>2, <1>4, <1>5, <1>8 DEF Framed, HalfDone
<1>10. \A a \in 1 .. (z - 1) : Framed(l, s[a], n) /\ s[a].next # 1
  BY <1>1 DEF Stack
<1>11. \A a \in 1 .. Len(u) : Framed(l, u[a], n)
  <2> TAKE a \in 1 .. Len(u)
  <2>1. a \in 1 .. (z - 1) \/ a = z \/ a = z + 1
    BY <1>1, <1>3
  <2> QED
    BY <1>3, <1>7, <1>9, <1>10, <2>1
<1>12. u # <<>> => u[1].left = 0 /\ u[1].right = n - 1 /\ HalfDone(l, u[Len(u)])
  <2>1. z = 1 \/ 1 \in 1 .. (z - 1)
    <3>1. z \in Nat /\ z >= 1
      BY <1>1
    <3> HIDE DEF z
    <3> QED
      BY <3>1
  <2> QED
    BY <1>2, <1>3, <1>6, <1>9, <2>1
<1>13. \A a \in 1 .. (Len(u) - 1) : u[a].next # 1 /\ Callee(u[a], u[a + 1])
  <2> TAKE a \in 1 .. (Len(u) - 1)
  <2>1. CASE a = z
    BY <1>3, <1>4, <1>5, <2>1
  <2>2. CASE a = z - 1
    <3>1. a \in 1 .. (z - 1) /\ a + 1 = z
      BY <1>1, <2>2
    <3>2. Callee(s[a], c)
      BY <3>1 DEF Stack
    <3>3. Callee(s[a], e)
      BY <1>2, <3>2 DEF Callee
    <3> QED
      BY <1>3, <1>10, <3>1, <3>3
  <2>3. CASE a < z - 1
    <3>1. a \in 1 .. (z - 1) /\ a + 1 \in 1 .. (z - 1)
      BY <1>1, <2>3
    <3>2. Callee(s[a], s[a + 1])
      BY <3>1 DEF Stack
    <3> QED
      BY <1>3, <1>10, <3>1, <3>2
  <2> QED
    BY <1>1, <1>3, <2>1, <2>2, <2>3
<1>14. \A a, b \in 1 .. Len(u) : a < b /\ u[a].next = 3 => MidOf(u[a]) < u[b].left
  <2> SUFFICES ASSUME NEW a \in 1 .. Len(u), NEW b \in 1 .. Len(u), a < b, u[a].next = 3
               PROVE  MidOf(u[a]) < u[b].left
    OBVIOUS
  <2>1. \A a1, b1 \in 1 .. z : a1 < b1 /\ s[a1].next = 3 => MidOf(s[a1]) < s[b1].left
    BY DEF Stack
  <2>2. CASE a = z
    <3>1. b = z + 1
      BY <1>1, <1>3, <2>2
    <3>2. d.left = MidOf(e) + 1
      BY <1>3, <1>4, <2>2 DEF Callee
    <3> QED
      BY <1>2, <1>3, <1>5, <2>2, <3>1, <3>2
  <2>3. CASE a \in 1 .. (z - 1)
    <3>1. u[a] = s[a] /\ s[a].next = 3 /\ s[a] \in CallSet
      BY <1>1, <1>3, <2>3
    <3>2. CASE b \in 1 .. (z - 1)
      BY <1>1, <1>3, <2>1, <2>3, <3>1, <3>2
    <3>3. CASE b = z \/ b = z + 1
      <4>1. MidOf(s[a]) < c.left
        BY <1>1, <2>1, <2>3, <3>1
      <4>2. MidOf(s[a]) \in Int
        <5>1. s[a].left \in Int /\ s[a].right \in Int
          BY <3>1 DEF CallSet
        <5> QED
          BY <5>1 DEF MidOf
      <4> QED
        BY <1>2, <1>3, <1>8, <3>1, <3>3, <4>1, <4>2
    <3> QED
      BY <1>1, <1>3, <3>2, <3>3
  <2> QED
    BY <1>1, <1>3, <2>2, <2>3
<1>15. u # <<>>
  BY <1>1, <1>3
<1> QED
  BY <1>3, <1>11, <1>12, <1>13, <1>14, <1>15 DEF Stack, u, e

\* The innermost call returns with its part in order.
LEMMA StackPopped ==
  ASSUME NEW n \in Nat, NEW l, NEW h, NEW s, Stack(l, s, n), s # <<>>,
         InOrderFrom(h, s[Len(s)].left, s[Len(s)].right),
         \A k \in 0 .. (n - 1) : k < s[Len(s)].left => h[k] = l[k]
  PROVE  Stack(h, SubSeq(s, 1, Len(s) - 1), n)
<1> DEFINE z == Len(s)
           c == s[z]
           u == SubSeq(s, 1, z - 1)
<1>1. /\ s \in Seq(CallSet) /\ z \in Nat /\ z >= 1 /\ c \in CallSet
      /\ u \in Seq(CallSet) /\ Len(u) = z - 1 /\ \A k \in 1 .. (z - 1) : u[k] = s[k]
  BY PopCalls DEF Stack
<1> HIDE DEF u
<1>2. ASSUME NEW a \in 1 .. (z - 1) PROVE Framed(h, s[a], n)
  <2>1. Framed(l, s[a], n) /\ s[a] \in CallSet /\ a \in 1 .. z /\ z \in 1 .. z /\ a < z
    BY <1>1 DEF Stack
  <2>2. CASE s[a].next = 3
    <3>1. MidOf(s[a]) < c.left
      BY <2>1, <2>2 DEF Stack
    <3>2. /\ s[a].left \in Int /\ s[a].right \in Int /\ 0 <= s[a].left /\ s[a].right <= n - 1
          /\ MidOf(s[a]) \in Int /\ MidOf(s[a]) < s[a].right /\ c.left \in Int
      <4>1. 0 <= s[a].left /\ s[a].left < s[a].right /\ s[a].right <= n - 1
        BY <2>1, <2>2 DEF Framed
      <4>2. MidOf(s[a]) \in Int /\ MidOf(s[a]) < s[a].right
        BY <2>1, <4>1, MidBetween
      <4> QED
        BY <1>1, <2>1, <4>1, <4>2 DEF CallSet
    <3>3. \A k \in s[a].left .. MidOf(s[a]) : h[k] = l[k]
      BY <3>1, <3>2
    <3>4. InOrderFrom(h, s[a].left, MidOf(s[a]))
      BY <2>1, <2>2, <3>3 DEF Framed, InOrderFrom
    <3> QED
      BY <2>1, <3>4 DEF Framed
  <2>3. CASE s[a].next # 3
    BY <2>1, <2>3 DEF Framed
  <2> QED
    BY <2>2, <2>3
<1>3. u = <<>> => InOrderFrom(h, 0, n - 1)
  <2> SUFFICES ASSUME u = <<>> PROVE InOrderFrom(h, 0, n - 1)
    OBVIOUS
  <2>1. z = 1
    BY <1>1
  <2>2. c.left = 0 /\ c.right = n - 1
    BY <2>1 DEF Stack
  <2> QED
    BY <2>2
<1>4. u # <<>> => u[1].left = 0 /\ u[1].right = n - 1 /\ HalfDone(h, u[Len(u)])
  <2> SUFFICES ASSUME u # <<>> PROVE u[1].left = 0 /\ u[1].right = n - 1 /\ HalfDone(h, u[Len(u)])
    OBVIOUS
  <2>1. Len(u) # 0
    BY <1>1
  <2>2. z - 1 \in 1 .. (z - 1) /\ 1 \in 1 .. (z - 1) /\ z - 1 + 1 = z
    BY <1>1, <2>1
  <2>3. Callee(s[z - 1], c) /\ s[z - 1].next # 1
    BY <2>2 DEF Stack
  <2>4. HalfDone(h, s[z - 1])
    BY <2>3 DEF Callee, HalfDone
  <2> QED
    BY <1>1, <2>2, <2>4 DEF Stack
<1>5. \A a \in 1 .. (Len(u) - 1) : u[a].next # 1 /\ Callee(u[a], u[a + 1])
  <2> TAKE a \in 1 .. (Len(u) - 1)
  <2>1. a \in 1 .. (z - 1) /\ a + 1 \in 1 .. (z - 1)
    BY <1>1
  <2> QED
    BY <1>1, <2>1 DEF Stack
<1>6. \A a, b \in 1 .. Len(u) : a < b /\ u[a].next = 3 => MidOf(u[a]) < u[b].left
  <2>1. \A a \in 1 .. Len(u) : a \in 1 .. z /\ u[a] = s[a]
    BY <1>1
  <2> QED
    BY <2>1 DEF Stack
<1>7. \A a \in 1 .. Len(u) : Framed(h, u[a], n)
  BY <1>1, <1>2
<1> QED
  BY <1>1, <1>3, <1>4, <1>5, <1>6, <1>7 DEF Stack, u

-----------------------------------------------------------------------------
(* Merge sort.                                                             *)

\* The merge of the innermost call.
MergeInv ==
  pc = "merge" =>
    /\ calls # <<>> /\ M!Top.next = 3
    /\ m.end = MidOf(M!Top) /\ m.right = M!Top.right /\ m.num = M!Top.right - M!Top.left + 1
    /\ Merging(list, temp, M!Top.left, m.end, m.right, m.left, m.mid, m.temp_idx)

MerInv ==
  which = "merge" =>
    /\ IsArray(list, M!n, Values) /\ temp \in [0 .. (M!n - 1) -> Int]
    /\ pc \in {"msort", "merge", "done"}
    /\ m \in [left : Int, end : Int, mid : Int, right : Int, temp_idx : Int, num : Int]
    /\ Stack(list, calls, M!n)
    /\ pc = "done" => calls = <<>>
    /\ MergeInv

LEMMA TopIs == M!Top = calls[Len(calls)] /\ M!Around = SubSeq(calls, 1, Len(calls) - 1)
BY DEF M!Top, M!Around

LEMMA MidIs == M!Mid = MidOf(M!Top)
BY DEF M!Mid, MidOf

\* The whole array is to be sorted.
LEMMA StackStarts ==
  ASSUME NEW n \in Nat, NEW l
  PROVE  Stack(l, <<M!Call(0, n - 1)>>, n)
<1> DEFINE c == M!Call(0, n - 1)
           s == <<c>>
<1>1. c \in CallSet /\ c.left = 0 /\ c.right = n - 1 /\ c.next = 1
  BY DEF M!Call, CallSet
<1> HIDE DEF c
<1>2. s \in Seq(CallSet) /\ s # <<>> /\ Len(s) = 1 /\ s[1] = c
  BY <1>1
<1> HIDE DEF s
<1>3. Framed(l, c, n) /\ HalfDone(l, c)
  BY <1>1 DEF Framed, HalfDone
<1>4. \A a \in 1 .. Len(s) : a = 1
  BY <1>2
<1>5. \A a \in 1 .. (Len(s) - 1) : FALSE
  BY <1>2
<1>6. \A a, b \in 1 .. Len(s) : ~(a < b)
  BY <1>4
<1>7. Stack(l, s, n)
  BY <1>1, <1>2, <1>3, <1>4, <1>5, <1>6 DEF Stack
<1> QED
  BY <1>7 DEF s, c

LEMMA InitMerInv == Init => MerInv
<1> SUFFICES ASSUME Init, which = "merge" PROVE MerInv
  BY DEF MerInv
<1>1. M!Init
  BY DEF Init
<1>2. PICK len \in 0 .. MaxLen : list \in [0 .. (len - 1) -> Values]
  BY <1>1 DEF M!Init
<1>3. IsArray(list, len, Values) /\ len \in Nat
  BY <1>2, MaxLenAssumption DEF IsArray
<1>4. M!n = len /\ DOMAIN list = 0 .. (len - 1)
  BY <1>3, ArraySize, SameCardinality DEF M!n
<1>5. temp = [k \in DOMAIN list |-> 0] /\ calls = <<M!Call(0, M!n - 1)>> /\ m = M!Idle /\ pc = "msort"
  BY <1>1 DEF M!Init
<1>6. temp \in [0 .. (len - 1) -> Int]
  BY <1>4, <1>5
<1>7. m \in [left : Int, end : Int, mid : Int, right : Int, temp_idx : Int, num : Int]
  BY <1>5 DEF M!Idle
<1>8. Stack(list, calls, M!n)
  BY <1>3, <1>4, <1>5, StackStarts
<1> QED
  BY <1>3, <1>4, <1>5, <1>6, <1>7, <1>8 DEF MerInv, MergeInv

\* What a merge sort that goes on knows of its innermost call.
LEMMA TopFacts ==
  ASSUME MerInv, which = "merge", calls # <<>>
  PROVE  /\ calls \in Seq(CallSet) /\ Len(calls) \in 1 .. Len(calls) /\ M!Top \in CallSet
         /\ M!n \in Nat /\ Framed(list, M!Top, M!n) /\ HalfDone(list, M!Top)
         /\ M!Top.left \in Int /\ M!Top.right \in Int /\ M!Top.next \in {1, 2, 3}
         /\ M!Top.left >= 0 /\ M!Top.right <= M!n - 1
<1>1. Stack(list, calls, M!n) /\ M!n \in Nat
  BY DEF MerInv, IsArray
<1>2. calls \in Seq(CallSet) /\ Len(calls) \in 1 .. Len(calls)
  BY <1>1 DEF Stack
<1>3. M!Top \in CallSet /\ Framed(list, M!Top, M!n) /\ HalfDone(list, M!Top)
  BY <1>1, <1>2, TopIs DEF Stack
<1> QED
  BY <1>1, <1>2, <1>3 DEF Framed, CallSet

LEMMA RecurseMerInv ==
  ASSUME MerInv, which = "merge", which' = which, pc = "msort", calls # <<>>, NEW d \in CallSet, M!Recurse(d),
         M!Top.left < M!Top.right, M!Top.next # 3, d.next = 1,
         Callee([M!Top EXCEPT !.next = @ + 1], d)
  PROVE  MerInv'
<1>1. /\ list' = list /\ temp' = temp /\ m' = m /\ pc' = pc
      /\ calls' = Pushed(calls, [M!Top EXCEPT !.next = @ + 1], d)
  BY TopIs DEF M!Recurse, Pushed
<1>2. M!n' = M!n
  BY <1>1 DEF M!n
<1>3. M!n \in Nat /\ Stack(list, calls, M!n)
  BY DEF MerInv, IsArray
<1>4. Stack(list, calls', M!n)
  BY <1>1, <1>3, TopIs, StackPushed
<1> QED
  BY <1>1, <1>2, <1>4 DEF MerInv, MergeInv

LEMMA FirstHalfMerInv == MerInv /\ which = "merge" /\ which' = which /\ M!FirstHalf => MerInv'
<1> SUFFICES ASSUME MerInv, which = "merge", which' = which, M!FirstHalf PROVE MerInv'
  OBVIOUS
<1> DEFINE d == M!Call(M!Top.left, M!Mid)
<1>1. pc = "msort" /\ calls # <<>> /\ M!Top.right > M!Top.left /\ M!Top.next = 1 /\ M!Recurse(d)
  BY DEF M!FirstHalf
<1>2. /\ M!Top \in CallSet /\ M!Top.left \in Int /\ M!Top.right \in Int /\ M!Top.left >= 0
  BY <1>1, TopFacts
<1>3. MidOf(M!Top) \in Int /\ M!Top.left < M!Top.right
  BY <1>1, <1>2, MidBetween
<1>4. d \in CallSet /\ d.next = 1 /\ d.left = M!Top.left /\ d.right = MidOf(M!Top)
  BY <1>2, <1>3, MidIs DEF M!Call, CallSet
<1> HIDE DEF d
<1> DEFINE c == M!Top
           e == [c EXCEPT !.next = @ + 1]
<1>5. e.left = c.left /\ e.right = c.right /\ e.next = 2
  BY <1>1, <1>2 DEF CallSet
<1>6. Callee(e, d)
  BY <1>4, <1>5 DEF Callee, MidOf
<1> QED
  BY <1>1, <1>3, <1>4, <1>6, RecurseMerInv

LEMMA SecondHalfMerInv == MerInv /\ which = "merge" /\ which' = which /\ M!SecondHalf => MerInv'
<1> SUFFICES ASSUME MerInv, which = "merge", which' = which, M!SecondHalf PROVE MerInv'
  OBVIOUS
<1> DEFINE d == M!Call(M!Mid + 1, M!Top.right)
<1>1. pc = "msort" /\ calls # <<>> /\ M!Top.right > M!Top.left /\ M!Top.next = 2 /\ M!Recurse(d)
  BY DEF M!SecondHalf
<1>2. /\ M!Top \in CallSet /\ M!Top.left \in Int /\ M!Top.right \in Int /\ M!Top.left >= 0
  BY <1>1, TopFacts
<1>3. MidOf(M!Top) \in Int /\ M!Top.left < M!Top.right
  BY <1>1, <1>2, MidBetween
<1>4. d \in CallSet /\ d.next = 1 /\ d.left = MidOf(M!Top) + 1 /\ d.right = M!Top.right
  BY <1>2, <1>3, MidIs DEF M!Call, CallSet
<1> HIDE DEF d
<1> DEFINE c == M!Top
           e == [c EXCEPT !.next = @ + 1]
<1>5. e.left = c.left /\ e.right = c.right /\ e.next = 3
  BY <1>1, <1>2 DEF CallSet
<1>6. Callee(e, d)
  BY <1>4, <1>5 DEF Callee, MidOf
<1> QED
  BY <1>1, <1>3, <1>4, <1>6, RecurseMerInv

LEMMA MergeHalvesMerInv == MerInv /\ which = "merge" /\ which' = which /\ M!MergeHalves => MerInv'
<1> SUFFICES ASSUME MerInv, which = "merge", which' = which, M!MergeHalves PROVE MerInv'
  OBVIOUS
<1> DEFINE c == M!Top
<1>1. /\ pc = "msort" /\ calls # <<>> /\ c.right > c.left /\ c.next = 3
      /\ m' = [left |-> c.left, end |-> M!Mid, mid |-> M!Mid + 1, right |-> c.right,
               temp_idx |-> c.left, num |-> c.right - c.left + 1]
      /\ pc' = "merge" /\ list' = list /\ temp' = temp /\ calls' = calls
  BY DEF M!MergeHalves
<1>2. /\ c \in CallSet /\ c.left \in Int /\ c.right \in Int /\ c.left >= 0 /\ c.right <= M!n - 1
      /\ Framed(list, c, M!n) /\ HalfDone(list, c)
  BY <1>1, TopFacts
<1>3. MidOf(c) \in Int /\ c.left <= MidOf(c) /\ MidOf(c) < c.right
  BY <1>1, <1>2, MidBetween
<1>4. M!n' = M!n /\ M!Top' = M!Top
  BY <1>1 DEF M!n, M!Top
<1>5. InOrderFrom(list, c.left, MidOf(c)) /\ InOrderFrom(list, MidOf(c) + 1, c.right)
  BY <1>1, <1>2 DEF Framed, HalfDone
<1>6. m' \in [left : Int, end : Int, mid : Int, right : Int, temp_idx : Int, num : Int]
  BY <1>1, <1>2, <1>3, MidIs
<1>7. c.left \in Nat /\ c.right \in Nat /\ MidOf(c) \in c.left .. c.right
  BY <1>2, <1>3
<1> HIDE DEF c
<1>8. Merging(list, temp, c.left, MidOf(c), c.right, c.left, MidOf(c) + 1, c.left)
  BY <1>3, <1>5, <1>7, MergingStarts
<1>9. /\ m'.left = c.left /\ m'.end = MidOf(c) /\ m'.mid = MidOf(c) + 1 /\ m'.right = c.right
      /\ m'.temp_idx = c.left /\ m'.num = c.right - c.left + 1
  BY <1>1, MidIs DEF c
<1>10. MergeInv'
  BY <1>1, <1>4, <1>8, <1>9 DEF MergeInv, c
<1> QED
  BY <1>1, <1>4, <1>6, <1>10 DEF MerInv

LEMMA ReturnMerInv == MerInv /\ which = "merge" /\ which' = which /\ M!Return => MerInv'
<1> SUFFICES ASSUME MerInv, which = "merge", which' = which, M!Return PROVE MerInv'
  OBVIOUS
<1> DEFINE c == M!Top
<1>1. /\ pc = "msort" /\ calls # <<>> /\ c.right <= c.left
      /\ list' = list /\ temp' = temp /\ m' = m /\ pc' = pc
      /\ calls' = SubSeq(calls, 1, Len(calls) - 1)
  BY TopIs DEF M!Return
<1>2. c.left \in Int /\ c.right \in Int /\ M!n \in Nat /\ Stack(list, calls, M!n)
  BY <1>1, TopFacts DEF MerInv
<1>3. InOrderFrom(list, c.left, c.right)
  BY <1>1, <1>2 DEF InOrderFrom
<1>4. Stack(list, calls', M!n)
  BY <1>1, <1>2, <1>3, TopIs, StackPopped
<1>5. M!n' = M!n
  BY <1>1 DEF M!n
<1> QED
  BY <1>1, <1>4, <1>5 DEF MerInv, MergeInv

\* What a merge knows.
LEMMA MergeFacts ==
  ASSUME MerInv, which = "merge", pc = "merge"
  PROVE  /\ M!n \in Nat /\ list \in [0 .. (M!n - 1) -> Int] /\ temp \in [0 .. (M!n - 1) -> Int]
         /\ calls # <<>> /\ M!Top.next = 3 /\ m.right <= M!n - 1 /\ m.right = M!Top.right
         /\ m.end = MidOf(M!Top) /\ m.num = M!Top.right - M!Top.left + 1
         /\ Merging(list, temp, M!Top.left, m.end, m.right, m.left, m.mid, m.temp_idx)
         /\ m.left \in Int /\ m.end \in Int /\ m.mid \in Int /\ m.temp_idx \in Int /\ m.right \in Int
<1>1. MergeInv /\ IsArray(list, M!n, Values) /\ temp \in [0 .. (M!n - 1) -> Int]
  BY DEF MerInv
<1>2. M!n \in Nat /\ list \in [0 .. (M!n - 1) -> Int]
  BY <1>1, ValuesAssumption DEF IsArray
<1>3. /\ calls # <<>> /\ M!Top.next = 3 /\ m.right = M!Top.right
      /\ m.end = MidOf(M!Top) /\ m.num = M!Top.right - M!Top.left + 1
      /\ Merging(list, temp, M!Top.left, m.end, m.right, m.left, m.mid, m.temp_idx)
  BY <1>1 DEF MergeInv
<1>4. m.right <= M!n - 1
  BY <1>3, TopFacts
<1>5. m.left \in Int /\ m.end \in Int /\ m.mid \in Int /\ m.temp_idx \in Int /\ m.right \in Int
  BY DEF MerInv
<1> QED
  BY <1>1, <1>2, <1>3, <1>4, <1>5

LEMMA TakeLeftMerInv == MerInv /\ which = "merge" /\ which' = which /\ M!TakeLeft => MerInv'
<1> SUFFICES ASSUME MerInv, which = "merge", which' = which, M!TakeLeft PROVE MerInv'
  OBVIOUS
<1>1. /\ pc = "merge" /\ m.left <= m.end /\ (m.mid <= m.right => list[m.left] <= list[m.mid])
      /\ temp' = [temp EXCEPT ![m.temp_idx] = list[m.left]]
      /\ m' = [m EXCEPT !.left = @ + 1, !.temp_idx = @ + 1]
      /\ list' = list /\ calls' = calls /\ pc' = pc
  BY DEF M!TakeLeft
<1>2. /\ m.temp_idx \in M!Top.left .. m.right
      /\ Merging(list, temp', M!Top.left, m.end, m.right, m.left + 1, m.mid, m.temp_idx + 1)
  BY <1>1, MergeFacts, MergingLeft
<1>3. M!n' = M!n /\ M!Top' = M!Top
  BY <1>1 DEF M!n, M!Top
<1>4. /\ m' \in [left : Int, end : Int, mid : Int, right : Int, temp_idx : Int, num : Int]
      /\ m'.left = m.left + 1 /\ m'.temp_idx = m.temp_idx + 1
      /\ m'.end = m.end /\ m'.mid = m.mid /\ m'.right = m.right /\ m'.num = m.num
  <2>1. m \in [left : Int, end : Int, mid : Int, right : Int, temp_idx : Int, num : Int]
    BY DEF MerInv
  <2>2. m.left + 1 \in Int /\ m.temp_idx + 1 \in Int
    BY <2>1
  <2>3. m' = [left |-> m.left + 1, end |-> m.end, mid |-> m.mid,
              right |-> m.right, temp_idx |-> m.temp_idx + 1, num |-> m.num]
    BY <1>1, <2>1
  <2> QED
    BY <2>1, <2>2, <2>3
<1>5. MergeInv'
  BY <1>1, <1>2, <1>3, <1>4, MergeFacts DEF MergeInv
<1>6. temp' \in [0 .. (M!n - 1) -> Int]
  <2>1. list[m.left] \in Int
    <3>1. m.left \in 0 .. (M!n - 1)
      <4>1. /\ M!Top.left \in Nat /\ M!Top.left <= m.left /\ m.left \in Int /\ m.end < m.right
            /\ m.end \in Int /\ m.right \in Int /\ m.right <= M!n - 1 /\ M!n \in Nat
        BY <1>1, MergeFacts DEF Merging
      <4> QED
        BY <1>1, <4>1
    <3> QED
      BY <1>1, <3>1, MergeFacts
  <2> QED
    BY <1>1, <2>1, MergeFacts
<1> QED
  BY <1>1, <1>3, <1>4, <1>5, <1>6 DEF MerInv

LEMMA TakeRightMerInv == MerInv /\ which = "merge" /\ which' = which /\ M!TakeRight => MerInv'
<1> SUFFICES ASSUME MerInv, which = "merge", which' = which, M!TakeRight PROVE MerInv'
  OBVIOUS
<1>1. /\ pc = "merge" /\ m.mid <= m.right /\ (m.left <= m.end => list[m.left] > list[m.mid])
      /\ temp' = [temp EXCEPT ![m.temp_idx] = list[m.mid]]
      /\ m' = [m EXCEPT !.mid = @ + 1, !.temp_idx = @ + 1]
      /\ list' = list /\ calls' = calls /\ pc' = pc
  BY DEF M!TakeRight
<1>2. /\ m.temp_idx \in M!Top.left .. m.right
      /\ Merging(list, temp', M!Top.left, m.end, m.right, m.left, m.mid + 1, m.temp_idx + 1)
  BY <1>1, MergeFacts, MergingRight
<1>3. M!n' = M!n /\ M!Top' = M!Top
  BY <1>1 DEF M!n, M!Top
<1>4. /\ m' \in [left : Int, end : Int, mid : Int, right : Int, temp_idx : Int, num : Int]
      /\ m'.mid = m.mid + 1 /\ m'.temp_idx = m.temp_idx + 1
      /\ m'.end = m.end /\ m'.left = m.left /\ m'.right = m.right /\ m'.num = m.num
  <2>1. m \in [left : Int, end : Int, mid : Int, right : Int, temp_idx : Int, num : Int]
    BY DEF MerInv
  <2>2. m.mid + 1 \in Int /\ m.temp_idx + 1 \in Int
    BY <2>1
  <2>3. m' = [left |-> m.left, end |-> m.end, mid |-> m.mid + 1,
              right |-> m.right, temp_idx |-> m.temp_idx + 1, num |-> m.num]
    BY <1>1, <2>1
  <2> QED
    BY <2>1, <2>2, <2>3
<1>5. MergeInv'
  BY <1>1, <1>2, <1>3, <1>4, MergeFacts DEF MergeInv
<1>6. temp' \in [0 .. (M!n - 1) -> Int]
  <2>1. list[m.mid] \in Int
    <3>1. m.mid \in 0 .. (M!n - 1)
      <4>1. /\ M!Top.left \in Nat /\ M!Top.left <= m.end /\ m.mid \in Int /\ m.end + 1 <= m.mid
            /\ m.end \in Int /\ m.right \in Int /\ m.right <= M!n - 1 /\ M!n \in Nat
        BY <1>1, MergeFacts DEF Merging
      <4> QED
        BY <1>1, <4>1
    <3> QED
      BY <1>1, <3>1, MergeFacts
  <2> QED
    BY <1>1, <2>1, MergeFacts
<1> QED
  BY <1>1, <1>3, <1>4, <1>5, <1>6 DEF MerInv

\* What the merge brings back.
LEMMA CopyBackFacts ==
  ASSUME MerInv, which = "merge", M!CopyBack
  PROVE  /\ calls # <<>> /\ pc = "merge" /\ M!Top.left \in Nat /\ M!Top.right <= M!n - 1
         /\ list' = [k \in DOMAIN list |-> IF k \in M!Top.left .. M!Top.right THEN temp[k] ELSE list[k]]
         /\ InOrderFrom(temp, M!Top.left, M!Top.right)
         /\ Copies(temp, list, M!Top.left .. M!Top.right, M!Top.left .. M!Top.right)
         /\ M!Top.left .. M!Top.right \subseteq 0 .. (M!n - 1)
         /\ DOMAIN list = 0 .. (M!n - 1)
<1> DEFINE c == M!Top
<1>1. /\ pc = "merge" /\ m.left > m.end /\ m.mid > m.right
      /\ list' = [k \in DOMAIN list |-> IF k \in (m.right - m.num + 1) .. m.right THEN temp[k] ELSE list[k]]
  BY DEF M!CopyBack
<1>2. c.left \in Int /\ c.right \in Int /\ m.right = c.right /\ m.num = c.right - c.left + 1
      /\ calls # <<>> /\ M!n \in Nat /\ c.left >= 0
  BY <1>1, MergeFacts, TopFacts
<1>3. m.right - m.num + 1 = c.left
  BY <1>2
<1>4. /\ InOrderFrom(temp, M!Top.left, m.right)
      /\ Copies(temp, list, M!Top.left .. m.right, M!Top.left .. m.right)
      /\ M!Top.left .. m.right \subseteq 0 .. (M!n - 1)
  BY <1>1, MergeFacts, MergingEnds
<1>5. DOMAIN list = 0 .. (M!n - 1) /\ m.right <= M!n - 1
  BY <1>1, MergeFacts
<1> QED
  BY <1>1, <1>2, <1>3, <1>4, <1>5

LEMMA CopyBackMerInv == MerInv /\ which = "merge" /\ which' = which /\ M!CopyBack => MerInv'
<1> SUFFICES ASSUME MerInv, which = "merge", which' = which, M!CopyBack PROVE MerInv'
  OBVIOUS
<1> DEFINE n == M!n
           c == M!Top
           A == c.left .. c.right
<1>1. /\ calls # <<>> /\ c.left \in Nat /\ A \subseteq 0 .. (n - 1) /\ DOMAIN list = 0 .. (n - 1)
      /\ list' = [k \in DOMAIN list |-> IF k \in A THEN temp[k] ELSE list[k]]
      /\ InOrderFrom(temp, c.left, c.right) /\ Copies(temp, list, A, A)
  BY CopyBackFacts
<1>2. /\ calls' = SubSeq(calls, 1, Len(calls) - 1) /\ m' = M!Idle /\ pc' = "msort" /\ temp' = temp
  BY TopIs DEF M!CopyBack
<1>3. n \in Nat /\ list \in [0 .. (n - 1) -> Values] /\ Stack(list, calls, n)
  BY DEF MerInv, IsArray
<1>4. temp \in [0 .. (n - 1) -> Int] /\ c.right \in Int
  BY <1>1, TopFacts DEF MerInv
<1> HIDE DEF n, c
<1>5. \A k \in A : temp[k] \in Values /\ list'[k] = temp[k]
  <2>1. PICK p : p \in [A -> A] /\ \A a \in A : temp[a] = list[p[a]]
    BY <1>1 DEF Copies
  <2> HIDE DEF A
  <2> QED
    BY <1>1, <1>3, <2>1
<1>6. \A k \in 0 .. (n - 1) : k < c.left => list'[k] = list[k]
  BY <1>1, <1>4
<1>7. IsArray(list', n, Values)
  <2>1. \A k \in 0 .. (n - 1) : list'[k] \in Values
    BY <1>1, <1>3, <1>5
  <2>2. list' = [k \in 0 .. (n - 1) |-> list'[k]]
    BY <1>1
  <2>3. list' \in [0 .. (n - 1) -> Values]
    BY <2>1, <2>2
  <2> QED
    BY <1>3, <2>3 DEF IsArray
<1>8. n' = n
  BY <1>7, ArraySize, SameCardinality DEF M!n, n
<1>9. InOrderFrom(list', c.left, c.right)
  BY <1>1, <1>5 DEF InOrderFrom
<1>10. Stack(list', calls', n)
  BY <1>1, <1>2, <1>3, <1>6, <1>9, TopIs, StackPopped DEF c
<1>11. m' \in [left : Int, end : Int, mid : Int, right : Int, temp_idx : Int, num : Int]
  BY <1>2 DEF M!Idle
<1>12. MergeInv'
  BY <1>2 DEF MergeInv
<1> QED
  BY <1>2, <1>4, <1>7, <1>8, <1>10, <1>11, <1>12 DEF MerInv, n

\* When main's call returns the whole array is in order.
LEMMA FinishMerInv == MerInv /\ which = "merge" /\ which' = which /\ M!Finish => MerInv' /\ S!InOrder(list)
<1> SUFFICES ASSUME MerInv, which = "merge", which' = which, M!Finish PROVE MerInv' /\ S!InOrder(list)
  OBVIOUS
<1>1. /\ pc = "msort" /\ calls = <<>> /\ pc' = "done"
      /\ list' = list /\ temp' = temp /\ calls' = calls /\ m' = m
  BY DEF M!Finish
<1>2. M!n' = M!n
  BY <1>1 DEF M!n
<1>3. MerInv'
  BY <1>1, <1>2 DEF MerInv, MergeInv
<1>4. InOrderFrom(list, 0, M!n - 1) /\ DOMAIN list = 0 .. (M!n - 1)
  BY <1>1 DEF MerInv, Stack, IsArray
<1> QED
  BY <1>3, <1>4 DEF S!InOrder, InOrderFrom

LEMMA AgainMerInv == MerInv /\ which = "merge" /\ which' = which /\ M!Again => MerInv'
<1> SUFFICES ASSUME MerInv, which = "merge", which' = which, M!Again PROVE MerInv'
  OBVIOUS
<1>1. /\ calls' = <<M!Call(0, M!n - 1)>> /\ pc' = "msort" /\ list' = list /\ temp' = temp /\ m' = m
  BY DEF M!Again
<1>2. M!n' = M!n
  BY <1>1 DEF M!n
<1>3. M!n \in Nat
  BY DEF MerInv, IsArray
<1>4. Stack(list, calls', M!n)
  BY <1>1, <1>3, StackStarts
<1> QED
  BY <1>1, <1>2, <1>4 DEF MerInv, MergeInv

LEMMA NextMerInv == MerInv /\ [Next]_vars => MerInv'
<1> SUFFICES ASSUME MerInv, [Next]_vars, which' = "merge" PROVE MerInv'
  BY DEF MerInv
<1>1. which = "merge" /\ which' = which
  BY DEF Next, Merge, Radix, Select, Insert, Again, Stopped, vars
<1>2. CASE Merge
  <2>1. M!Next
    BY <1>2 DEF Merge
  <2>2. CASE M!FirstHalf
    BY <1>1, <2>2, FirstHalfMerInv
  <2>3. CASE M!SecondHalf
    BY <1>1, <2>3, SecondHalfMerInv
  <2>4. CASE M!MergeHalves
    BY <1>1, <2>4, MergeHalvesMerInv
  <2>5. CASE M!Return
    BY <1>1, <2>5, ReturnMerInv
  <2>6. CASE M!TakeLeft
    BY <1>1, <2>6, TakeLeftMerInv
  <2>7. CASE M!TakeRight
    BY <1>1, <2>7, TakeRightMerInv
  <2>8. CASE M!CopyBack
    BY <1>1, <2>8, CopyBackMerInv
  <2>9. CASE M!Finish
    BY <1>1, <2>9, FinishMerInv
  <2> QED
    BY <2>1, <2>2, <2>3, <2>4, <2>5, <2>6, <2>7, <2>8, <2>9 DEF M!Next
<1>3. CASE Again
  BY <1>1, <1>3, AgainMerInv DEF Again
<1>4. CASE Stopped \/ UNCHANGED vars
  <2>1. list' = list /\ temp' = temp /\ calls' = calls /\ m' = m /\ pc' = pc
    BY <1>4 DEF Stopped, vars, mvars
  <2>2. M!n' = M!n /\ M!Top' = M!Top
    BY <2>1 DEF M!n, M!Top
  <2>3. MergeInv' <=> MergeInv
    BY <2>1, <2>2 DEF MergeInv
  <2> QED
    BY <1>1, <2>1, <2>2, <2>3 DEF MerInv
<1> QED
  BY <1>1, <1>2, <1>3, <1>4 DEF Next, Radix, Select, Insert

\* A step of merge sort rearranges the array.
LEMMA MerRearranges == MerInv /\ which = "merge" /\ M!Next => Rearranged(list, list')
<1> SUFFICES ASSUME MerInv, which = "merge", M!Next PROVE Rearranged(list, list')
  OBVIOUS
<1>1. CASE M!CopyBack
  <2> DEFINE A == M!Top.left .. M!Top.right
  <2>1. /\ A \subseteq DOMAIN list /\ Copies(temp, list, A, A)
        /\ list' = [k \in DOMAIN list |-> IF k \in A THEN temp[k] ELSE list[k]]
    BY <1>1, CopyBackFacts
  <2> HIDE DEF A
  <2> QED
    BY <2>1, CopiesBack
<1>2. CASE list' = list
  BY <1>2, RearrangedSelf
<1> QED
  BY <1>1, <1>2
  DEF M!Next, M!FirstHalf, M!SecondHalf, M!Recurse, M!MergeHalves, M!Return, M!TakeLeft, M!TakeRight, M!Finish

-----------------------------------------------------------------------------
(* Powers of two.                                                          *)

LEMMA LeastElement ==
  ASSUME NEW X \in SUBSET Nat, X # {}
  PROVE  \E a \in X : \A b \in X : a <= b
<1>1. IsWellFoundedOn(OpToRel(<, Nat), Nat)
  BY NatLessThanWellFounded
<1>2. PICK a \in X : \A b \in X : <<b, a>> \notin OpToRel(<, Nat)
  BY <1>1, WFMin
<1>3. \A b \in X : ~(b < a)
  BY <1>2 DEF OpToRel
<1> QED
  BY <1>3

\* A set of naturals with 0 and the successor of each of its elements is Nat.
LEMMA Induction ==
  ASSUME NEW X, 0 \in X, \A k \in Nat : k \in X => k + 1 \in X
  PROVE  Nat \subseteq X
<1> DEFINE T == Nat \ X
<1>1. SUFFICES ASSUME T # {} PROVE FALSE
  OBVIOUS
<1>2. PICK a \in T : \A b \in T : a <= b
  BY <1>1, LeastElement
<1>3. a \in Nat /\ a # 0 /\ a - 1 \in Nat /\ a - 1 < a /\ a - 1 + 1 = a
  BY <1>2
<1>4. a - 1 \in X
  BY <1>2, <1>3
<1> QED
  BY <1>2, <1>3, <1>4

\* The first powers, up to the k-th.
IsPowers(B, k) == B = [a \in 0 .. k |-> IF a = 0 THEN 1 ELSE 2 * B[a - 1]]

LEMMA PowersExist == \A k \in Nat : \E B : IsPowers(B, k)
<1> DEFINE X == {k \in Nat : \E B : IsPowers(B, k)}
<1>1. 0 \in X
  <2> DEFINE B == [a \in 0 .. 0 |-> 1]
  <2>1. IsPowers(B, 0)
    BY DEF IsPowers
  <2> QED
    BY <2>1
<1>2. ASSUME NEW k \in Nat, k \in X PROVE k + 1 \in X
  <2>1. PICK B : IsPowers(B, k)
    BY <1>2
  <2> DEFINE C == [a \in 0 .. (k + 1) |-> IF a = k + 1 THEN 2 * B[k] ELSE B[a]]
             D == [a \in 0 .. (k + 1) |-> IF a = 0 THEN 1 ELSE 2 * C[a - 1]]
  <2>2. \A a \in 0 .. k : B[a] = IF a = 0 THEN 1 ELSE 2 * B[a - 1]
    BY <2>1 DEF IsPowers
  <2>3. ASSUME NEW a \in 0 .. (k + 1) PROVE C[a] = D[a]
    <3>1. CASE a = k + 1
      BY <3>1
    <3>2. CASE a # k + 1
      <4>1. a \in 0 .. k /\ C[a] = B[a] /\ (a # 0 => C[a - 1] = B[a - 1])
        BY <3>2
      <4>2. D[a] = IF a = 0 THEN 1 ELSE 2 * C[a - 1]
        OBVIOUS
      <4> HIDE DEF C, D
      <4> QED
        BY <2>2, <4>1, <4>2
    <3> QED
      BY <3>1, <3>2
  <2>4. C = D
    BY <2>3
  <2>5. IsPowers(C, k + 1)
    BY <2>4 DEF IsPowers
  <2> QED
    BY <2>5
<1> HIDE DEF X
<1>3. Nat \subseteq X
  BY <1>1, <1>2, Induction
<1> QED
  BY <1>3 DEF X

LEMMA PowersAgree ==
  ASSUME NEW k \in Nat, NEW b \in Nat, NEW B, NEW C, IsPowers(B, k), IsPowers(C, b)
  PROVE  \A a \in Nat : a <= k /\ a <= b => B[a] = C[a]
<1> DEFINE X == {a \in Nat : a <= k /\ a <= b => B[a] = C[a]}
<1>1. /\ \A a \in 0 .. k : B[a] = IF a = 0 THEN 1 ELSE 2 * B[a - 1]
      /\ \A a \in 0 .. b : C[a] = IF a = 0 THEN 1 ELSE 2 * C[a - 1]
  BY DEF IsPowers
<1>2. 0 \in X
  BY <1>1
<1>3. ASSUME NEW a \in Nat, a \in X PROVE a + 1 \in X
  <2>1. SUFFICES ASSUME a + 1 <= k, a + 1 <= b PROVE B[a + 1] = C[a + 1]
    OBVIOUS
  <2>2. a + 1 \in 0 .. k /\ a + 1 \in 0 .. b /\ a + 1 # 0 /\ a + 1 - 1 = a /\ a <= k /\ a <= b
    BY <2>1
  <2>3. B[a] = C[a]
    BY <1>3, <2>2
  <2> QED
    BY <1>1, <2>2, <2>3
<1> HIDE DEF X
<1>4. Nat \subseteq X
  BY <1>2, <1>3, Induction
<1> QED
  BY <1>4 DEF X

LEMMA TwoIs == R!two[0] = 1 /\ \A k \in Nat : R!two[k + 1] = 2 * R!two[k]
<1> DEFINE P(k) == CHOOSE B : IsPowers(B, k)
           f == [k \in Nat |-> P(k)[k]]
           g == [k \in Nat |-> IF k = 0 THEN 1 ELSE 2 * f[k - 1]]
<1>1. \A k \in Nat : IsPowers(P(k), k)
  BY PowersExist
<1> HIDE DEF P
<1>2. ASSUME NEW k \in Nat PROVE f[k] = g[k]
  <2>1. f[k] = P(k)[k] /\ IsPowers(P(k), k)
    BY <1>1
  <2>2. P(k)[k] = IF k = 0 THEN 1 ELSE 2 * P(k)[k - 1]
    BY <2>1 DEF IsPowers
  <2>3. CASE k = 0
    BY <2>1, <2>2, <2>3
  <2>4. CASE k # 0
    <3>1. k - 1 \in Nat /\ k - 1 <= k /\ k - 1 <= k - 1
      BY <2>4
    <3>2. P(k)[k - 1] = P(k - 1)[k - 1]
      BY <1>1, <3>1, PowersAgree
    <3>3. f[k - 1] = P(k - 1)[k - 1]
      BY <3>1
    <3> QED
      BY <2>1, <2>2, <2>4, <3>2, <3>3
  <2> QED
    BY <2>3, <2>4
<1>3. f = g
  BY <1>2
<1> HIDE DEF f
<1>4. \E h : h = [k \in Nat |-> IF k = 0 THEN 1 ELSE 2 * h[k - 1]]
  BY <1>3
<1>5. R!two = [k \in Nat |-> IF k = 0 THEN 1 ELSE 2 * R!two[k - 1]]
  BY <1>4 DEF R!two
<1>6. \A k \in Nat : R!two[k] = IF k = 0 THEN 1 ELSE 2 * R!two[k - 1]
  BY <1>5
<1>7. \A k \in Nat : k + 1 \in Nat /\ k + 1 # 0 /\ k + 1 - 1 = k
  OBVIOUS
<1> QED
  BY <1>6, <1>7

LEMMA TwoIsPositive == \A k \in Nat : R!two[k] \in Nat /\ R!two[k] >= 1
<1> DEFINE X == {k \in Nat : R!two[k] \in Nat /\ R!two[k] >= 1}
<1>1. 0 \in X
  BY TwoIs
<1>2. \A k \in Nat : k \in X => k + 1 \in X
  BY TwoIs
<1> HIDE DEF X
<1>3. Nat \subseteq X
  BY <1>1, <1>2, Induction
<1> QED
  BY <1>3 DEF X

LEMMA TwoAdds == \A a, b \in Nat : R!two[a + b] = R!two[a] * R!two[b]
<1> SUFFICES ASSUME NEW a \in Nat PROVE \A b \in Nat : R!two[a + b] = R!two[a] * R!two[b]
  OBVIOUS
<1> DEFINE X == {b \in Nat : R!two[a + b] = R!two[a] * R!two[b]}
<1>1. 0 \in X
  <2>1. a + 0 = a /\ R!two[a] \in Nat
    BY TwoIsPositive
  <2> QED
    BY <2>1, TwoIs
<1>2. ASSUME NEW b \in Nat, b \in X PROVE b + 1 \in X
  <2>1. R!two[a + b] = R!two[a] * R!two[b]
    BY <1>2
  <2>2. a + (b + 1) = (a + b) + 1 /\ a + b \in Nat
    OBVIOUS
  <2>3. R!two[a + (b + 1)] = 2 * R!two[a + b] /\ R!two[b + 1] = 2 * R!two[b]
    BY <2>2, TwoIs
  <2>4. R!two[a] \in Nat /\ R!two[b] \in Nat
    BY TwoIsPositive
  <2> DEFINE p == R!two[a]
             q == R!two[b]
  <2>5. p \in Nat /\ q \in Nat
    BY <2>4
  <2> HIDE DEF p, q
  <2>6. 2 * (p * q) = p * (2 * q)
    BY <2>5
  <2> QED
    BY <2>1, <2>3, <2>6 DEF p, q
<1> HIDE DEF X
<1>3. Nat \subseteq X
  BY <1>1, <1>2, Induction
<1> QED
  BY <1>3 DEF X

-----------------------------------------------------------------------------
(* Division.                                                               *)

LEMMA Divided ==
  ASSUME NEW v \in Nat, NEW p \in Nat, p >= 1
  PROVE  /\ v \div p \in Nat /\ v % p \in 0 .. (p - 1)
         /\ v = p * (v \div p) + (v % p)
OBVIOUS

LEMMA ProductsGrow ==
  ASSUME NEW p \in Nat, NEW a \in Int, NEW b \in Int, a <= b
  PROVE  p * a <= p * b /\ p * a \in Int /\ p * b \in Int
OBVIOUS

\* There is one way to divide.
LEMMA DividedOnce ==
  ASSUME NEW v \in Nat, NEW p \in Nat, p >= 1, NEW q \in Int, NEW r \in 0 .. (p - 1), v = p * q + r
  PROVE  v % p = r
<1> DEFINE u == v \div p
           s == v % p
<1>1. u \in Int /\ s \in 0 .. (p - 1) /\ v = p * u + s
  BY Divided
<1> HIDE DEF u, s
<1>2. CASE u < q
  <2>1. u + 1 <= q
    BY <1>1, <1>2
  <2>2. p * (u + 1) <= p * q /\ p * q \in Int
    BY <1>1, <2>1, ProductsGrow
  <2>3. p * (u + 1) = p * u + p /\ p * u \in Int
    BY <1>1
  <2> QED
    BY <1>1, <2>2, <2>3
<1>3. CASE q < u
  <2>1. q + 1 <= u
    BY <1>1, <1>3
  <2>2. p * (q + 1) <= p * u /\ p * u \in Int
    BY <1>1, <2>1, ProductsGrow
  <2>3. p * (q + 1) = p * q + p /\ p * q \in Int
    BY <1>1
  <2> QED
    BY <1>1, <2>2, <2>3
<1>4. CASE u = q
  <2>1. p * q \in Int
    OBVIOUS
  <2> QED
    BY <1>1, <1>4, <2>1 DEF s
<1> QED
  BY <1>1, <1>2, <1>3, <1>4

\* The digits below and above.
LEMMA RestOfProduct ==
  ASSUME NEW v \in Nat, NEW p \in Nat, p >= 1, NEW q \in Nat, q >= 1
  PROVE  v % (p * q) = (v % p) + p * ((v \div p) % q)
<1> DEFINE u == v \div p
           r == v % p
           w == u \div q
           s == u % q
<1>1. u \in Nat /\ r \in 0 .. (p - 1) /\ v = p * u + r
  BY Divided
<1> HIDE DEF u, r
<1>2. w \in Nat /\ s \in 0 .. (q - 1) /\ u = q * w + s
  BY <1>1, Divided
<1> HIDE DEF w, s
<1>3. p * u = (p * q) * w + p * s /\ (p * q) * w \in Int /\ p * s \in Int
  <2>1. p * u = p * (q * w + s)
    BY <1>2
  <2>2. p * (q * w + s) = p * (q * w) + p * s
    BY <1>2
  <2>3. p * (q * w) = (p * q) * w
    BY <1>2
  <2> QED
    BY <1>2, <2>1, <2>2, <2>3
<1>4. p * s <= p * (q - 1) /\ p * (q - 1) = p * q - p /\ p * q \in Nat /\ p * 0 <= p * s /\ p * q >= 1
  <2>1. p * s <= p * (q - 1) /\ p * 0 <= p * s
    BY <1>2, ProductsGrow
  <2>2. p * (q - 1) = p * q - p /\ p * q \in Int
    OBVIOUS
  <2>3. p * 1 <= p * q
    BY ProductsGrow
  <2> QED
    BY <2>1, <2>2, <2>3
<1> DEFINE z == p * q
           y == p * s + r
<1>5. y \in 0 .. (z - 1) /\ v = z * w + y /\ z \in Nat /\ z >= 1
  BY <1>1, <1>3, <1>4
<1> HIDE DEF z, y
<1>6. v % z = y
  BY <1>2, <1>5, DividedOnce
<1>7. p * s + r = r + p * s
  BY <1>1, <1>3
<1> QED
  BY <1>6, <1>7 DEF z, y, u, r, w, s

-----------------------------------------------------------------------------
(* The digits of radix sort.                                               *)

\* The digit by which a pass sorts and what the passes before it have sorted
\* by, for the shift s and the behaviour h beyond the width.
DigitOf(s, h, v) ==
  (CASE s < W -> v \div R!two[s]
     [] s >= W /\ h = "masked" -> v \div R!two[s % W]
     [] OTHER -> 0) % R!two[group]

KeyOf(s, h, v) == CASE s <= W -> v % R!two[s]
                    [] s > W /\ h = "masked" -> (v % R!two[s - W]) * R!two[W] + v
                    [] OTHER -> v

Rand == 0 .. (R!two[W - 1] - 1)

LEMMA RandFacts ==
  /\ R!two[W] \in Nat /\ R!two[W] >= 1
  /\ \A v \in Rand : v \in Nat /\ v < R!two[W] /\ v % R!two[W] = v
<1>1. W - 1 \in Nat /\ W - 1 + 1 = W /\ W \in Nat
  BY RadixAssumption
<1>2. R!two[W] = 2 * R!two[W - 1] /\ R!two[W - 1] \in Nat /\ R!two[W - 1] >= 1 /\ R!two[W] \in Nat
  BY <1>1, TwoIs, TwoIsPositive
<1> DEFINE z == R!two[W]
<1>3. z \in Nat /\ z >= 1 /\ \A v \in Rand : v \in Nat /\ v < z
  BY <1>2 DEF Rand
<1> HIDE DEF z
<1>4. ASSUME NEW v \in Rand PROVE v % z = v
  <2>1. v \in Nat /\ v \in 0 .. (z - 1) /\ v = z * 0 + v
    BY <1>3
  <2> QED
    BY <1>3, <2>1, DividedOnce
<1> QED
  BY <1>3, <1>4 DEF z

\* The next multiple of group.
LEMMA NextMultiple ==
  ASSUME NEW a \in Nat, NEW b \in Nat, a % group = 0, b % group = 0, a < b
  PROVE  a + group <= b /\ (a + group) % group = 0
<1> DEFINE g == group
           p == a \div g
           q == b \div g
<1>1. g \in Nat /\ g >= 1 /\ a % g = 0 /\ b % g = 0
  BY RadixAssumption
<1>2. p \in Nat /\ q \in Nat /\ a = g * p + (a % g) /\ b = g * q + (b % g)
  BY <1>1, Divided
<1> HIDE DEF p, q, g
<1>3. a = g * p /\ b = g * q
  BY <1>1, <1>2
<1>4. p < q
  <2>1. CASE q <= p
    BY <1>1, <1>2, <1>3, <2>1, ProductsGrow
  <2> QED
    BY <1>2, <2>1
<1>5. g * (p + 1) <= g * q
  <2>1. p + 1 <= q /\ p + 1 \in Int /\ q \in Int
    BY <1>2, <1>4
  <2> QED
    BY <1>1, <2>1, ProductsGrow
<1>6. g * (p + 1) = g * p + g
  BY <1>1, <1>2
<1>7. a + g \in Nat /\ a + g = g * (p + 1) + 0 /\ 0 \in 0 .. (g - 1) /\ p + 1 \in Int
  BY <1>1, <1>2, <1>3, <1>6
<1>8. (a + g) % g = 0
  BY <1>1, <1>7, DividedOnce
<1> QED
  BY <1>1, <1>3, <1>5, <1>6, <1>8 DEF g

\* The rests by two powers, the greater one a digit further.
LEMMA RestAndDigit ==
  ASSUME NEW s \in Nat, NEW v \in Nat
  PROVE  LET d == (v \div R!two[s]) % R!two[group]
         IN  /\ v % R!two[s + group] = (v % R!two[s]) + R!two[s] * d
             /\ d \in Nat /\ d < R!two[group] /\ v % R!two[s] \in Nat /\ v % R!two[s] < R!two[s] /\ R!two[s] \in Nat
             /\ v % R!two[s + group] \in Nat
<1> DEFINE p == R!two[s]
           q == R!two[group]
<1>1. p \in Nat /\ q \in Nat /\ p >= 1 /\ q >= 1 /\ R!two[s + group] = p * q
  BY TwoAdds, TwoIsPositive, RadixAssumption
<1> HIDE DEF p, q
<1>2. v % (p * q) = (v % p) + p * ((v \div p) % q)
  BY <1>1, RestOfProduct
<1>3. v \div p \in Nat /\ v % p \in 0 .. (p - 1)
  BY <1>1, Divided
<1>4. (v \div p) % q \in 0 .. (q - 1)
  BY <1>1, <1>3, Divided
<1>5. (v % p) + p * ((v \div p) % q) \in Nat
  <2> DEFINE b == (v \div p) % q
  <2>1. b \in Nat
    BY <1>1, <1>4
  <2> HIDE DEF b
  <2>2. p * b \in Nat
    BY <1>1, <2>1
  <2> QED
    BY <1>1, <1>3, <2>2 DEF b
<1> QED
  BY <1>1, <1>2, <1>3, <1>4, <1>5 DEF p, q

\* A smaller digit, or an equal one and a smaller rest below it.
LEMMA RestGrows ==
  ASSUME NEW p \in Nat, NEW a \in Nat, NEW b \in Nat, NEW c \in Nat, NEW d \in Nat, a < p, b < p, c < d
  PROVE  a + p * c + 1 <= b + p * d
<1>1. p * (c + 1) <= p * d /\ p * d \in Int
  BY ProductsGrow
<1>2. p * (c + 1) = p * c + p /\ p * c \in Int
  OBVIOUS
<1> QED
  BY <1>1, <1>2

\* A pass sorts by one digit more.
LEMMA KeyGrows ==
  ASSUME NEW s \in Nat, NEW h \in {"masked", "out"}, s % group = 0, s < MAXBITS, NEW v \in Rand, NEW w \in Rand,
         \/ DigitOf(s, h, v) < DigitOf(s, h, w)
         \/ DigitOf(s, h, v) = DigitOf(s, h, w) /\ KeyOf(s, h, v) <= KeyOf(s, h, w)
  PROVE  KeyOf(s + group, h, v) <= KeyOf(s + group, h, w)
<1>1. /\ group \in Nat /\ group >= 1 /\ W \in Nat /\ W >= 1 /\ W % group = 0 /\ MAXBITS = 2 * W
  BY RadixAssumption
<1>2. v \in Nat /\ w \in Nat /\ v < R!two[W] /\ w < R!two[W] /\ v % R!two[W] = v /\ w % R!two[W] = w
      /\ R!two[W] \in Nat
  BY RandFacts
<1>3. CASE s < W
  <2> DEFINE p == R!two[s]
             dv == (v \div p) % R!two[group]
             dw == (w \div p) % R!two[group]
  <2>1. s + group <= W
    BY <1>1, <1>3, NextMultiple
  <2>2. /\ DigitOf(s, h, v) = dv /\ DigitOf(s, h, w) = dw
        /\ KeyOf(s, h, v) = v % p /\ KeyOf(s, h, w) = w % p
        /\ KeyOf(s + group, h, v) = v % R!two[s + group] /\ KeyOf(s + group, h, w) = w % R!two[s + group]
    BY <1>1, <1>3, <2>1 DEF DigitOf, KeyOf
  <2>3. /\ v % R!two[s + group] = (v % p) + p * dv /\ dv \in Nat /\ v % p \in Nat /\ v % p < p /\ p \in Nat
        /\ w % R!two[s + group] = (w % p) + p * dw /\ dw \in Nat /\ w % p \in Nat /\ w % p < p
    BY <1>2, RestAndDigit
  <2> DEFINE a == v % p
             b == w % p
  <2> HIDE DEF p, dv, dw, a, b
  <2>4. /\ v % R!two[s + group] = a + p * dv /\ w % R!two[s + group] = b + p * dw
        /\ dv \in Nat /\ a \in Nat /\ a < p /\ p \in Nat /\ dw \in Nat /\ b \in Nat /\ b < p
    BY <2>3 DEF a, b
  <2>5. p * dv \in Nat /\ p * dw \in Nat
    BY <2>4
  <2>6. CASE dv < dw
    <3>1. a + p * dv + 1 <= b + p * dw
      BY <2>4, <2>6, RestGrows
    <3> QED
      BY <2>2, <2>4, <2>5, <3>1
  <2>7. CASE dv = dw /\ a <= b
    BY <2>2, <2>4, <2>5, <2>7
  <2> QED
    BY <2>2, <2>6, <2>7 DEF a, b
<1>4. CASE s >= W /\ h = "out"
  <2>1. s + group > W
    BY <1>1, <1>4
  <2>2. KeyOf(s + group, h, v) = v /\ KeyOf(s + group, h, w) = w
    BY <1>1, <1>4, <2>1 DEF KeyOf
  <2>3. DigitOf(s, h, v) = DigitOf(s, h, w)
    BY <1>1, <1>4 DEF DigitOf
  <2>4. KeyOf(s, h, v) = v /\ KeyOf(s, h, w) = w
    <3>1. CASE s = W
      BY <1>1, <1>2, <3>1 DEF KeyOf
    <3>2. CASE s # W
      BY <1>1, <1>4, <3>2 DEF KeyOf
    <3> QED
      BY <3>1, <3>2
  <2>5. DigitOf(s, h, v) \in Nat
    <3>1. DigitOf(s, h, v) = 0 % R!two[group]
      BY <1>1, <1>4 DEF DigitOf
    <3>2. R!two[group] \in Nat /\ R!two[group] >= 1
      BY <1>1, TwoIsPositive
    <3> QED
      BY <3>1, <3>2, Divided
  <2> QED
    BY <2>2, <2>3, <2>4, <2>5
<1>5. CASE s >= W /\ h = "masked"
  <2> DEFINE t == s - W
             z == R!two[W]
             p == R!two[t]
             dv == (v \div p) % R!two[group]
             dw == (w \div p) % R!two[group]
             a == v % p
             b == w % p
  <2>1. t \in Nat /\ t < W /\ s = W * 1 + t /\ t \in 0 .. (W - 1) /\ s + group > W /\ s + group - W = t + group
    BY <1>1, <1>5
  <2>2. s % W = t
    BY <1>1, <2>1, DividedOnce
  <2>3. /\ v % R!two[t + group] = a + p * dv /\ dv \in Nat /\ a \in Nat /\ a < p /\ p \in Nat
        /\ w % R!two[t + group] = b + p * dw /\ dw \in Nat /\ b \in Nat /\ b < p
    BY <1>2, <2>1, RestAndDigit
  <2>4. DigitOf(s, h, v) = dv /\ DigitOf(s, h, w) = dw
    BY <1>1, <1>5, <2>2 DEF DigitOf
  <2>5. KeyOf(s, h, v) = a * z + v /\ KeyOf(s, h, w) = b * z + w
    <3>1. CASE s = W
      <4>1. t = 0 /\ p = 1
        BY <1>1, <3>1, TwoIs
      <4>2. a = 0 /\ b = 0
        BY <2>3, <4>1
      <4>3. 0 * z = 0
        BY <1>2
      <4>4. KeyOf(s, h, v) = v /\ KeyOf(s, h, w) = w
        BY <1>1, <1>2, <3>1 DEF KeyOf
      <4> HIDE DEF a, b, z
      <4> QED
        BY <1>2, <4>2, <4>3, <4>4
    <3>2. CASE s # W
      BY <1>1, <1>5, <3>2 DEF KeyOf
    <3> QED
      BY <3>1, <3>2
  <2>6. KeyOf(s + group, h, v) = (a + p * dv) * z + v /\ KeyOf(s + group, h, w) = (b + p * dw) * z + w
    BY <1>1, <1>5, <2>1, <2>3 DEF KeyOf
  <2>7. z \in Nat /\ v < z /\ w < z
    BY <1>2
  <2> HIDE DEF t, z, p, dv, dw, a, b
  <2> DEFINE ev == p * dv
             ew == p * dw
  <2>8. ev \in Nat /\ ew \in Nat
    BY <2>3
  <2>9. CASE dv < dw
    <3>1. a + ev + 1 <= b + ew
      BY <2>3, <2>9, RestGrows
    <3> HIDE DEF ev, ew
    <3> DEFINE f == a + ev
               g == b + ew
    <3>2. f \in Nat /\ g \in Nat /\ f + 1 <= g
      BY <2>3, <2>8, <3>1
    <3> HIDE DEF f, g
    <3>3. z * (f + 1) <= z * g
      BY <2>7, <3>2, ProductsGrow
    <3>4. z * (f + 1) = f * z + z /\ z * g = g * z /\ f * z \in Int /\ g * z \in Int
      BY <2>7, <3>2
    <3>5. f * z + v <= g * z + w
      BY <1>2, <2>7, <3>3, <3>4
    <3> QED
      BY <2>6, <3>5 DEF f, g, ev, ew
  <2>10. CASE dv = dw /\ a * z + v <= b * z + w
    <3>1. ev = ew
      BY <2>10
    <3> HIDE DEF ev, ew
    <3>2. (a + ev) * z = a * z + ev * z /\ (b + ew) * z = b * z + ew * z
          /\ a * z \in Int /\ ev * z \in Int /\ b * z \in Int
      BY <2>3, <2>7, <2>8
    <3>3. (a + ev) * z + v <= (b + ew) * z + w
      BY <1>2, <2>10, <3>1, <3>2
    <3> QED
      BY <2>6, <3>3 DEF ev, ew
  <2> QED
    BY <2>4, <2>5, <2>9, <2>10
<1> QED
  BY <1>1, <1>3, <1>4, <1>5

\* After the last pass nothing is left to be sorted by.
LEMMA LastKey ==
  ASSUME NEW h \in {"masked", "out"}, NEW v \in Rand, NEW w \in Rand, KeyOf(MAXBITS, h, v) <= KeyOf(MAXBITS, h, w)
  PROVE  v <= w
<1>1. W \in Nat /\ MAXBITS = 2 * W /\ MAXBITS > W /\ MAXBITS - W = W
  BY RadixAssumption
<1> DEFINE z == R!two[W]
<1>2. v \in Nat /\ w \in Nat /\ v % z = v /\ w % z = w /\ z \in Nat
  BY RandFacts
<1>3. CASE h = "out"
  BY <1>1, <1>3 DEF KeyOf
<1>4. CASE h = "masked"
  <2>1. KeyOf(MAXBITS, h, v) = v * z + v /\ KeyOf(MAXBITS, h, w) = w * z + w
    BY <1>1, <1>2, <1>4 DEF KeyOf
  <2> HIDE DEF z
  <2>2. CASE w < v
    <3>1. z * w <= z * v /\ z * w = w * z /\ z * v = v * z /\ w * z \in Int /\ v * z \in Int
      BY <1>2, <2>2, ProductsGrow
    <3> QED
      BY <1>2, <2>1, <2>2, <3>1
  <2> QED
    BY <1>2, <2>2
<1> QED
  BY <1>3, <1>4

\* Before the first pass everything is equal.
LEMMA FirstKey == ASSUME NEW h, NEW v \in Rand PROVE KeyOf(0, h, v) = 0
<1>1. W \in Nat /\ 0 <= W /\ ~(0 > W) /\ R!two[0] = 1
  BY RadixAssumption, TwoIs
<1>2. KeyOf(0, h, v) = v % 1
  BY <1>1 DEF KeyOf
<1>3. v \in Nat /\ 1 \in Nat /\ v % 1 \in 0 .. (1 - 1)
  BY RandFacts, Divided
<1>4. v % 1 = 0
  BY <1>3
<1> QED
  BY <1>2, <1>4

LEMMA DigitInRange ==
  ASSUME NEW s \in Nat, NEW h, NEW v \in Nat
  PROVE  DigitOf(s, h, v) \in 0 .. (R!two[group] - 1)
<1>1. W \in Nat /\ W >= 1 /\ R!two[group] \in Nat /\ R!two[group] >= 1
  BY RadixAssumption, TwoIsPositive
<1> DEFINE u == CASE s < W -> v \div R!two[s]
                  [] s >= W /\ h = "masked" -> v \div R!two[s % W]
                  [] OTHER -> 0
<1>2. u \in Nat
  <2>1. s % W \in Nat
    BY <1>1, Divided
  <2>2. v \div R!two[s] \in Nat /\ v \div R!two[s % W] \in Nat
    BY <2>1, TwoIsPositive, Divided
  <2> QED
    BY <2>2
<1> HIDE DEF u
<1>3. u % R!two[group] \in 0 .. (R!two[group] - 1)
  BY <1>1, <1>2, Divided
<1> QED
  BY <1>3 DEF DigitOf, u

-----------------------------------------------------------------------------
(* Sorting by counting.                                                    *)

\* Of the k elements with the digits d, those that come before an element
\* with the digit b in place a; and how many they are.
Ahead(d, k, b, a)   == {c \in 0 .. (k - 1) : d[c] < b \/ (d[c] = b /\ c < a)}
PlaceOf(d, k, b, a) == Cardinality(Ahead(d, k, b, a))

IsDigits(d, k) == k \in Nat /\ d \in [0 .. (k - 1) -> Int]

LEMMA AheadFinite ==
  ASSUME NEW k \in Nat, NEW d, NEW b, NEW a
  PROVE  IsFiniteSet(Ahead(d, k, b, a)) /\ PlaceOf(d, k, b, a) \in Nat
<1>1. IsFiniteSet(0 .. (k - 1))
  BY FS_Interval
<1>2. Ahead(d, k, b, a) \in SUBSET (0 .. (k - 1))
  BY DEF Ahead
<1>3. IsFiniteSet(Ahead(d, k, b, a))
  BY <1>1, <1>2, FS_Subset
<1> QED
  BY <1>3, FS_CardinalityType DEF PlaceOf

\* The element itself is the next to be counted ...
LEMMA PlaceNext ==
  ASSUME NEW k, NEW d, IsDigits(d, k), NEW a \in 0 .. (k - 1)
  PROVE  PlaceOf(d, k, d[a], a + 1) = PlaceOf(d, k, d[a], a) + 1
<1> DEFINE A == Ahead(d, k, d[a], a)
<1>1. k \in Nat /\ d[a] \in Int /\ \A c \in 0 .. (k - 1) : d[c] \in Int /\ c \in Int
  BY DEF IsDigits
<1>2. IsFiniteSet(A)
  BY <1>1, AheadFinite
<1>3. a \notin A
  BY <1>1 DEF Ahead
<1>4. Ahead(d, k, d[a], a + 1) = A \cup {a}
  <2>1. \A c \in 0 .. (k - 1) : c < a + 1 <=> c < a \/ c = a
    BY <1>1
  <2> QED
    BY <1>1, <2>1 DEF Ahead
<1> HIDE DEF A
<1>5. Cardinality(A \cup {a}) = Cardinality(A) + 1
  BY <1>2, <1>3, FS_AddElement
<1> QED
  BY <1>4, <1>5 DEF PlaceOf, A

\* ... and no other digit's.
LEMMA PlaceOther ==
  ASSUME NEW k, NEW d, IsDigits(d, k), NEW a \in 0 .. (k - 1), NEW b, b # d[a]
  PROVE  PlaceOf(d, k, b, a + 1) = PlaceOf(d, k, b, a)
<1>1. \A c \in 0 .. (k - 1) : c < a + 1 <=> c < a \/ c = a
  BY DEF IsDigits
<1>2. Ahead(d, k, b, a + 1) = Ahead(d, k, b, a)
  BY <1>1 DEF Ahead
<1> QED
  BY <1>2 DEF PlaceOf

\* An element comes after those it stands behind.
LEMMA PlaceGrows ==
  ASSUME NEW k, NEW d, IsDigits(d, k), NEW a \in 0 .. (k - 1), NEW e \in 0 .. (k - 1),
         d[a] < d[e] \/ (d[a] = d[e] /\ a < e)
  PROVE  PlaceOf(d, k, d[a], a) < PlaceOf(d, k, d[e], e)
<1> DEFINE A == Ahead(d, k, d[a], a)
           B == Ahead(d, k, d[e], e)
<1>1. k \in Nat /\ a \in Int /\ e \in Int /\ \A c \in 0 .. (k - 1) : d[c] \in Int /\ c \in Int
  BY DEF IsDigits
<1>2. IsFiniteSet(A) /\ IsFiniteSet(B) /\ PlaceOf(d, k, d[a], a) \in Nat /\ PlaceOf(d, k, d[e], e) \in Nat
  BY <1>1, AheadFinite
<1>3. a \notin A /\ a \in B
  BY <1>1 DEF Ahead
<1>4. A \cup {a} \in SUBSET B
  <2>1. ASSUME NEW c \in A PROVE c \in B
    <3>1. c \in 0 .. (k - 1) /\ (d[c] < d[a] \/ (d[c] = d[a] /\ c < a))
      BY <2>1 DEF Ahead
    <3>2. d[c] < d[e] \/ (d[c] = d[e] /\ c < e)
      BY <1>1, <3>1
    <3> QED
      BY <3>1, <3>2 DEF Ahead
  <2> QED
    BY <1>3, <2>1
<1>5. PlaceOf(d, k, d[a], a) = Cardinality(A) /\ PlaceOf(d, k, d[e], e) = Cardinality(B)
  BY DEF PlaceOf
<1> HIDE DEF A, B
<1>6. Cardinality(A \cup {a}) = Cardinality(A) + 1
  BY <1>2, <1>3, FS_AddElement
<1>7. Cardinality(A \cup {a}) <= Cardinality(B)
  BY <1>2, <1>4, FS_Subset
<1> QED
  BY <1>2, <1>5, <1>6, <1>7

LEMMA PlaceInArray ==
  ASSUME NEW k, NEW d, IsDigits(d, k), NEW a \in 0 .. (k - 1)
  PROVE  PlaceOf(d, k, d[a], a) \in 0 .. (k - 1)
<1> DEFINE A == Ahead(d, k, d[a], a)
           D == 0 .. (k - 1)
<1>1. k \in Nat /\ a \in Int /\ d[a] \in Int
  BY DEF IsDigits
<1>2. IsFiniteSet(A) /\ Cardinality(A) \in Nat /\ PlaceOf(d, k, d[a], a) = Cardinality(A)
  BY <1>1, AheadFinite DEF PlaceOf
<1>3. a \notin A /\ A \cup {a} \in SUBSET D
  BY <1>1 DEF Ahead
<1>4. IsFiniteSet(D)
  BY <1>1, FS_Interval
<1>5. Cardinality(D) = k
  <2>1. IsArray(d, k, Int) /\ DOMAIN d = D
    BY DEF IsArray, IsDigits
  <2> QED
    BY <2>1, ArraySize
<1> HIDE DEF A, D
<1>6. Cardinality(A \cup {a}) = Cardinality(A) + 1
  BY <1>2, <1>3, FS_AddElement
<1>7. Cardinality(A \cup {a}) <= Cardinality(D)
  BY <1>3, <1>4, FS_Subset
<1> QED
  BY <1>1, <1>2, <1>5, <1>6, <1>7

\* Where every element stands in the place that is counted for it.
Counted(l, t, d, k) ==
  /\ IsDigits(d, k) /\ DOMAIN l = 0 .. (k - 1) /\ DOMAIN t = 0 .. (k - 1)
  /\ \A a \in 0 .. (k - 1) : t[PlaceOf(d, k, d[a], a)] = l[a]

LEMMA PlacesPermute ==
  ASSUME NEW k, NEW d, IsDigits(d, k)
  PROVE  Permutes([a \in 0 .. (k - 1) |-> PlaceOf(d, k, d[a], a)], 0 .. (k - 1))
<1> DEFINE D == 0 .. (k - 1)
           p == [a \in D |-> PlaceOf(d, k, d[a], a)]
<1>1. k \in Nat /\ \A c \in D : d[c] \in Int /\ c \in Int
  BY DEF IsDigits
<1>2. p \in [D -> D] /\ \A a \in D : p[a] = PlaceOf(d, k, d[a], a) /\ p[a] \in Int
  BY <1>1, PlaceInArray
<1>3. IsFiniteSet(D)
  BY <1>1, FS_Interval
<1>4. ASSUME NEW a \in D, NEW e \in D, p[a] = p[e] PROVE a = e
  <2>1. CASE d[a] < d[e] \/ (d[a] = d[e] /\ a < e)
    BY <1>2, <1>4, <2>1, PlaceGrows
  <2>2. CASE d[e] < d[a] \/ (d[e] = d[a] /\ e < a)
    BY <1>2, <1>4, <2>2, PlaceGrows
  <2> QED
    BY <1>1, <2>1, <2>2
<1> HIDE DEF p, D
<1>5. p \in Injection(D, D)
  BY <1>2, <1>4 DEF Injection, IsInjective
<1>6. p \in Surjection(D, D)
  BY <1>3, <1>5, FS_Injection
<1>7. \A b \in D : \E a \in D : p[a] = b
  BY <1>6 DEF Surjection
<1>8. Permutes(p, D)
  BY <1>2, <1>4, <1>7 DEF Permutes
<1> QED
  BY <1>8 DEF p, D

LEMMA CountedRearranges ==
  ASSUME NEW l, NEW t, NEW d, NEW k, Counted(l, t, d, k)
  PROVE  Rearranged(l, t)
<1> DEFINE D == 0 .. (k - 1)
           p == [a \in D |-> PlaceOf(d, k, d[a], a)]
<1>1. IsDigits(d, k) /\ DOMAIN l = D /\ DOMAIN t = D /\ \A a \in D : l[a] = t[p[a]]
  BY DEF Counted
<1>2. Permutes(p, D)
  BY <1>1, PlacesPermute
<1> HIDE DEF p, D
<1>3. Rearranged(t, l)
  BY <1>1, <1>2 DEF Rearranged
<1> QED
  BY <1>3, RearrangedBack

\* Of two elements the one that stands first has the smaller digit, or the
\* same one and stood first before.
LEMMA CountedInOrder ==
  ASSUME NEW l, NEW t, NEW d, NEW k, Counted(l, t, d, k),
         NEW b \in 0 .. (k - 1), NEW c \in 0 .. (k - 1), b < c
  PROVE  \E a, e \in 0 .. (k - 1) :
           t[b] = l[a] /\ t[c] = l[e] /\ (d[a] < d[e] \/ (d[a] = d[e] /\ a < e))
<1> DEFINE D == 0 .. (k - 1)
           p == [a \in D |-> PlaceOf(d, k, d[a], a)]
<1>1. IsDigits(d, k) /\ \A a \in D : t[p[a]] = l[a] /\ p[a] = PlaceOf(d, k, d[a], a)
  BY DEF Counted
<1>2. k \in Nat /\ b \in Int /\ c \in Int /\ \A a \in D : d[a] \in Int /\ a \in Int
  BY <1>1 DEF IsDigits
<1>3. Permutes(p, D)
  BY <1>1, PlacesPermute
<1> HIDE DEF p
<1>4. PICK a \in D : p[a] = b
  BY <1>3 DEF Permutes
<1>5. PICK e \in D : p[e] = c
  BY <1>3 DEF Permutes
<1>6. d[a] < d[e] \/ (d[a] = d[e] /\ a < e)
  <2>1. CASE d[e] < d[a] \/ (d[e] = d[a] /\ e < a)
    <3>1. p[e] < p[a]
      BY <1>1, <2>1, PlaceGrows
    <3> QED
      BY <1>2, <1>4, <1>5, <3>1
  <2>2. CASE a = e
    BY <1>2, <1>4, <1>5, <2>2
  <2> QED
    BY <1>2, <2>1, <2>2
<1> QED
  BY <1>1, <1>4, <1>5, <1>6

-----------------------------------------------------------------------------
(* Radix sort.                                                             *)

\* The digits by which this pass sorts.
Digs == [a \in DOMAIN list |-> DigitOf(iii, shift, list[a])]

\* What the passes have sorted by, and where the elements are that this pass
\* has moved.
KeysInOrder == \A b, c \in DOMAIN list : b < c => KeyOf(iii, shift, list[b]) <= KeyOf(iii, shift, list[c])

Moved == /\ map = [b \in R!Digits |-> PlaceOf(Digs, R!n, b, i)]
         /\ \A a \in 0 .. (i - 1) : temp[PlaceOf(Digs, R!n, Digs[a], a)] = list[a]

RadInv ==
  which = "radix" =>
    /\ IsArray(list, R!n, Rand) /\ IsArray(temp, R!n, Rand)
    /\ shift \in {"masked", "out"} /\ iii \in Nat /\ iii % group = 0 /\ iii <= MAXBITS /\ i \in Nat
    /\ pc \in {"pass", "move", "done"}
    /\ pc \in {"pass", "move"} => KeysInOrder
    /\ pc = "move" => iii < MAXBITS /\ i <= R!n /\ Moved

LEMMA PassEnds == MAXBITS \in Nat /\ MAXBITS % group = 0 /\ 0 % group = 0
<1> DEFINE g == group
           q == W \div g
<1>1. g \in Nat /\ g >= 1 /\ W \in Nat /\ W % g = 0 /\ MAXBITS = 2 * W
  BY RadixAssumption
<1>2. q \in Nat /\ W = g * q + (W % g)
  BY <1>1, Divided
<1> HIDE DEF q, g
<1>3. W = g * q
  BY <1>1, <1>2
<1> DEFINE p == 2 * q
<1>4. MAXBITS = g * p + 0 /\ 0 = g * 0 + 0 /\ 0 \in 0 .. (g - 1) /\ MAXBITS \in Nat /\ p \in Int
  BY <1>1, <1>2, <1>3
<1> HIDE DEF p
<1>5. MAXBITS % g = 0
  BY <1>1, <1>4, DividedOnce
<1>6. 0 % g = 0
  BY <1>1, <1>4, DividedOnce
<1> QED
  BY <1>4, <1>5, <1>6 DEF g

LEMMA RandInNat == Rand \subseteq Nat /\ 0 \in Rand
BY RandFacts, RadixAssumption, TwoIsPositive DEF Rand

LEMMA DigsAre ==
  ASSUME RadInv, which = "radix"
  PROVE  IsDigits(Digs, R!n) /\ \A a \in 0 .. (R!n - 1) : Digs[a] = DigitOf(iii, shift, list[a]) /\ Digs[a] \in R!Digits
<1> DEFINE k == R!n
<1>1. k \in Nat /\ DOMAIN list = 0 .. (k - 1) /\ iii \in Nat /\ \A a \in 0 .. (k - 1) : list[a] \in Nat
  BY RandInNat DEF RadInv, IsArray
<1> HIDE DEF k
<1>2. \A a \in 0 .. (k - 1) : DigitOf(iii, shift, list[a]) \in 0 .. (R!two[group] - 1)
  BY <1>1, DigitInRange
<1>3. R!Digits = 0 .. (R!two[group] - 1)
  BY DEF R!Digits, R!bucket
<1>4. Digs = [a \in 0 .. (k - 1) |-> DigitOf(iii, shift, list[a])]
  BY <1>1 DEF Digs
<1>5. R!two[group] \in Nat
  BY TwoIsPositive, RadixAssumption
<1>6. \A a \in 0 .. (k - 1) : DigitOf(iii, shift, list[a]) \in Int
  BY <1>2, <1>5
<1> QED
  BY <1>1, <1>2, <1>3, <1>4, <1>6 DEF IsDigits, k

LEMMA DigitIs == \A v : R!Digit(v) = DigitOf(iii, shift, v)
BY DEF R!Digit, R!Shifted, R!bucket, DigitOf

LEMMA InitRadInv == Init => RadInv
<1> SUFFICES ASSUME Init, which = "radix" PROVE RadInv
  BY DEF RadInv
<1>1. R!Init
  BY DEF Init
<1>2. PICK len \in 0 .. MaxRadixLen : list \in [0 .. (len - 1) -> R!RandValues]
  BY <1>1 DEF R!Init
<1>3. len \in Nat
  BY <1>2, MaxLenAssumption
<1>4. IsArray(list, len, Rand) /\ DOMAIN list = 0 .. (len - 1)
  BY <1>2, <1>3 DEF IsArray, R!RandValues, Rand
<1>5. R!n = len
  BY <1>4, ArraySize, SameCardinality DEF R!n
<1>6. temp = [k \in DOMAIN list |-> 0] /\ shift \in {"masked", "out"} /\ iii = 0 /\ i = 0 /\ pc = "pass"
  BY <1>1 DEF R!Init
<1>7. IsArray(temp, len, Rand)
  BY <1>3, <1>4, <1>6, RandInNat DEF IsArray
<1>8. KeysInOrder
  <2>1. \A a \in DOMAIN list : list[a] \in Rand
    BY <1>4 DEF IsArray
  <2>2. \A a \in DOMAIN list : KeyOf(iii, shift, list[a]) = 0
    BY <1>6, <2>1, FirstKey
  <2> QED
    BY <2>2 DEF KeysInOrder
<1> QED
  BY <1>4, <1>5, <1>6, <1>7, <1>8, PassEnds DEF RadInv

LEMMA PassRadInv == RadInv /\ which = "radix" /\ which' = which /\ R!Pass => RadInv'
<1> SUFFICES ASSUME RadInv, which = "radix", which' = which, R!Pass PROVE RadInv'
  OBVIOUS
<1>1. /\ pc = "pass" /\ iii < MAXBITS /\ map' = R!Starts /\ i' = 0 /\ pc' = "move"
      /\ list' = list /\ temp' = temp /\ shift' = shift /\ iii' = iii
  BY DEF R!Pass
<1>2. R!n' = R!n /\ Digs' = Digs /\ R!Digits' = R!Digits /\ (KeysInOrder' <=> KeysInOrder)
  BY <1>1 DEF R!n, Digs, R!Digits, KeysInOrder
<1> DEFINE k == R!n
<1>3. k \in Nat /\ DOMAIN list = 0 .. (k - 1) /\ IsDigits(Digs, k)
      /\ \A c \in 0 .. (k - 1) : Digs[c] = R!Digit(list[c])
  BY DigsAre, DigitIs DEF RadInv, IsArray
<1>4. R!Starts = [b \in R!Digits |-> PlaceOf(Digs, k, b, 0)]
  <2>1. ASSUME NEW b \in R!Digits
        PROVE  R!Cardinality({c \in DOMAIN list : R!Digit(list[c]) < b}) = PlaceOf(Digs, k, b, 0)
    <3>1. {c \in DOMAIN list : R!Digit(list[c]) < b} = Ahead(Digs, k, b, 0)
      <4>1. \A c \in 0 .. (k - 1) : ~(c < 0)
        BY <1>3
      <4> HIDE DEF k
      <4> QED
        BY <1>3, <4>1 DEF Ahead
    <3> QED
      BY <3>1, SameCardinality DEF PlaceOf
  <2> HIDE DEF k
  <2> QED
    BY <2>1 DEF R!Starts
<1>5. Moved'
  <2>1. map' = [b \in R!Digits |-> PlaceOf(Digs, k, b, 0)]
    BY <1>1, <1>4
  <2>2. \A a \in 0 .. (0 - 1) : FALSE
    OBVIOUS
  <2> QED
    BY <1>1, <1>2, <2>1, <2>2 DEF Moved
<1>6. 0 <= k
  BY <1>3
<1> QED
  BY <1>1, <1>2, <1>5, <1>6 DEF RadInv

LEMMA MoveRadInv == RadInv /\ which = "radix" /\ which' = which /\ R!Move => RadInv'
<1> SUFFICES ASSUME RadInv, which = "radix", which' = which, R!Move PROVE RadInv'
  OBVIOUS
<1> DEFINE k == R!n
           d == Digs
           v == list[i]
           P(b, c) == PlaceOf(Digs, R!n, b, c)
<1>1. /\ pc = "move" /\ i < k
      /\ temp' = [temp EXCEPT ![map[R!Digit(v)]] = v] /\ map' = [map EXCEPT ![R!Digit(v)] = @ + 1]
      /\ i' = i + 1 /\ list' = list /\ shift' = shift /\ iii' = iii /\ pc' = pc
  BY DEF R!Move
<1>2. R!n' = R!n /\ Digs' = Digs /\ R!Digits' = R!Digits /\ (KeysInOrder' <=> KeysInOrder)
  BY <1>1 DEF R!n, Digs, R!Digits, KeysInOrder
<1>3. /\ k \in Nat /\ IsDigits(d, k) /\ i \in Nat
      /\ map = [b \in R!Digits |-> P(b, i)] /\ \A a \in 0 .. (i - 1) : temp[P(d[a], a)] = list[a]
      /\ IsArray(temp, k, Rand) /\ IsArray(list, k, Rand)
      /\ \A a \in 0 .. (k - 1) : d[a] \in R!Digits
  BY <1>1, DigsAre DEF RadInv, IsArray, Moved
<1>4. i \in 0 .. (k - 1)
  BY <1>1, <1>3
<1>5. R!Digit(v) = d[i]
  BY <1>4, DigsAre, DigitIs
<1>6. map[d[i]] = P(d[i], i) /\ P(d[i], i) \in 0 .. (k - 1) /\ v \in Rand
  BY <1>3, <1>4, PlaceInArray DEF IsArray
<1>7. IsArray(temp', k, Rand)
  BY <1>1, <1>3, <1>5, <1>6 DEF IsArray
<1>8. map' = [b \in R!Digits |-> P(b, i + 1)]
  <2>1. ASSUME NEW b \in R!Digits PROVE map'[b] = P(b, i + 1)
    <3>1. CASE b = d[i]
      BY <1>1, <1>3, <1>4, <1>5, <3>1, PlaceNext
    <3>2. CASE b # d[i]
      BY <1>1, <1>3, <1>4, <1>5, <3>2, PlaceOther
    <3> QED
      BY <3>1, <3>2
  <2>2. DOMAIN map' = R!Digits /\ map' = [b \in R!Digits |-> map'[b]]
    BY <1>1, <1>3
  <2> HIDE DEF P
  <2> QED
    BY <2>1, <2>2
<1>9. ASSUME NEW a \in 0 .. i PROVE temp'[P(d[a], a)] = list[a]
  <2>1. a \in 0 .. (k - 1) /\ P(d[a], a) \in 0 .. (k - 1) /\ DOMAIN temp = 0 .. (k - 1)
    BY <1>3, <1>4, <1>9, PlaceInArray DEF IsArray
  <2>2. CASE a = i
    BY <1>1, <1>5, <1>6, <2>1, <2>2
  <2>3. CASE a # i
    <3>1. a \in 0 .. (i - 1)
      BY <1>3, <1>9, <2>3
    <3>2. P(d[a], a) # P(d[i], i)
      <4> DEFINE p == [c \in 0 .. (k - 1) |-> PlaceOf(d, k, d[c], c)]
      <4>1. Permutes(p, 0 .. (k - 1))
        BY <1>3, PlacesPermute
      <4>2. p[a] = P(d[a], a) /\ p[i] = P(d[i], i)
        BY <1>4, <2>1
      <4> HIDE DEF p, P
      <4> QED
        BY <1>4, <2>1, <2>3, <4>1, <4>2 DEF Permutes
    <3> QED
      BY <1>1, <1>3, <1>5, <1>6, <2>1, <3>1, <3>2
  <2> QED
    BY <2>2, <2>3
<1>10. Moved'
  <2>1. \A a \in 0 .. (i' - 1) : a \in 0 .. i
    BY <1>1, <1>3
  <2> QED
    BY <1>1, <1>2, <1>8, <1>9, <2>1 DEF Moved
<1>11. i' \in Nat /\ i' <= k
  BY <1>1, <1>3
<1> QED
  BY <1>1, <1>2, <1>7, <1>10, <1>11 DEF RadInv

LEMMA MovedCounted ==
  ASSUME RadInv, which = "radix", R!CopyBack
  PROVE  Counted(list, temp, Digs, R!n)
<1> DEFINE k == R!n
<1>1. pc = "move" /\ i >= k
  BY DEF R!CopyBack
<1>2. /\ k \in Nat /\ i \in Nat /\ i <= k /\ Moved /\ IsDigits(Digs, k)
      /\ DOMAIN list = 0 .. (k - 1) /\ DOMAIN temp = 0 .. (k - 1)
  BY <1>1, DigsAre DEF RadInv, IsArray
<1>3. i = k
  BY <1>1, <1>2
<1> QED
  BY <1>2, <1>3 DEF Counted, Moved

LEMMA CopyBackRadInv == RadInv /\ which = "radix" /\ which' = which /\ R!CopyBack => RadInv'
<1> SUFFICES ASSUME RadInv, which = "radix", which' = which, R!CopyBack PROVE RadInv'
  OBVIOUS
<1> DEFINE k == R!n
           d == Digs
<1>1. /\ pc = "move" /\ list' = temp /\ iii' = iii + group /\ pc' = "pass"
      /\ temp' = temp /\ shift' = shift /\ i' = i
  BY DEF R!CopyBack
<1>2. Counted(list, temp, d, k)
  BY MovedCounted
<1>3. /\ k \in Nat /\ IsArray(list, k, Rand) /\ IsArray(temp, k, Rand)
      /\ DOMAIN list = 0 .. (k - 1) /\ DOMAIN temp = 0 .. (k - 1)
      /\ \A a \in 0 .. (k - 1) : d[a] = DigitOf(iii, shift, list[a]) /\ list[a] \in Rand
      /\ iii \in Nat /\ iii % group = 0 /\ iii < MAXBITS /\ i \in Nat
      /\ shift \in {"masked", "out"} /\ KeysInOrder
  BY <1>1, DigsAre DEF RadInv, IsArray
<1>4. R!n' = k
  BY <1>1, <1>3 DEF R!n
<1>5. iii' \in Nat /\ iii' % group = 0 /\ iii' <= MAXBITS
  <2>1. iii + group <= MAXBITS /\ (iii + group) % group = 0
    BY <1>3, PassEnds, NextMultiple
  <2>2. iii + group \in Nat
    BY <1>3, RadixAssumption
  <2> QED
    BY <1>1, <2>1, <2>2
<1>6. ASSUME NEW b \in 0 .. (k - 1), NEW c \in 0 .. (k - 1), b < c
      PROVE  KeyOf(iii + group, shift, temp[b]) <= KeyOf(iii + group, shift, temp[c])
  <2>1. PICK a, e \in 0 .. (k - 1) :
          temp[b] = list[a] /\ temp[c] = list[e] /\ (d[a] < d[e] \/ (d[a] = d[e] /\ a < e))
    BY <1>2, <1>6, CountedInOrder
  <2>2. a < e => KeyOf(iii, shift, list[a]) <= KeyOf(iii, shift, list[e])
    BY <1>3 DEF KeysInOrder
  <2> QED
    BY <1>3, <2>1, <2>2, KeyGrows
<1>7. KeysInOrder'
  BY <1>1, <1>3, <1>6 DEF KeysInOrder
<1> QED
  BY <1>1, <1>3, <1>4, <1>5, <1>7 DEF RadInv

LEMMA FinishRadInv == RadInv /\ which = "radix" /\ which' = which /\ R!Finish => RadInv' /\ S!InOrder(list)
<1> SUFFICES ASSUME RadInv, which = "radix", which' = which, R!Finish PROVE RadInv' /\ S!InOrder(list)
  OBVIOUS
<1>1. /\ pc = "pass" /\ iii >= MAXBITS /\ pc' = "done"
      /\ list' = list /\ temp' = temp /\ shift' = shift /\ iii' = iii /\ i' = i
  BY DEF R!Finish
<1>2. R!n' = R!n
  BY <1>1 DEF R!n
<1>3. RadInv'
  BY <1>1, <1>2 DEF RadInv
<1>4. iii = MAXBITS /\ KeysInOrder /\ shift \in {"masked", "out"} /\ \A a \in DOMAIN list : list[a] \in Rand
  BY <1>1, PassEnds DEF RadInv, IsArray
<1>5. \A b, c \in DOMAIN list : b < c => list[b] <= list[c]
  BY <1>4, LastKey DEF KeysInOrder
<1> QED
  BY <1>3, <1>5 DEF S!InOrder

LEMMA AgainRadInv == RadInv /\ which = "radix" /\ which' = which /\ R!Again => RadInv'
<1> SUFFICES ASSUME RadInv, which = "radix", which' = which, R!Again PROVE RadInv'
  OBVIOUS
<1>1. /\ pc = "done" /\ iii' = 0 /\ pc' = "pass"
      /\ list' = list /\ temp' = temp /\ shift' = shift /\ i' = i
  BY DEF R!Again
<1>2. R!n' = R!n
  BY <1>1 DEF R!n
<1>3. KeysInOrder'
  <2>1. \A a \in DOMAIN list : list[a] \in Rand
    BY DEF RadInv, IsArray
  <2>2. \A a \in DOMAIN list : KeyOf(0, shift, list[a]) = 0
    BY <2>1, FirstKey
  <2> QED
    BY <1>1, <2>2 DEF KeysInOrder
<1> QED
  BY <1>1, <1>2, <1>3, PassEnds DEF RadInv

LEMMA NextRadInv == RadInv /\ [Next]_vars => RadInv'
<1> SUFFICES ASSUME RadInv, [Next]_vars PROVE RadInv'
  OBVIOUS
<1>1. which' = which
  BY DEF Next, Merge, Radix, Select, Insert, Again, Stopped, vars
<1>2. CASE which # "radix"
  BY <1>1, <1>2 DEF RadInv
<1>3. CASE which = "radix" /\ R!Next
  BY <1>1, <1>3, PassRadInv, MoveRadInv, CopyBackRadInv, FinishRadInv DEF R!Next
<1>4. CASE which = "radix" /\ R!Again
  BY <1>1, <1>4, AgainRadInv
<1>5. CASE which = "radix" /\ UNCHANGED vars
  <2>1. list' = list /\ temp' = temp /\ shift' = shift /\ iii' = iii /\ map' = map /\ i' = i /\ pc' = pc
    BY <1>5 DEF vars, rvars
  <2>2. /\ R!n' = R!n /\ Digs' = Digs /\ R!Digits' = R!Digits
        /\ (KeysInOrder' <=> KeysInOrder)
    BY <2>1 DEF R!n, Digs, R!Digits, KeysInOrder
  <2>3. Moved' <=> Moved
    BY <2>1, <2>2 DEF Moved
  <2> QED
    BY <1>1, <2>1, <2>2, <2>3 DEF RadInv
<1> QED
  BY <1>2, <1>3, <1>4, <1>5 DEF Next, Merge, Radix, Select, Insert, Again, Stopped

LEMMA RadRearranges == RadInv /\ which = "radix" /\ R!Next => Rearranged(list, list')
<1> SUFFICES ASSUME RadInv, which = "radix", R!Next PROVE Rearranged(list, list')
  OBVIOUS
<1>1. CASE R!CopyBack
  BY <1>1, MovedCounted, CountedRearranges DEF R!CopyBack
<1>2. CASE ~R!CopyBack
  <2>1. list' = list
    BY <1>2 DEF R!Next, R!Pass, R!Move, R!Finish
  <2> QED
    BY <2>1, RearrangedSelf
<1> QED
  BY <1>1, <1>2

-----------------------------------------------------------------------------
(* The sorts together.                                                     *)

Inv == /\ which \in {"merge", "radix", "select", "insert"} /\ test \in Nat
       /\ SelInv /\ InsInv /\ EmptyInv /\ HeldInv /\ MerInv /\ RadInv

LEMMA InitInv == Init => Inv
<1>1. Init => which \in {"merge", "radix", "select", "insert"} /\ test \in Nat
  BY DEF Init
<1> QED
  BY <1>1, InitSelInv, InitInsInv, InitEmptyInv, InitHeldInv, InitMerInv, InitRadInv DEF Inv

LEMMA NextInv == Inv /\ [Next]_vars => Inv'
<1>1. test \in Nat /\ [Next]_vars => which' = which /\ test' \in Nat
  BY DEF Next, Merge, Radix, Select, Insert, Again, Stopped, vars
<1> QED
  BY <1>1, NextSelInv, NextInsInv, NextEmptyInv, NextHeldInv, NextMerInv, NextRadInv DEF Inv

LEMMA SpecInv == Spec => []Inv
BY InitInv, NextInv, PTL DEF Spec

\* Whatever its arguments do in the test of while, the script prints none of them
\* once it has refused one.  When it finds nothing to refuse, and its last argument
\* does nothing in that test, which reads it unchecked, all are integers and
\* every one is printed (insert-sort.sh:8-11, 15).
THEOREM PrintsAllOrNothing == Spec => []AllOrNothing
<1>1. Inv => AllOrNothing
  <2> SUFFICES ASSUME Inv, which = "insert" PROVE I!AllOrNothing
    BY DEF AllOrNothing
  <2>1. CASE I!Harmless
    BY <2>1 DEF Inv, InsInv, Called
  <2>2. CASE ~I!Harmless
    <3>1. \E k \in DOMAIN params : params[k] \notin Integer
      BY <2>2 DEF I!Harmless, I!Inert
    <3> QED
      BY <2>2, <3>1 DEF Inv, EmptyInv, I!AllOrNothing
  <2> QED
    BY <2>1, <2>2
<1> QED
  BY <1>1, SpecInv, PTL

LEMMA InvMergeInOrder == Inv /\ which = "merge" => M!MergeInOrder
<1> SUFFICES ASSUME Inv, which = "merge", pc = "merge" PROVE M!MergeInOrder
  BY DEF M!MergeInOrder
<1> DEFINE a == M!Top.left
           e == m.end
           r == m.right
           ti == m.temp_idx
<1>1. MerInv
  BY DEF Inv
<1>2. Merging(list, temp, a, e, r, m.left, m.mid, ti) /\ r = M!Top.right /\ m.num = M!Top.right - a + 1
  BY <1>1, MergeFacts
<1>3. a \in Int /\ r \in Int
  <2>1. calls # <<>>
    BY <1>1, MergeFacts
  <2> QED
    BY <1>1, <1>2, <2>1, TopFacts
<1>4. m.right - m.num + 1 = a
  BY <1>2, <1>3
<1>5. e \in Int /\ m.left \in Int /\ m.mid \in Int /\ ti = m.left + (m.mid - (e + 1))
  BY <1>1, <1>2, MergeFacts DEF Merging
<1>6. ti - a = (m.left - a) + (m.mid - (e + 1))
  BY <1>3, <1>5
<1>7. /\ InOrderFrom(temp, a, ti - 1) /\ InOrderFrom(list, m.left, e) /\ InOrderFrom(list, m.mid, r)
      /\ \A j1 \in a .. (ti - 1), k1 \in (m.left .. e) \cup (m.mid .. r) : temp[j1] <= list[k1]
  BY <1>2 DEF Merging
<1> QED
  BY <1>4, <1>6, <1>7 DEF M!MergeInOrder, InOrderFrom

LEMMA InvInsertedInOrder == Inv /\ which = "insert" => I!InsertedInOrder
<1> SUFFICES ASSUME Inv, which = "insert", I!Harmless PROVE I!InsertedInOrder
  BY DEF I!InsertedInOrder
<1> DEFINE n == Size(params)
<1>1. InsInv /\ IsArray(Held, n, Words) /\ Inserted /\ Checked
  BY HeldIsArray DEF Inv, InsInv, Called
<1>2. DOMAIN Held = 0 .. (n - 1) /\ n \in Nat /\ \A k \in 0 .. (n - 1) : I!Numbers[k] = Decimal[Held[k]]
  BY <1>1, NumbersHeld DEF IsArray
<1> HIDE DEF n
<1>3. CASE pc \in {"check", "echoed"}
  <2>1. Held = list /\ idx \in 0 .. n /\ \A k \in 0 .. (idx - 1) : list[k] \in Integer
    BY <1>1, <1>3 DEF Held, Checked, n
  <2>2. ASSUME I!Plain, NEW k \in 1 .. (idx - 1) PROVE I!Numbers[k - 1] <= I!Numbers[k]
    <3>1. k - 1 \in 0 .. (idx - 1) /\ k \in 0 .. (idx - 1) /\ k - 1 < k /\ k - 1 \in 0 .. (n - 1) /\ k \in 0 .. (n - 1)
      BY <1>2, <2>1
    <3>2. Decimal[list[k - 1]] <= Decimal[list[k]]
      BY <1>1, <1>3, <2>2, <3>1 DEF Inserted
    <3> QED
      BY <1>2, <2>1, <3>1, <3>2
  <2> QED
    BY <1>3, <2>1, <2>2 DEF I!InsertedInOrder
<1>4. CASE pc = "shift"
  <2>1. idx < n /\ j \in -1 .. (idx - 1) /\ idx \in Nat /\ IsArray(list, n, Words)
    BY <1>1, <1>2, <1>4 DEF Checked, Inserted, n
  <2>2. Held = [list EXCEPT ![j + 1] = x] /\ DOMAIN list = 0 .. (n - 1)
    BY <1>4, <2>1 DEF Held, IsArray
  <2>3. \A k \in (0 .. idx) \ {j + 1} : k \in 0 .. (n - 1) /\ Held[k] = list[k]
    BY <1>2, <2>1, <2>2
  <2>4. \A k \in (0 .. idx) \ {j + 1} : I!Numbers[k] = Decimal[list[k]]
    BY <1>2, <2>3
  <2>5. I!Plain => \A k, l \in (0 .. idx) \ {j + 1} : k < l => I!Numbers[k] <= I!Numbers[l]
    BY <1>1, <1>4, <2>4 DEF Inserted
  <2>6. \A k \in (j + 2) .. idx : I!Greater(list[k], x)
    BY <1>1, <1>4 DEF Inserted
  <2> QED
    BY <1>4, <2>5, <2>6 DEF I!InsertedInOrder
<1>5. CASE pc \notin {"check", "echoed", "shift"}
  BY <1>5 DEF I!InsertedInOrder
<1> QED
  BY <1>3, <1>4, <1>5

LEMMA InvPassesAddUp == Inv /\ which = "radix" => R!PassesAddUp
<1> SUFFICES ASSUME Inv, which = "radix", pc = "pass" PROVE R!PassesAddUp
  BY DEF R!PassesAddUp
<1>1. KeysInOrder
  BY DEF Inv, RadInv
<1>2. \A v : R!Key(v) = KeyOf(iii, shift, v)
  BY DEF R!Key, KeyOf
<1> QED
  BY <1>1, <1>2 DEF R!PassesAddUp, KeysInOrder

\* In the middle of each sort what has been done so far is in order, for
\* arrays of every length, all integers, and every width of an int and of a
\* digit (hw6.c:87-98, 126-149, 160-199, insert-sort.sh:15-19).
THEOREM InOrderSoFar == Spec => []SortedSoFar
<1>1. Inv => SortedSoFar
  <2> SUFFICES ASSUME Inv PROVE SortedSoFar
    OBVIOUS
  <2>1. which = "select" => L!LeastFirst
    BY DEF Inv, SelInv
  <2>2. which \in {"merge", "radix", "select", "insert"}
    BY DEF Inv
  <2> QED
    BY <2>1, <2>2, InvMergeInOrder, InvPassesAddUp, InvInsertedInOrder DEF SortedSoFar
<1> QED
  BY <1>1, SpecInv, PTL

-----------------------------------------------------------------------------
(* The sorts keep what is promised.                                        *)

\* A step of main's sorts leaves it open whether the array is in order, ...
LEMMA Rearranging ==
  ASSUME NEW k, NEW V, IsArray(Shown, k, V), Rearranged(Shown, Shown'), ~Sorted, ~Sorted'
  PROVE  S!Next
<1>1. S!SameValues(Shown, Shown')
  BY RearrangedSame
<1>2. Sorted = FALSE /\ Sorted' = FALSE
  OBVIOUS
<1> QED
  BY <1>1, <1>2 DEF S!Next, S!Rearrange

\* ... or ends with it in order, ...
LEMMA Finishing ==
  ASSUME Shown' = Shown, ~Sorted, Sorted' => S!InOrder(Shown)
  PROVE  [S!Next]_(S!vars)
<1>1. CASE Sorted'
  <2>1. Sorted' = TRUE
    BY <1>1 DEF Sorted
  <2> QED
    BY <1>1, <2>1 DEF S!Next, S!Finish
<1>2. CASE ~Sorted'
  <2>1. Sorted = FALSE /\ Sorted' = FALSE
    BY <1>2
  <2> QED
    BY <2>1 DEF S!vars
<1> QED
  BY <1>1, <1>2

\* ... or is none.
LEMMA Staying ==
  ASSUME Shown' = Shown, Sorted' <=> Sorted
  PROVE  [S!Next]_(S!vars)
<1>1. Sorted' = Sorted
  BY DEF Sorted
<1> QED
  BY <1>1 DEF S!vars

LEMMA MergePromise == Inv /\ Merge => [S!Next]_(S!vars)
<1> SUFFICES ASSUME Inv, Merge PROVE [S!Next]_(S!vars)
  OBVIOUS
<1>1. /\ which = "merge" /\ which' = which /\ test' = test /\ M!Next /\ MerInv
      /\ Shown = list /\ Shown' = list'
  BY DEF Merge, Inv, Shown
<1>2. CASE M!Finish
  <2>1. pc = "msort" /\ list' = list
    BY <1>2 DEF M!Finish
  <2>2. ~Sorted
    BY <2>1 DEF Sorted, Over
  <2> QED
    BY <1>1, <1>2, <2>1, <2>2, FinishMerInv, Finishing
<1>3. CASE ~M!Finish
  <2>1. pc \in {"msort", "merge"} /\ pc' \in {"msort", "merge"}
    BY <1>1, <1>3
    DEF M!Next, M!FirstHalf, M!SecondHalf, M!Recurse, M!MergeHalves, M!Return, M!TakeLeft, M!TakeRight, M!CopyBack
  <2>2. ~Sorted /\ ~Sorted'
    BY <2>1 DEF Sorted, Over
  <2>3. IsArray(list, M!n, Values)
    BY <1>1 DEF MerInv
  <2> QED
    BY <1>1, <2>2, <2>3, MerRearranges, Rearranging
<1> QED
  BY <1>2, <1>3

LEMMA RadixPromise == Inv /\ Radix => [S!Next]_(S!vars)
<1> SUFFICES ASSUME Inv, Radix PROVE [S!Next]_(S!vars)
  OBVIOUS
<1>1. /\ which = "radix" /\ which' = which /\ test' = test /\ R!Next /\ RadInv
      /\ Shown = list /\ Shown' = list'
  BY DEF Radix, Inv, Shown
<1>2. CASE R!Finish
  <2>1. pc = "pass" /\ list' = list
    BY <1>2 DEF R!Finish
  <2>2. ~Sorted
    BY <2>1 DEF Sorted, Over
  <2> QED
    BY <1>1, <1>2, <2>1, <2>2, FinishRadInv, Finishing
<1>3. CASE ~R!Finish
  <2>1. pc \in {"pass", "move"} /\ pc' \in {"pass", "move"}
    BY <1>1, <1>3 DEF R!Next, R!Pass, R!Move, R!CopyBack
  <2>2. ~Sorted /\ ~Sorted'
    BY <2>1 DEF Sorted, Over
  <2>3. IsArray(list, R!n, Rand)
    BY <1>1 DEF RadInv
  <2> QED
    BY <1>1, <2>2, <2>3, RadRearranges, Rearranging
<1> QED
  BY <1>2, <1>3

LEMMA SelectPromise == Inv /\ Select => [S!Next]_(S!vars)
<1> SUFFICES ASSUME Inv, Select PROVE [S!Next]_(S!vars)
  OBVIOUS
<1>1. /\ which = "select" /\ which' = which /\ test' = test /\ L!Next /\ SelInv
      /\ Shown = list /\ Shown' = list'
  BY DEF Select, Inv, Shown
<1>2. CASE L!Finish
  <2>1. pc = "scan" /\ list' = list
    BY <1>2 DEF L!Finish
  <2>2. ~Sorted
    BY <2>1 DEF Sorted, Over
  <2> QED
    BY <1>1, <1>2, <2>1, <2>2, FinishSelInv, Finishing
<1>3. CASE ~L!Finish
  <2>1. pc = "scan" /\ pc' = "scan"
    BY <1>1, <1>3 DEF L!Next, L!Scan, L!Swap
  <2>2. ~Sorted /\ ~Sorted'
    BY <2>1 DEF Sorted, Over
  <2>3. IsArray(list, L!n, Values)
    BY <1>1 DEF SelInv
  <2> QED
    BY <1>1, <2>2, <2>3, SelRearranges, Rearranging
<1> QED
  BY <1>2, <1>3

LEMMA InsertPromise == Inv /\ Insert => [S!Next]_(S!vars)
<1> SUFFICES ASSUME Inv, Insert PROVE [S!Next]_(S!vars)
  OBVIOUS
<1>1. /\ which = "insert" /\ which' = which /\ I!Next /\ InsInv /\ HeldInv
      /\ Shown = I!Numbers /\ Shown' = I!Numbers' /\ params' = params
      /\ (I!Harmless' <=> I!Harmless) /\ (I!Harmless => Called)
  BY CalledStays DEF Insert, Inv, Shown, Next, Called
<1>2. CASE ~I!Harmless
  <2>1. ~Sorted /\ ~Sorted'
    BY <1>1, <1>2 DEF Sorted
  <2>2. Shown' = Shown
    BY <1>1, <1>2, NumbersOfCall, NumbersOfCallNext
  <2> QED
    BY <2>1, <2>2, Staying
<1>3. CASE I!Harmless /\ I!Echo
  <2>1. pc = "check" /\ pc' = "echoed" /\ list' = list
    BY <1>3 DEF I!Echo
  <2>2. ~Sorted
    BY <2>1 DEF Sorted, Over
  <2>3. Held' = Held /\ (I!Plain' <=> I!Plain)
    BY <1>1, <2>1 DEF Held, I!Plain
  <2>4. I!Numbers' = I!Numbers
    BY <1>1, <1>3, <2>3, NumbersHeld, NumbersHeldNext
  <2>5. Sorted' => S!InOrder(Shown)
    BY <1>1, <1>3, <2>3, EchoInOrder DEF Sorted
  <2> QED
    BY <1>1, <2>2, <2>4, <2>5, Finishing
<1>4. CASE I!Harmless /\ ~I!Echo
  <2>1. pc \in {"check", "shift"} /\ pc' # "echoed"
    BY <1>1, <1>4 DEF I!Next, I!Refuse, I!Take, I!Shift, I!Place
  <2>2. ~Sorted /\ ~Sorted'
    BY <1>1, <2>1 DEF Sorted, Over
  <2>3. Rearranged(Shown, Shown')
    BY <1>1, <1>4, InsRearranges, RearrangedNumbers, NumbersHeld, NumbersHeldNext
  <2>4. IsArray(I!Numbers, Size(params), Int)
    <3>1. IsArray(Held, Size(params), Words)
      BY <1>1, <1>4, HeldIsArray
    <3> QED
      BY <1>4, <3>1, NumbersHeld, WordsAssumption DEF IsArray
  <2> QED
    BY <1>1, <2>2, <2>3, <2>4, Rearranging
<1> QED
  BY <1>2, <1>3, <1>4

\* main sorts the array that is in order already once more.
LEMMA AgainPromise == Inv /\ Again => [S!Next]_(S!vars)
<1> SUFFICES ASSUME Inv, Again PROVE [S!Next]_(S!vars)
  OBVIOUS
<1>1. /\ test < Tests - 1 /\ which' = which /\ which \in {"merge", "radix", "select"} /\ pc = "done"
      /\ pc' \in {"msort", "pass", "scan"} /\ list' = list
  BY DEF Again, M!Again, R!Again, L!Again
<1>2. ~(test = Tests - 1)
  BY <1>1, TestsAssumption DEF Inv
<1>3. ~Sorted /\ ~Sorted' /\ Shown' = Shown
  BY <1>1, <1>2 DEF Sorted, Over, Shown
<1> QED
  BY <1>3, Staying

LEMMA NextPromise == Inv /\ [Next]_vars => [S!Next]_(S!vars)
<1> SUFFICES ASSUME Inv, [Next]_vars PROVE [S!Next]_(S!vars)
  OBVIOUS
<1>1. CASE Stopped \/ UNCHANGED vars
  <2>1. /\ which' = which /\ test' = test /\ list' = list /\ params' = params /\ x' = x /\ j' = j /\ pc' = pc
    BY <1>1 DEF Stopped, vars, ivars
  <2>2. (I!Harmless' <=> I!Harmless) /\ (I!Plain' <=> I!Plain)
    BY <2>1 DEF I!Harmless, I!Inert, I!Plain
  <2>3. I!Numbers' = I!Numbers
    BY <2>1, <2>2 DEF I!Numbers
  <2>4. Shown' = Shown /\ (Sorted' <=> Sorted)
    BY <2>1, <2>2, <2>3 DEF Shown, Sorted, Over
  <2> QED
    BY <2>4, Staying
<1> QED
  BY <1>1, MergePromise, RadixPromise, SelectPromise, InsertPromise, AgainPromise DEF Next

\* Every sort rearranges its array, never losing or doubling a value, and
\* ends with it in order, radix sort whatever a shift beyond the width does
\* (hw6.c:87-98, 126-149, 160-199, insert-sort.sh:5-23).
THEOREM SortsImplementSorting == Spec => ImplementsSorting
<1>1. Init => S!Init
  <2> SUFFICES ASSUME Init PROVE S!Init
    OBVIOUS
  <2>1. pc \in {"msort", "pass", "scan", "check"}
    BY DEF Init, M!Init, R!Init, L!Init, I!Init
  <2>2. Sorted = FALSE
    BY <2>1 DEF Sorted, Over
  <2> QED
    BY <2>2 DEF S!Init
<1> QED
  BY <1>1, NextPromise, SpecInv, PTL DEF Spec, ImplementsSorting, S!Spec
=============================================================================
