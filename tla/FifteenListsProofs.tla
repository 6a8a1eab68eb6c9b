------------------------- MODULE FifteenListsProofs -------------------------
(***************************************************************************)
(* Proofs about FifteenLists.  Each list of the program is a chain of       *)
(* addresses in the heap; the chains and the node in hand share the heap    *)
(* between them, and filter and merge_smart stand at some node of theirs    *)
(* (HInv).  With that each turn of a loop over pointers is a step of        *)
(* Fifteen, or none.  HInv alone is not inductive: that open is not empty   *)
(* where the loop cuts its head off, and that find_parent finds its row,    *)
(* are taken from the invariant of FifteenProofs (P!IInv), so the two are   *)
(* carried along together.                                                 *)
(***************************************************************************)
EXTENDS FifteenLists, FiniteSetTheorems, WellFoundedInduction, TLAPS

-----------------------------------------------------------------------------
(* Induction over sets of naturals.                                        *)

\* A set of naturals that is not empty has a least element.
LEMMA LeastElement ==
  ASSUME NEW S \in SUBSET Nat, S # {}
  PROVE  \E m \in S : \A k \in S : m <= k
<1>1. IsWellFoundedOn(OpToRel(<, Nat), Nat)
  BY NatLessThanWellFounded
<1>2. PICK m \in S : \A k \in S : <<k, m>> \notin OpToRel(<, Nat)
  BY <1>1, WFMin
<1>3. \A k \in S : ~(k < m)
  BY <1>2 DEF OpToRel
<1> QED
  BY <1>3

\* A set of naturals with 0 and the successor of each of its elements is Nat.
LEMMA Induction ==
  ASSUME NEW S, 0 \in S, \A n \in Nat : n \in S => n + 1 \in S
  PROVE  Nat \subseteq S
<1> DEFINE T == Nat \ S
<1>1. SUFFICES ASSUME T # {} PROVE FALSE
  OBVIOUS
<1>2. PICK m \in T : \A k \in T : m <= k
  BY <1>1, LeastElement
<1>3. m \in Nat /\ m # 0 /\ m - 1 \in Nat /\ m - 1 < m /\ m - 1 + 1 = m
  BY <1>2
<1>4. m - 1 \in S
  BY <1>2, <1>3
<1> QED
  BY <1>2, <1>3, <1>4
-----------------------------------------------------------------------------
(* Lists in a heap.                                                        *)

At(L, i) == IF i \in 1 .. Len(L) THEN L[i] ELSE NULL

Elems(L) == {L[i] : i \in 1 .. Len(L)}

\* The nodes of L, from the one p points to, are linked one behind the other
\* in the heap h, the last one to nothing.
Chain(h, L, p) ==
  /\ L \in Seq(DOMAIN h)
  /\ \A i, j \in 1 .. Len(L) : L[i] = L[j] => i = j
  /\ p = At(L, 1)
  /\ \A i \in 1 .. Len(L) : h[L[i]].next = At(L, i + 1)

\* The list without its k-th node.
Without(L, k) == [i \in 1 .. (Len(L) - 1) |-> IF i < k THEN L[i] ELSE L[i + 1]]

LEMMA SeqIs ==
  ASSUME NEW S, NEW n \in Nat, NEW L, L = [i \in 1 .. n |-> L[i]], \A i \in 1 .. n : L[i] \in S
  PROVE  L \in Seq(S) /\ Len(L) = n /\ DOMAIN L = 1 .. n
<1>1. L \in [1 .. n -> S]
  OBVIOUS
<1>2. L \in Seq(S)
  BY <1>1
<1>3. DOMAIN L = 1 .. n
  BY <1>1
<1>4. Len(L) \in Nat /\ DOMAIN L = 1 .. Len(L)
  BY <1>2
<1> QED
  BY <1>2, <1>3, <1>4

LEMMA SeqFacts ==
  ASSUME NEW S, NEW L \in Seq(S)
  PROVE  /\ Len(L) \in Nat /\ DOMAIN L = 1 .. Len(L)
         /\ \A i \in 1 .. Len(L) : L[i] \in S
         /\ L = [i \in 1 .. Len(L) |-> L[i]]
OBVIOUS

LEMMA SeqsEqual ==
  ASSUME NEW S, NEW T, NEW L \in Seq(S), NEW M \in Seq(T), Len(L) = Len(M),
         \A i \in 1 .. Len(L) : L[i] = M[i]
  PROVE  L = M
OBVIOUS

LEMMA ElemsIn == ASSUME NEW S, NEW L \in Seq(S) PROVE Elems(L) \subseteq S
BY DEF Elems

LEMMA ElemsEmpty == Elems(<<>>) = {} /\ \A i : At(<<>>, i) = NULL
BY DEF Elems, At

LEMMA ElemsConcat ==
  ASSUME NEW S, NEW L \in Seq(S), NEW M \in Seq(S)
  PROVE  Elems(L \o M) = Elems(L) \cup Elems(M)
<1>1. /\ L \o M \in Seq(S) /\ Len(L \o M) = Len(L) + Len(M) /\ Len(L) \in Nat /\ Len(M) \in Nat
      /\ \A i \in 1 .. (Len(L) + Len(M)) :
           (L \o M)[i] = IF i <= Len(L) THEN L[i] ELSE M[i - Len(L)]
  OBVIOUS
<1>2. ASSUME NEW i \in 1 .. Len(L \o M) PROVE (L \o M)[i] \in Elems(L) \cup Elems(M)
  <2>1. CASE i <= Len(L)
    <3>1. i \in 1 .. Len(L) /\ (L \o M)[i] = L[i]
      BY <1>1, <1>2, <2>1
    <3> QED
      BY <3>1 DEF Elems
  <2>2. CASE ~(i <= Len(L))
    <3>1. i - Len(L) \in 1 .. Len(M) /\ (L \o M)[i] = M[i - Len(L)]
      BY <1>1, <1>2, <2>2
    <3> QED
      BY <3>1 DEF Elems
  <2> QED
    BY <2>1, <2>2
<1>3. ASSUME NEW i \in 1 .. Len(L) PROVE L[i] \in Elems(L \o M)
  <2>1. i \in 1 .. Len(L \o M) /\ (L \o M)[i] = L[i]
    BY <1>1
  <2> QED
    BY <2>1 DEF Elems
<1>4. ASSUME NEW i \in 1 .. Len(M) PROVE M[i] \in Elems(L \o M)
  <2>1. i + Len(L) \in 1 .. Len(L \o M) /\ (L \o M)[i + Len(L)] = M[i]
    BY <1>1
  <2> QED
    BY <2>1 DEF Elems
<1> HIDE DEF Elems
<1>5. Elems(L \o M) \subseteq Elems(L) \cup Elems(M)
  BY <1>2 DEF Elems
<1>6. Elems(L) \subseteq Elems(L \o M)
  BY <1>3 DEF Elems
<1>7. Elems(M) \subseteq Elems(L \o M)
  BY <1>4 DEF Elems
<1> QED
  BY <1>5, <1>6, <1>7

LEMMA ElemsOne == ASSUME NEW a PROVE Elems(<<a>>) = {a}
<1>1. Len(<<a>>) = 1 /\ <<a>>[1] = a
  OBVIOUS
<1> QED
  BY <1>1 DEF Elems

LEMMA WithoutFacts ==
  ASSUME NEW S, NEW L \in Seq(S), NEW k \in 1 .. Len(L)
  PROVE  /\ Without(L, k) \in Seq(S) /\ Len(Without(L, k)) = Len(L) - 1 /\ Len(L) - 1 \in Nat
         /\ DOMAIN Without(L, k) = 1 .. (Len(L) - 1)
         /\ \A i \in 1 .. (Len(L) - 1) : Without(L, k)[i] = IF i < k THEN L[i] ELSE L[i + 1]
<1> DEFINE M == Without(L, k)
<1>1. Len(L) - 1 \in Nat /\ M = [i \in 1 .. (Len(L) - 1) |-> IF i < k THEN L[i] ELSE L[i + 1]]
  BY DEF Without
<1>2. \A i \in 1 .. (Len(L) - 1) : M[i] = IF i < k THEN L[i] ELSE L[i + 1]
  BY <1>1
<1>3. \A i \in 1 .. (Len(L) - 1) : i \in 1 .. Len(L) /\ i + 1 \in 1 .. Len(L)
  OBVIOUS
<1>4. \A i \in 1 .. (Len(L) - 1) : M[i] \in S
  BY <1>2, <1>3
<1>5. M = [i \in 1 .. (Len(L) - 1) |-> M[i]]
  BY <1>1
<1> HIDE DEF M
<1>6. M \in Seq(S) /\ Len(M) = Len(L) - 1 /\ DOMAIN M = 1 .. (Len(L) - 1)
  BY <1>1, <1>4, <1>5, SeqIs
<1> QED
  BY <1>1, <1>2, <1>6 DEF M

LEMMA ElemsWithout ==
  ASSUME NEW S, NEW L \in Seq(S), NEW k \in 1 .. Len(L),
         \A i, j \in 1 .. Len(L) : L[i] = L[j] => i = j
  PROVE  Elems(Without(L, k)) = Elems(L) \ {L[k]}
<1> DEFINE M == Without(L, k)
<1>1. /\ Len(L) \in Nat /\ Len(M) = Len(L) - 1
      /\ \A i \in 1 .. (Len(L) - 1) : M[i] = IF i < k THEN L[i] ELSE L[i + 1]
  BY WithoutFacts
<1> HIDE DEF M
<1>2. ASSUME NEW i \in 1 .. Len(M) PROVE M[i] \in Elems(L) \ {L[k]}
  <2>1. i \in 1 .. Len(L) /\ i + 1 \in 1 .. Len(L) /\ i \in 1 .. (Len(L) - 1)
    BY <1>1
  <2>2. CASE i < k
    BY <1>1, <2>1, <2>2 DEF Elems
  <2>3. CASE ~(i < k)
    <3>1. M[i] = L[i + 1] /\ i + 1 # k
      BY <1>1, <2>1, <2>3
    <3> QED
      BY <2>1, <3>1 DEF Elems
  <2> QED
    BY <2>2, <2>3
<1>3. ASSUME NEW i \in 1 .. Len(L), i # k PROVE L[i] \in Elems(M)
  <2>1. CASE i < k
    <3>1. i \in 1 .. (Len(L) - 1) /\ M[i] = L[i]
      BY <1>1, <2>1
    <3> QED
      BY <1>1, <3>1 DEF Elems
  <2>2. CASE ~(i < k)
    <3>1. i - 1 \in 1 .. (Len(L) - 1) /\ M[i - 1] = L[i - 1 + 1] /\ i - 1 + 1 = i
      BY <1>1, <1>3, <2>2
    <3> QED
      BY <1>1, <3>1 DEF Elems
  <2> QED
    BY <2>1, <2>2
<1>4. Elems(M) \subseteq Elems(L) \ {L[k]}
  BY <1>2 DEF Elems
<1>5. Elems(L) \ {L[k]} \subseteq Elems(M)
  BY <1>3 DEF Elems
<1> QED
  BY <1>4, <1>5 DEF M

LEMMA ChainEmpty == ASSUME NEW h PROVE Chain(h, <<>>, NULL)
BY DEF Chain, At

\* A list is empty just when the pointer to it is NULL.
LEMMA ChainHead ==
  ASSUME NEW h, NEW L, NEW p, Chain(h, L, p), NULL \notin DOMAIN h
  PROVE  /\ Len(L) \in Nat /\ Elems(L) \subseteq DOMAIN h
         /\ p = NULL => L = <<>> /\ Len(L) = 0
         /\ p # NULL => Len(L) >= 1 /\ p = L[1] /\ p \in Elems(L) /\ h[p].next = At(L, 2)
<1>1. /\ L \in Seq(DOMAIN h) /\ Len(L) \in Nat /\ p = At(L, 1)
      /\ \A i \in 1 .. Len(L) : L[i] \in DOMAIN h /\ h[L[i]].next = At(L, i + 1)
  BY DEF Chain
<1>2. CASE Len(L) = 0
  <2>1. L = <<>>
    BY <1>1, <1>2
  <2> QED
    BY <1>2, <2>1, <1>1 DEF At, Elems
<1>3. CASE Len(L) # 0
  <2>1. 1 \in 1 .. Len(L) /\ 1 + 1 = 2
    BY <1>1, <1>3
  <2>2. p = L[1] /\ p \in DOMAIN h /\ h[p].next = At(L, 2) /\ Len(L) >= 1
    BY <1>1, <2>1 DEF At
  <2>3. p \in Elems(L)
    BY <2>1, <2>2 DEF Elems
  <2> QED
    BY <1>1, <2>2, <2>3, ElemsIn
<1> QED
  BY <1>2, <1>3

\* A list whose nodes keep their next fields stays a list.
LEMMA ChainSame ==
  ASSUME NEW h, NEW L, NEW p, Chain(h, L, p), NEW h2,
         \A a \in Elems(L) : a \in DOMAIN h2 /\ h2[a].next = h[a].next
  PROVE  Chain(h2, L, p)
<1>1. /\ L \in Seq(DOMAIN h) /\ Len(L) \in Nat /\ p = At(L, 1)
      /\ \A i, j \in 1 .. Len(L) : L[i] = L[j] => i = j
      /\ \A i \in 1 .. Len(L) : L[i] \in DOMAIN h /\ h[L[i]].next = At(L, i + 1)
  BY DEF Chain
<1>2. L = [i \in 1 .. Len(L) |-> L[i]]
  BY <1>1
<1>3. \A i \in 1 .. Len(L) : L[i] \in DOMAIN h2 /\ h2[L[i]].next = h[L[i]].next
  BY DEF Elems
<1>4. L \in Seq(DOMAIN h2)
  BY <1>1, <1>2, <1>3, SeqIs
<1> QED
  BY <1>1, <1>3, <1>4 DEF Chain

\* A list of which one node is bypassed.
LEMMA ChainWithout ==
  ASSUME NEW h, NEW L, NEW p, Chain(h, L, p), NEW k \in 1 .. Len(L), NEW h2,
         \A a \in Elems(L) \ {L[k]} :
            a \in DOMAIN h2 /\ h2[a].next = IF k > 1 /\ a = L[k - 1] THEN h[L[k]].next ELSE h[a].next
  PROVE  Chain(h2, Without(L, k), IF k = 1 THEN h[L[k]].next ELSE p)
<1> DEFINE M == Without(L, k)
<1>1. /\ L \in Seq(DOMAIN h) /\ Len(L) \in Nat /\ p = At(L, 1)
      /\ \A i, j \in 1 .. Len(L) : L[i] = L[j] => i = j
      /\ \A i \in 1 .. Len(L) : L[i] \in DOMAIN h /\ h[L[i]].next = At(L, i + 1)
  BY DEF Chain
<1>2. /\ Len(M) = Len(L) - 1 /\ Len(M) \in Nat
      /\ \A i \in 1 .. (Len(L) - 1) : M[i] = IF i < k THEN L[i] ELSE L[i + 1]
  <2>1. L \in Seq(DOMAIN h)
    BY <1>1
  <2> QED
    BY <2>1, WithoutFacts
<1>3. M = [i \in 1 .. Len(M) |-> M[i]]
  BY <1>2 DEF Without
<1> HIDE DEF M
<1>4. \A i \in 1 .. Len(L) : i # k =>
        L[i] \in DOMAIN h2 /\ h2[L[i]].next = IF i = k - 1 THEN At(L, k + 1) ELSE At(L, i + 1)
  <2> SUFFICES ASSUME NEW i \in 1 .. Len(L), i # k
               PROVE  L[i] \in DOMAIN h2 /\ h2[L[i]].next = IF i = k - 1 THEN At(L, k + 1) ELSE At(L, i + 1)
    OBVIOUS
  <2>1. L[i] # L[k] /\ L[i] \in Elems(L)
    BY <1>1 DEF Elems
  <2>2. k > 1 => k - 1 \in 1 .. Len(L) /\ (L[i] = L[k - 1] => i = k - 1)
    BY <1>1
  <2>3. i = k - 1 => k > 1
    OBVIOUS
  <2>4. (k > 1 /\ L[i] = L[k - 1]) <=> i = k - 1
    BY <2>2, <2>3
  <2> QED
    BY <1>1, <2>1, <2>4
<1>5. ASSUME NEW i \in 1 .. Len(M)
      PROVE  M[i] \in DOMAIN h2 /\ h2[M[i]].next = At(M, i + 1)
  <2>1. i \in 1 .. Len(L) /\ i + 1 \in 1 .. Len(L) /\ i \in 1 .. (Len(L) - 1)
    BY <1>2
  <2>2. CASE i < k
    <3>1. M[i] = L[i] /\ i # k
      BY <1>2, <2>1, <2>2
    <3>2. CASE i = k - 1
      <4>1. h2[M[i]].next = At(L, k + 1) /\ M[i] \in DOMAIN h2
        BY <1>4, <2>1, <3>1, <3>2
      <4>2. i + 1 = k /\ ~(k < k) /\ (k + 1 \in 1 .. Len(L) <=> k \in 1 .. Len(M))
        BY <1>1, <1>2, <3>2
      <4>3. k \in 1 .. Len(M) => M[k] = L[k + 1]
        BY <1>2, <4>2
      <4> QED
        BY <4>1, <4>2, <4>3 DEF At
    <3>3. CASE i # k - 1
      <4>1. h2[M[i]].next = At(L, i + 1) /\ M[i] \in DOMAIN h2
        BY <1>4, <2>1, <3>1, <3>3
      <4>2. i + 1 < k /\ i + 1 \in 1 .. (Len(L) - 1)
        BY <2>1, <2>2, <3>3
      <4>3. M[i + 1] = L[i + 1]
        BY <1>2, <4>2
      <4> QED
        BY <1>2, <2>1, <4>1, <4>2, <4>3 DEF At
    <3> QED
      BY <3>2, <3>3
  <2>3. CASE ~(i < k)
    <3>1. M[i] = L[i + 1] /\ i + 1 # k /\ i + 1 # k - 1
      BY <1>2, <2>1, <2>3
    <3>2. h2[M[i]].next = At(L, i + 1 + 1) /\ M[i] \in DOMAIN h2
      BY <1>4, <2>1, <3>1
    <3>3. ~(i + 1 < k) /\ (i + 1 \in 1 .. Len(M) <=> i + 1 + 1 \in 1 .. Len(L))
      BY <1>2, <2>3
    <3>4. i + 1 \in 1 .. Len(M) => M[i + 1] = L[i + 1 + 1]
      BY <1>2, <3>3
    <3> QED
      BY <3>2, <3>3, <3>4 DEF At
  <2> QED
    BY <2>2, <2>3
<1>6. M \in Seq(DOMAIN h2)
  BY <1>2, <1>3, <1>5, SeqIs
<1>7. ASSUME NEW i \in 1 .. Len(M), NEW j \in 1 .. Len(M), M[i] = M[j] PROVE i = j
  <2>1. \A n \in 1 .. Len(M) : M[n] = IF n < k THEN L[n] ELSE L[n + 1]
    BY <1>2
  <2>2. i \in 1 .. Len(L) /\ i + 1 \in 1 .. Len(L) /\ j \in 1 .. Len(L) /\ j + 1 \in 1 .. Len(L)
    BY <1>2
  <2>3. (IF i < k THEN i ELSE i + 1) = (IF j < k THEN j ELSE j + 1)
    BY <1>1, <1>7, <2>1, <2>2
  <2> QED
    BY <2>3
<1>8. (IF k = 1 THEN h[L[k]].next ELSE p) = At(M, 1)
  <2>1. CASE k = 1
    <3>1. h[L[k]].next = At(L, 2)
      BY <1>1, <2>1
    <3>2. 1 \in 1 .. Len(M) <=> 2 \in 1 .. Len(L)
      BY <1>2
    <3>3. 1 \in 1 .. Len(M) => M[1] = L[2]
      BY <1>2, <2>1
    <3> QED
      BY <2>1, <3>1, <3>2, <3>3 DEF At
  <2>2. CASE k # 1
    <3>1. 1 \in 1 .. Len(M) /\ 1 \in 1 .. Len(L) /\ 1 < k
      BY <1>1, <1>2, <2>2
    <3>2. M[1] = L[1]
      BY <1>2, <3>1
    <3> QED
      BY <1>1, <2>2, <3>1, <3>2 DEF At
  <2> QED
    BY <2>1, <2>2
<1>9. Chain(h2, M, At(M, 1))
  BY <1>5, <1>6, <1>7 DEF Chain
<1> QED
  BY <1>8, <1>9 DEF M

LEMMA ConcatFacts ==
  ASSUME NEW S, NEW L \in Seq(S), NEW M \in Seq(S)
  PROVE  /\ L \o M \in Seq(S) /\ Len(L \o M) = Len(L) + Len(M) /\ Len(L) \in Nat /\ Len(M) \in Nat
         /\ \A i \in 1 .. Len(L) : i \in 1 .. (Len(L) + Len(M)) /\ (L \o M)[i] = L[i]
         /\ \A i \in 1 .. Len(M) : /\ i + Len(L) \in 1 .. (Len(L) + Len(M))
                                   /\ (L \o M)[i + Len(L)] = M[i]
         /\ \A i \in 1 .. (Len(L) + Len(M)) :
              \/ i \in 1 .. Len(L) /\ (L \o M)[i] = L[i]
              \/ i - Len(L) \in 1 .. Len(M) /\ (L \o M)[i] = M[i - Len(L)]
<1>1. /\ L \o M \in Seq(S) /\ Len(L \o M) = Len(L) + Len(M) /\ Len(L) \in Nat /\ Len(M) \in Nat
  OBVIOUS
<1>2. \A i \in 1 .. (Len(L) + Len(M)) : (L \o M)[i] = IF i <= Len(L) THEN L[i] ELSE M[i - Len(L)]
  OBVIOUS
<1>3. \A i \in 1 .. Len(L) : i \in 1 .. (Len(L) + Len(M)) /\ (L \o M)[i] = L[i]
  BY <1>1, <1>2
<1>4. ASSUME NEW i \in 1 .. Len(M)
      PROVE  i + Len(L) \in 1 .. (Len(L) + Len(M)) /\ (L \o M)[i + Len(L)] = M[i]
  <2>1. i + Len(L) \in 1 .. (Len(L) + Len(M)) /\ ~(i + Len(L) <= Len(L)) /\ i + Len(L) - Len(L) = i
    BY <1>1
  <2> QED
    BY <1>2, <2>1
<1>5. ASSUME NEW i \in 1 .. (Len(L) + Len(M))
      PROVE  \/ i \in 1 .. Len(L) /\ (L \o M)[i] = L[i]
             \/ i - Len(L) \in 1 .. Len(M) /\ (L \o M)[i] = M[i - Len(L)]
  <2>1. i <= Len(L) \/ ~(i <= Len(L))
    OBVIOUS
  <2>2. ~(i <= Len(L)) => i - Len(L) \in 1 .. Len(M)
    BY <1>1
  <2>3. i <= Len(L) => i \in 1 .. Len(L)
    BY <1>1
  <2> QED
    BY <1>2, <2>1, <2>2, <2>3
<1> QED
  BY <1>1, <1>3, <1>4, <1>5

\* Two lists with no node in common, the second one linked behind the first.
LEMMA ChainJoin ==
  ASSUME NEW h, NEW L, NEW p, NEW M, NEW q, Chain(h, L, p), Chain(h, M, q),
         Len(L) >= 1, Elems(L) \cap Elems(M) = {}, NEW h2,
         \A a \in Elems(L) : a \in DOMAIN h2 /\ h2[a].next = IF a = L[Len(L)] THEN q ELSE h[a].next,
         \A a \in Elems(M) : a \in DOMAIN h2 /\ h2[a].next = h[a].next
  PROVE  Chain(h2, L \o M, p)
<1> DEFINE K == L \o M
           m == Len(L)
           n == Len(M)
<1>1. /\ L \in Seq(DOMAIN h) /\ m \in Nat /\ p = At(L, 1)
      /\ \A i, j \in 1 .. m : L[i] = L[j] => i = j
      /\ \A i \in 1 .. m : h[L[i]].next = At(L, i + 1)
  BY DEF Chain
<1>2. /\ M \in Seq(DOMAIN h) /\ n \in Nat /\ q = At(M, 1)
      /\ \A i, j \in 1 .. n : M[i] = M[j] => i = j
      /\ \A i \in 1 .. n : h[M[i]].next = At(M, i + 1)
  BY DEF Chain
<1>3. /\ K \in Seq(DOMAIN h) /\ Len(K) = m + n
      /\ \A i \in 1 .. m : i \in 1 .. (m + n) /\ K[i] = L[i]
      /\ \A i \in 1 .. n : i + m \in 1 .. (m + n) /\ K[i + m] = M[i]
      /\ \A i \in 1 .. (m + n) : \/ i \in 1 .. m /\ K[i] = L[i]
                                 \/ i - m \in 1 .. n /\ K[i] = M[i - m]
  <2>1. L \in Seq(DOMAIN h) /\ M \in Seq(DOMAIN h)
    BY <1>1, <1>2
  <2> QED
    BY <2>1, ConcatFacts
<1>4. \A i \in 1 .. m : L[i] \in Elems(L)
  BY DEF Elems
<1>5. \A i \in 1 .. n : M[i] \in Elems(M)
  BY DEF Elems
<1> HIDE DEF K, m, n
<1>6. K = [i \in 1 .. (m + n) |-> K[i]]
  BY <1>3, SeqFacts
<1>7. m >= 1
  BY DEF m
<1>8. ASSUME NEW i \in 1 .. m
      PROVE  L[i] \in DOMAIN h2 /\ h2[L[i]].next = IF i = m THEN q ELSE At(L, i + 1)
  <2>1. L[i] = L[m] <=> i = m
    BY <1>1, <1>7
  <2> QED
    BY <1>1, <1>4, <2>1 DEF m
<1>9. ASSUME NEW i \in 1 .. n
      PROVE  M[i] \in DOMAIN h2 /\ h2[M[i]].next = At(M, i + 1)
  BY <1>2, <1>5
<1>10. ASSUME NEW i \in 1 .. (m + n)
       PROVE  K[i] \in DOMAIN h2 /\ h2[K[i]].next = At(K, i + 1)
  <2>1. CASE i \in 1 .. m /\ K[i] = L[i] /\ i = m
    <3>1. K[i] \in DOMAIN h2 /\ h2[K[i]].next = At(M, 1)
      BY <1>2, <1>8, <2>1
    <3>2. i + 1 \in 1 .. (m + n) <=> 1 \in 1 .. n
      BY <1>1, <1>2, <2>1
    <3>3. 1 \in 1 .. n => K[i + 1] = M[1]
      BY <1>1, <1>3, <2>1
    <3> QED
      BY <1>3, <3>1, <3>2, <3>3 DEF At, n
  <2>2. CASE i \in 1 .. m /\ K[i] = L[i] /\ i # m
    <3>1. i + 1 \in 1 .. m
      BY <1>1, <2>2
    <3>2. K[i] \in DOMAIN h2 /\ h2[K[i]].next = L[i + 1]
      BY <1>8, <2>2, <3>1 DEF At, m
    <3> QED
      BY <1>3, <3>1, <3>2 DEF At
  <2>3. CASE i - m \in 1 .. n /\ K[i] = M[i - m]
    <3>1. K[i] \in DOMAIN h2 /\ h2[K[i]].next = At(M, i - m + 1)
      BY <1>9, <2>3
    <3>2. i + 1 \in 1 .. (m + n) <=> i - m + 1 \in 1 .. n
      BY <1>1, <1>2, <2>3
    <3>3. i - m + 1 + m = i + 1
      BY <1>1
    <3>4. i - m + 1 \in 1 .. n => K[i + 1] = M[i - m + 1]
      BY <1>3, <3>3
    <3> QED
      BY <1>3, <3>1, <3>2, <3>4 DEF At, n
  <2> QED
    BY <1>3, <2>1, <2>2, <2>3
<1>11. K \in Seq(DOMAIN h2)
  <2>1. m + n \in Nat /\ \A i \in 1 .. (m + n) : K[i] \in DOMAIN h2
    BY <1>1, <1>2, <1>10
  <2> QED
    BY <1>6, <2>1, SeqIs
<1>12. ASSUME NEW i \in 1 .. (m + n), NEW j \in 1 .. (m + n), K[i] = K[j] PROVE i = j
  <2>1. \A a \in 1 .. m, b \in 1 .. n : L[a] # M[b]
    BY <1>4, <1>5
  <2>2. CASE i \in 1 .. m /\ K[i] = L[i] /\ j \in 1 .. m /\ K[j] = L[j]
    BY <1>1, <1>12, <2>2
  <2>3. CASE i - m \in 1 .. n /\ K[i] = M[i - m] /\ j - m \in 1 .. n /\ K[j] = M[j - m]
    <3>1. i - m = j - m
      BY <1>2, <1>12, <2>3
    <3> QED
      BY <1>1, <3>1
  <2> QED
    BY <1>3, <1>12, <2>1, <2>2, <2>3
<1>13. p = At(K, 1)
  BY <1>1, <1>2, <1>3, <1>7 DEF At, m
<1> QED
  BY <1>3, <1>10, <1>11, <1>12, <1>13 DEF Chain, K

\* A node linked in front of a list.
LEMMA ChainCons ==
  ASSUME NEW h, NEW L, NEW p, Chain(h, L, p), NEW a \in DOMAIN h, a \notin Elems(L),
         h[a].next = p
  PROVE  Chain(h, <<a>> \o L, a)
<1> DEFINE A == <<a>>
           K == A \o L
           n == Len(L)
<1>1. /\ L \in Seq(DOMAIN h) /\ n \in Nat /\ p = At(L, 1)
      /\ \A i, j \in 1 .. n : L[i] = L[j] => i = j
      /\ \A i \in 1 .. n : h[L[i]].next = At(L, i + 1)
  BY DEF Chain
<1>2. A \in Seq(DOMAIN h) /\ Len(A) = 1 /\ A[1] = a
  OBVIOUS
<1>3. /\ K \in Seq(DOMAIN h) /\ Len(K) = 1 + n
      /\ \A i \in 1 .. 1 : i \in 1 .. (1 + n) /\ K[i] = A[i]
      /\ \A i \in 1 .. n : i + 1 \in 1 .. (1 + n) /\ K[i + 1] = L[i]
      /\ \A i \in 1 .. (1 + n) : \/ i \in 1 .. 1 /\ K[i] = A[i]
                                 \/ i - 1 \in 1 .. n /\ K[i] = L[i - 1]
  <2>1. L \in Seq(DOMAIN h)
    BY <1>1
  <2> HIDE DEF A
  <2>2. /\ K \in Seq(DOMAIN h) /\ Len(K) = Len(A) + Len(L)
        /\ \A i \in 1 .. Len(A) : i \in 1 .. (Len(A) + Len(L)) /\ K[i] = A[i]
        /\ \A i \in 1 .. Len(L) : i + Len(A) \in 1 .. (Len(A) + Len(L)) /\ K[i + Len(A)] = L[i]
        /\ \A i \in 1 .. (Len(A) + Len(L)) : \/ i \in 1 .. Len(A) /\ K[i] = A[i]
                                             \/ i - Len(A) \in 1 .. Len(L) /\ K[i] = L[i - Len(A)]
    <3>1. A \in Seq(DOMAIN h)
      BY <1>2
    <3> QED
      BY <2>1, <3>1, ConcatFacts
  <2> HIDE DEF K
  <2> QED
    BY <1>2, <2>2
<1>4. \A i \in 1 .. n : L[i] \in Elems(L)
  BY DEF Elems
<1> HIDE DEF K, A, n
<1>5. K[1] = a /\ 1 \in 1 .. (1 + n)
  BY <1>1, <1>2, <1>3
<1>6. \A i \in 1 .. (1 + n) : \/ i = 1 /\ K[i] = a
                              \/ i - 1 \in 1 .. n /\ K[i] = L[i - 1]
  BY <1>3, <1>5
<1>7. \A i \in 1 .. (1 + n) : i + 1 \in 1 .. (1 + n) <=> i \in 1 .. n
  BY <1>1
<1>8. \A i \in 1 .. (1 + n) : At(K, i + 1) = At(L, i)
  BY <1>3, <1>7 DEF At, n
<1>9. \A i \in 1 .. (1 + n) : h[K[i]].next = At(K, i + 1)
  <2> SUFFICES ASSUME NEW i \in 1 .. (1 + n) PROVE h[K[i]].next = At(L, i)
    BY <1>8
  <2>1. CASE i = 1 /\ K[i] = a
    BY <1>1, <2>1
  <2>2. CASE i - 1 \in 1 .. n /\ K[i] = L[i - 1]
    <3>1. i - 1 + 1 = i
      OBVIOUS
    <3>2. h[L[i - 1]].next = At(L, i - 1 + 1)
      BY <1>1, <2>2
    <3> QED
      BY <2>2, <3>1, <3>2
  <2> QED
    BY <1>6, <2>1, <2>2
<1>10. ASSUME NEW i \in 1 .. (1 + n), NEW j \in 1 .. (1 + n), K[i] = K[j] PROVE i = j
  <2>1. CASE i = 1 \/ j = 1
    BY <1>4, <1>6, <1>10, <2>1
  <2>2. CASE i - 1 \in 1 .. n /\ K[i] = L[i - 1] /\ j - 1 \in 1 .. n /\ K[j] = L[j - 1]
    <3>1. i - 1 = j - 1
      BY <1>1, <1>10, <2>2
    <3> QED
      BY <3>1
  <2> QED
    BY <1>6, <2>1, <2>2
<1>11. a = At(K, 1)
  BY <1>3, <1>5 DEF At
<1> QED
  BY <1>3, <1>9, <1>10, <1>11 DEF Chain, K, A

LEMMA CountTo ==
  ASSUME NEW n \in Nat
  PROVE  IsFiniteSet(1 .. n) /\ Cardinality(1 .. n) = n
BY FS_Interval

\* A list has as many nodes as there are addresses in it.
LEMMA CountElems ==
  ASSUME NEW S, NEW L \in Seq(S), \A i, j \in 1 .. Len(L) : L[i] = L[j] => i = j
  PROVE  IsFiniteSet(Elems(L)) /\ Cardinality(Elems(L)) = Len(L)
<1> DEFINE f == [i \in 1 .. Len(L) |-> L[i]]
<1>1. Len(L) \in Nat
  OBVIOUS
<1>2. IsFiniteSet(1 .. Len(L)) /\ Cardinality(1 .. Len(L)) = Len(L)
  BY <1>1, CountTo
<1>3. f \in [1 .. Len(L) -> Elems(L)]
  BY DEF Elems
<1>4. f \in Bijection(1 .. Len(L), Elems(L))
  BY <1>3, Zenon DEF Elems, Bijection, Injection, Surjection, IsInjective
<1> QED
  BY <1>2, <1>4, FS_Bijection DEF ExistsBijection

LEMMA ChainFits ==
  ASSUME NEW h, NEW L, NEW p, Chain(h, L, p), IsFiniteSet(DOMAIN h)
  PROVE  Len(L) <= Cardinality(DOMAIN h) /\ Cardinality(DOMAIN h) \in Nat
<1>1. L \in Seq(DOMAIN h) /\ \A i, j \in 1 .. Len(L) : L[i] = L[j] => i = j
  BY DEF Chain
<1>2. Cardinality(Elems(L)) = Len(L)
  BY <1>1, CountElems
<1>3. Elems(L) \subseteq DOMAIN h
  BY <1>1, ElemsIn
<1>4. Cardinality(Elems(L)) <= Cardinality(DOMAIN h)
  BY <1>3, FS_Subset
<1> QED
  BY <1>2, <1>4, FS_CardinalityType

\* The walk of List along the heap h: behind the first i addresses of w comes
\* Follows, if Goes holds.
Follows(h, p, w, i) == IF i = 0 THEN p ELSE h[w[i]].next
Goes(h, p, w, i)    == Follows(h, p, w, i) \in DOMAIN h /\ i <= Cardinality(DOMAIN h)

IsWalk(W, h, p) ==
  W = [w \in Seq(DOMAIN h) |-> IF Goes(h, p, w, Len(w)) THEN W[Append(w, Follows(h, p, w, Len(w)))]
                                                        ELSE w]

\* The walks from w to where they stop.
Ends(h, p, w) ==
  {v \in Seq(DOMAIN h) : /\ Len(w) <= Len(v)
                         /\ \A i \in 1 .. Len(w) : v[i] = w[i]
                         /\ \A i \in Len(w) .. (Len(v) - 1) : Goes(h, p, v, i) /\ v[i + 1] = Follows(h, p, v, i)
                         /\ ~Goes(h, p, v, Len(v))}

LEMMA WalksExist == ASSUME NEW h, NEW p PROVE \E W : IsWalk(W, h, p)
<1> DEFINE A == DOMAIN h
           W == [w \in Seq(A) |-> CHOOSE v : v \in Ends(h, p, w)]
<1>1. ASSUME NEW w \in Seq(A), NEW v \in Seq(A), Len(w) <= Len(v), \A i \in 1 .. Len(w) : v[i] = w[i]
      PROVE  /\ Follows(h, p, v, Len(w)) = Follows(h, p, w, Len(w))
             /\ Goes(h, p, v, Len(w)) <=> Goes(h, p, w, Len(w))
  <2>1. Len(w) \in Nat
    OBVIOUS
  <2>2. Len(w) # 0 => v[Len(w)] = w[Len(w)]
    BY <1>1, <2>1
  <2> QED
    BY <2>2 DEF Follows, Goes
<1>2. ASSUME NEW w \in Seq(A), ~Goes(h, p, w, Len(w)) PROVE Ends(h, p, w) = {w}
  <2>1. ASSUME NEW v \in Ends(h, p, w) PROVE v = w
    <3>1. /\ v \in Seq(A) /\ Len(v) \in Nat /\ Len(w) \in Nat /\ Len(w) <= Len(v)
          /\ \A i \in 1 .. Len(w) : v[i] = w[i]
          /\ \A i \in Len(w) .. (Len(v) - 1) : Goes(h, p, v, i)
      BY <2>1 DEF Ends
    <3>2. ~Goes(h, p, v, Len(w))
      BY <1>1, <1>2, <3>1
    <3>3. Len(v) = Len(w)
      BY <3>1, <3>2
    <3> QED
      BY <3>1, <3>3, SeqsEqual
  <2>2. w \in Ends(h, p, w)
    <3>1. Len(w) \in Nat /\ \A i \in Len(w) .. (Len(w) - 1) : FALSE
      OBVIOUS
    <3> QED
      BY <1>2, <3>1 DEF Ends
  <2> QED
    BY <2>1, <2>2
<1>3. ASSUME NEW w \in Seq(A), Goes(h, p, w, Len(w))
      PROVE  LET w2 == Append(w, Follows(h, p, w, Len(w)))
             IN  w2 \in Seq(A) /\ Ends(h, p, w) = Ends(h, p, w2)
  <2> DEFINE q  == Follows(h, p, w, Len(w))
             w2 == Append(w, q)
             n  == Len(w)
  <2>1. q \in A
    BY <1>3 DEF Goes
  <2> HIDE DEF q
  <2>2. w2 \in Seq(A) /\ Len(w2) = n + 1 /\ n \in Nat /\ w2[n + 1] = q /\ \A i \in 1 .. n : w2[i] = w[i]
    BY <2>1
  <2> HIDE DEF w2, n
  <2>3. ASSUME NEW v \in Ends(h, p, w) PROVE v \in Ends(h, p, w2)
    <3>1. /\ v \in Seq(A) /\ Len(v) \in Nat /\ n <= Len(v)
          /\ \A i \in 1 .. n : v[i] = w[i]
          /\ \A i \in n .. (Len(v) - 1) : Goes(h, p, v, i) /\ v[i + 1] = Follows(h, p, v, i)
          /\ ~Goes(h, p, v, Len(v))
      BY <2>3 DEF Ends, n
    <3>2. Follows(h, p, v, n) = q /\ Goes(h, p, v, n)
      BY <1>1, <1>3, <3>1 DEF q, n
    <3>3. n + 1 <= Len(v) /\ n \in n .. (Len(v) - 1)
      BY <2>2, <3>1, <3>2
    <3>4. v[n + 1] = q
      BY <3>1, <3>2, <3>3
    <3>5. \A i \in 1 .. (n + 1) : v[i] = w2[i]
      BY <2>2, <3>1, <3>4
    <3>6. \A i \in (n + 1) .. (Len(v) - 1) : i \in n .. (Len(v) - 1)
      BY <2>2
    <3> QED
      BY <2>2, <3>1, <3>3, <3>5, <3>6 DEF Ends
  <2>4. ASSUME NEW v \in Ends(h, p, w2) PROVE v \in Ends(h, p, w)
    <3>1. /\ v \in Seq(A) /\ Len(v) \in Nat /\ n + 1 <= Len(v)
          /\ \A i \in 1 .. (n + 1) : v[i] = w2[i]
          /\ \A i \in (n + 1) .. (Len(v) - 1) : Goes(h, p, v, i) /\ v[i + 1] = Follows(h, p, v, i)
          /\ ~Goes(h, p, v, Len(v))
      BY <2>2, <2>4 DEF Ends
    <3>2. n <= Len(v) /\ \A i \in 1 .. n : v[i] = w[i]
      BY <2>2, <3>1
    <3>3. Follows(h, p, v, n) = q /\ Goes(h, p, v, n)
      BY <1>1, <1>3, <3>1, <3>2 DEF q, n
    <3>4. v[n + 1] = q
      BY <2>2, <3>1
    <3>5. \A i \in n .. (Len(v) - 1) : i = n \/ i \in (n + 1) .. (Len(v) - 1)
      BY <2>2
    <3>6. \A i \in n .. (Len(v) - 1) : Goes(h, p, v, i) /\ v[i + 1] = Follows(h, p, v, i)
      BY <3>1, <3>3, <3>4, <3>5
    <3> QED
      BY <3>1, <3>2, <3>6 DEF Ends, n
  <2>5. Ends(h, p, w) = Ends(h, p, w2)
    BY <2>3, <2>4
  <2> QED
    BY <2>2, <2>5 DEF w2, q
<1>4. ASSUME NEW w \in Seq(A)
      PROVE  W[w] = IF Goes(h, p, w, Len(w)) THEN W[Append(w, Follows(h, p, w, Len(w)))] ELSE w
  <2>1. CASE Goes(h, p, w, Len(w))
    BY <1>3, <2>1
  <2>2. CASE ~Goes(h, p, w, Len(w))
    BY <1>2, <2>2
  <2> QED
    BY <2>1, <2>2
<1>5. W = [w \in Seq(A) |-> W[w]]
  OBVIOUS
<1> HIDE DEF W
<1>6. IsWalk(W, h, p)
  BY <1>4, <1>5 DEF IsWalk
<1> QED
  BY <1>6

\* List of FifteenLists in any heap.
ListIn(h, p) ==
  LET W[w \in Seq(DOMAIN h)] ==
        LET q == IF w = <<>> THEN p ELSE h[w[Len(w)]].next
        IN  IF q \in DOMAIN h /\ Len(w) <= Cardinality(DOMAIN h) THEN W[Append(w, q)] ELSE w
  IN  W[<<>>]

LEMMA ListInWalk == ASSUME NEW h, NEW p PROVE \E W : IsWalk(W, h, p) /\ ListIn(h, p) = W[<<>>]
<1> DEFINE A == DOMAIN h
           Body(W) == [w \in Seq(A) |->
                         LET q == IF w = <<>> THEN p ELSE h[w[Len(w)]].next
                         IN  IF q \in A /\ Len(w) <= Cardinality(A) THEN W[Append(w, q)] ELSE w]
           V == CHOOSE W : W = Body(W)
<1>1. ASSUME NEW W PROVE IsWalk(W, h, p) <=> W = Body(W)
  <2>1. ASSUME NEW w \in Seq(A) PROVE w = <<>> <=> Len(w) = 0
    OBVIOUS
  <2>2. ASSUME NEW w \in Seq(A)
        PROVE  /\ (IF w = <<>> THEN p ELSE h[w[Len(w)]].next) = Follows(h, p, w, Len(w))
               /\ Goes(h, p, w, Len(w)) <=> /\ (IF w = <<>> THEN p ELSE h[w[Len(w)]].next) \in A
                                            /\ Len(w) <= Cardinality(A)
    BY <2>1 DEF Follows, Goes
  <2>3. ASSUME NEW w \in Seq(A)
        PROVE  (IF Goes(h, p, w, Len(w)) THEN W[Append(w, Follows(h, p, w, Len(w)))] ELSE w) = Body(W)[w]
    BY <2>2
  <2>4. Body(W) = [w \in Seq(A) |-> IF Goes(h, p, w, Len(w)) THEN W[Append(w, Follows(h, p, w, Len(w)))]
                                                             ELSE w]
    BY <2>3
  <2> HIDE DEF Body
  <2> QED
    BY <2>4 DEF IsWalk
<1>2. ListIn(h, p) = V[<<>>]
  BY DEF ListIn
<1>3. PICK W : W = Body(W)
  BY <1>1, WalksExist
<1>4. V = Body(V)
  <2> HIDE DEF Body
  <2> QED
    BY <1>3
<1> QED
  BY <1>1, <1>2, <1>4

\* What a chain holds is what List finds.
LEMMA ListIs ==
  ASSUME NEW h, NEW L, NEW p, Chain(h, L, p), IsFiniteSet(DOMAIN h), NULL \notin DOMAIN h
  PROVE  ListIn(h, p) = L
<1> DEFINE n == Len(L)
           A == DOMAIN h
           Pre(i) == [j \in 1 .. i |-> L[j]]
<1>1. /\ L \in Seq(A) /\ n \in Nat /\ p = At(L, 1)
      /\ \A i \in 1 .. n : L[i] \in A /\ h[L[i]].next = At(L, i + 1)
  BY DEF Chain
<1>2. n <= Cardinality(A) /\ Cardinality(A) \in Nat
  BY ChainFits
<1>3. PICK W : IsWalk(W, h, p) /\ ListIn(h, p) = W[<<>>]
  BY ListInWalk
<1> DEFINE S == {m \in Nat : m <= n => W[Pre(n - m)] = L}
<1>4. \A i \in 0 .. n : Pre(i) \in Seq(A) /\ Len(Pre(i)) = i /\ \A j \in 1 .. i : Pre(i)[j] = L[j]
  <2> SUFFICES ASSUME NEW i \in 0 .. n
               PROVE  Pre(i) \in Seq(A) /\ Len(Pre(i)) = i /\ \A j \in 1 .. i : Pre(i)[j] = L[j]
    OBVIOUS
  <2>1. \A j \in 1 .. i : Pre(i)[j] = L[j] /\ L[j] \in A
    BY <1>1
  <2>2. Pre(i) = [j \in 1 .. i |-> Pre(i)[j]] /\ i \in Nat
    BY <1>1
  <2> HIDE DEF Pre
  <2> QED
    BY <2>1, <2>2, SeqIs
<1> HIDE DEF n, Pre
<1>5. \A i \in 0 .. n : Follows(h, p, Pre(i), i) = At(L, i + 1)
  <2> SUFFICES ASSUME NEW i \in 0 .. n PROVE Follows(h, p, Pre(i), i) = At(L, i + 1)
    OBVIOUS
  <2>1. CASE i = 0
    BY <1>1, <2>1 DEF Follows
  <2>2. CASE i # 0
    BY <1>1, <1>4, <2>2 DEF Follows
  <2> QED
    BY <2>1, <2>2
<1>6. 0 \in S
  <2>1. n \in 0 .. n /\ n - 0 = n /\ n + 1 \notin 1 .. n
    BY <1>1
  <2>2. At(L, n + 1) = NULL
    BY <2>1 DEF At, n
  <2>3. Pre(n) \in Seq(A) /\ Len(Pre(n)) = n /\ ~Goes(h, p, Pre(n), n)
    BY <1>4, <1>5, <2>1, <2>2 DEF Goes
  <2>4. W[Pre(n)] = Pre(n)
    BY <1>3, <2>3 DEF IsWalk
  <2>5. Pre(n) = L
    BY <1>1, <1>4, <2>1, SeqsEqual DEF n
  <2> QED
    BY <2>1, <2>4, <2>5
<1>7. ASSUME NEW m \in Nat, m \in S PROVE m + 1 \in S
  <2> SUFFICES ASSUME m + 1 <= n PROVE W[Pre(n - (m + 1))] = L
    OBVIOUS
  <2> DEFINE i == n - (m + 1)
  <2>1. i \in 0 .. n /\ i + 1 \in 1 .. n /\ i + 1 \in 0 .. n /\ n - m = i + 1 /\ m <= n
    BY <1>1
  <2>2. W[Pre(i + 1)] = L
    BY <1>7, <2>1
  <2> HIDE DEF i
  <2>3. Pre(i) \in Seq(A) /\ Len(Pre(i)) = i /\ \A j \in 1 .. i : Pre(i)[j] = L[j]
    BY <1>4, <2>1
  <2>4. Follows(h, p, Pre(i), i) = L[i + 1] /\ L[i + 1] \in A
    BY <1>1, <1>5, <2>1 DEF At, n
  <2>5. Goes(h, p, Pre(i), i)
    <3>1. i <= Cardinality(A)
      BY <1>1, <1>2, <2>1
    <3> QED
      BY <2>4, <3>1 DEF Goes
  <2>6. W[Pre(i)] = W[Append(Pre(i), L[i + 1])]
    <3>1. PICK w : w = Pre(i)
      OBVIOUS
    <3>2. w \in Seq(DOMAIN h) /\ Goes(h, p, w, Len(w)) /\ Follows(h, p, w, Len(w)) = L[i + 1]
      BY <2>3, <2>4, <2>5, <3>1
    <3>3. W[w] = W[Append(w, Follows(h, p, w, Len(w)))]
      BY <1>3, <3>2 DEF IsWalk
    <3> QED
      BY <3>1, <3>2, <3>3
  <2>7. Append(Pre(i), L[i + 1]) = Pre(i + 1)
    <3>1. Pre(i + 1) \in Seq(A) /\ Len(Pre(i + 1)) = i + 1 /\ \A j \in 1 .. (i + 1) : Pre(i + 1)[j] = L[j]
      BY <1>4, <2>1
    <3> DEFINE K == Append(Pre(i), L[i + 1])
    <3>2. K \in Seq(A) /\ Len(K) = i + 1 /\ K[i + 1] = L[i + 1] /\ \A j \in 1 .. i : K[j] = L[j]
      BY <2>1, <2>3, <2>4
    <3>3. \A j \in 1 .. (i + 1) : j \in 1 .. i \/ j = i + 1
      BY <2>1
    <3> HIDE DEF K
    <3>4. \A j \in 1 .. Len(K) : K[j] = Pre(i + 1)[j]
      BY <3>1, <3>2, <3>3
    <3>5. K = Pre(i + 1)
      BY <3>1, <3>2, <3>4, SeqsEqual
    <3> QED
      BY <3>5 DEF K
  <2> QED
    BY <2>2, <2>6, <2>7 DEF i
<1> HIDE DEF S
<1>8. Nat \subseteq S
  BY <1>6, <1>7, Induction
<1>9. W[Pre(n - n)] = L
  BY <1>1, <1>8 DEF S
<1>10. Pre(n - n) = <<>>
  <2>1. n - n = 0 /\ 0 \in 0 .. n
    BY <1>1
  <2>2. Pre(0) \in Seq(A) /\ Len(Pre(0)) = 0
    BY <1>4, <2>1
  <2> QED
    BY <2>1, <2>2
<1> QED
  BY <1>3, <1>9, <1>10

-----------------------------------------------------------------------------
(* What malloc returns.                                                    *)

\* The next address after a that is free of A, at most m.
NextFree(A, m, a) == CHOOSE c \in (a + 1) .. m : c \notin A /\ (a + 1) .. (c - 1) \subseteq A

IsFresh(at, A, m, k) ==
  at = [i \in 1 .. k |-> NextFree(A, m, IF i = 1 THEN 0 ELSE at[i - 1])]

LEMMA FreshExists ==
  ASSUME NEW A, NEW m, NEW k \in Nat PROVE \E at : IsFresh(at, A, m, k)
<1> DEFINE NextOf(at, i) == NextFree(A, m, IF i = 1 THEN 0 ELSE at[i - 1])
           S == {n \in Nat : \E at : at = [i \in 1 .. n |-> NextOf(at, i)]}
<1>1. 0 \in S
  <2> DEFINE e == [i \in 1 .. 0 |-> 0]
  <2>1. \A i \in 1 .. 0 : FALSE
    OBVIOUS
  <2>2. e = [i \in 1 .. 0 |-> NextOf(e, i)]
    BY <2>1
  <2> HIDE DEF e, Next
  <2> QED
    BY <2>2
<1>2. ASSUME NEW n \in Nat, n \in S PROVE n + 1 \in S
  <2>1. PICK at : at = [i \in 1 .. n |-> NextOf(at, i)]
    BY <1>2
  <2> DEFINE b == [i \in 1 .. (n + 1) |-> IF i = n + 1 THEN NextOf(at, i) ELSE at[i]]
  <2>2. ASSUME NEW i \in 1 .. (n + 1) PROVE b[i] = NextOf(b, i)
    <3>1. i # 1 => i - 1 \in 1 .. (n + 1) /\ i - 1 # n + 1
      OBVIOUS
    <3>2. i # 1 => b[i - 1] = at[i - 1]
      BY <3>1
    <3>3. NextOf(b, i) = NextOf(at, i)
      BY <3>2
    <3>4. i # n + 1 => i \in 1 .. n
      OBVIOUS
    <3>5. i # n + 1 => at[i] = NextOf(at, i)
      BY <2>1, <3>4
    <3>6. b[i] = IF i = n + 1 THEN NextOf(at, i) ELSE at[i]
      OBVIOUS
    <3> HIDE DEF b, Next
    <3> QED
      BY <3>3, <3>5, <3>6
  <2>3. b = [i \in 1 .. (n + 1) |-> b[i]]
    OBVIOUS
  <2> HIDE DEF b, Next
  <2>4. b = [i \in 1 .. (n + 1) |-> NextOf(b, i)]
    BY <2>2, <2>3
  <2> QED
    BY <2>4
<1> HIDE DEF S
<1>3. k \in S
  BY <1>1, <1>2, Induction
<1> QED
  BY <1>3 DEF S, IsFresh

\* There is a free address while the others that are free are fewer than k.
LEMMA NextFreeFacts ==
  ASSUME NEW A, IsFiniteSet(A), NEW k \in Nat, NEW a \in Nat, NEW i \in Nat, i < k,
         Cardinality((1 .. a) \ A) = i
  PROVE  LET c == NextFree(A, Cardinality(A) + k, a)
         IN  c \in Nat /\ c > 0 /\ c \notin A /\ Cardinality((1 .. c) \ A) = i + 1
<1> DEFINE m == Cardinality(A) + k
           T == {c \in (a + 1) .. m : c \notin A}
           c == NextFree(A, m, a)
           Low == (1 .. a) \ A
<1>1. Cardinality(A) \in Nat
  BY FS_CardinalityType
<1>2. m \in Nat
  BY <1>1
<1>3. IsFiniteSet(Low) /\ Cardinality(Low) = i
  <2>1. IsFiniteSet(1 .. a)
    BY CountTo
  <2> QED
    BY <2>1, FS_Subset
<1>4. T # {}
  <2> SUFFICES ASSUME T = {} PROVE FALSE
    OBVIOUS
  <2>1. 1 .. m \subseteq A \cup Low
    <3> SUFFICES ASSUME NEW x \in 1 .. m PROVE x \in A \cup Low
      OBVIOUS
    <3>1. x \in 1 .. a \/ x \in (a + 1) .. m
      BY <1>2
    <3> QED
      BY <3>1
  <2>2. A \cap Low = {}
    OBVIOUS
  <2> HIDE DEF Low
  <2>3. IsFiniteSet(A \cup Low) /\ Cardinality(A \cup Low) = Cardinality(A) + i - Cardinality(A \cap Low)
    BY <1>3, FS_Union
  <2>4. Cardinality(A \cap Low) = 0
    BY <2>2, FS_EmptySet
  <2>5. Cardinality(1 .. m) = m
    BY <1>2, CountTo
  <2>6. Cardinality(1 .. m) <= Cardinality(A \cup Low)
    BY <2>1, <2>3, FS_Subset
  <2> QED
    BY <1>1, <2>3, <2>4, <2>5, <2>6
<1>5. PICK d \in T : \A e \in T : d <= e
  <2>1. T \in SUBSET Nat
    BY <1>2
  <2> HIDE DEF T
  <2> QED
    BY <1>4, <2>1, LeastElement
<1> HIDE DEF m
<1>6. d \in (a + 1) .. m /\ d \notin A /\ (a + 1) .. (d - 1) \subseteq A
  <2>1. ASSUME NEW x \in (a + 1) .. (d - 1), x \notin A PROVE FALSE
    <3>1. x \in (a + 1) .. m /\ ~(d <= x)
      BY <1>2, <1>5
    <3> QED
      BY <1>5, <2>1, <3>1
  <2> QED
    BY <1>5, <2>1
<1>7. c \in (a + 1) .. m /\ c \notin A /\ (a + 1) .. (c - 1) \subseteq A
  BY <1>6 DEF NextFree
<1> HIDE DEF c
<1>8. c \in Nat /\ c > 0 /\ a < c
  BY <1>2, <1>7
<1>9. (1 .. c) \ A = Low \cup {c}
  <2>1. ASSUME NEW x \in 1 .. c, x \notin A PROVE x \in Low \cup {c}
    <3>1. x \in 1 .. a \/ x \in (a + 1) .. (c - 1) \/ x = c
      BY <1>8
    <3> QED
      BY <1>7, <2>1, <3>1
  <2>2. 1 .. a \subseteq 1 .. c /\ c \in 1 .. c
    BY <1>8
  <2> QED
    BY <1>7, <2>1, <2>2
<1>10. c \notin Low
  BY <1>8
<1> HIDE DEF Low
<1>11. Cardinality(Low \cup {c}) = i + 1
  BY <1>3, <1>10, FS_AddElement
<1> QED
  BY <1>7, <1>8, <1>9, <1>11 DEF c, m

\* malloc returns addresses that are free, each one once.
LEMMA FreshFacts ==
  ASSUME NEW A, IsFiniteSet(A), NEW k \in Nat, NEW at, IsFresh(at, A, Cardinality(A) + k, k)
  PROVE  /\ at \in Seq(Nat) /\ Len(at) = k
         /\ \A i \in 1 .. k : at[i] \in Nat /\ at[i] \notin A
         /\ \A i, j \in 1 .. k : at[i] = at[j] => i = j
<1> DEFINE m == Cardinality(A) + k
           S == {i \in Nat : i \in 1 .. k => /\ at[i] \in Nat /\ at[i] \notin A
                                             /\ Cardinality((1 .. at[i]) \ A) = i}
<1>1. \A i \in 1 .. k : at[i] = NextFree(A, m, IF i = 1 THEN 0 ELSE at[i - 1])
  BY DEF IsFresh
<1>2. 0 \in S
  OBVIOUS
<1>3. ASSUME NEW i \in Nat, i \in S PROVE i + 1 \in S
  <2> SUFFICES ASSUME i + 1 \in 1 .. k
               PROVE  /\ at[i + 1] \in Nat /\ at[i + 1] \notin A
                      /\ Cardinality((1 .. at[i + 1]) \ A) = i + 1
    OBVIOUS
  <2> DEFINE a == IF i = 0 THEN 0 ELSE at[i]
  <2>1. i < k /\ (i # 0 => i \in 1 .. k) /\ (i + 1 = 1 <=> i = 0) /\ i + 1 - 1 = i
    OBVIOUS
  <2>2. a \in Nat /\ Cardinality((1 .. a) \ A) = i
    <3>1. CASE i = 0
      <4>1. (1 .. 0) \ A = {}
        OBVIOUS
      <4> QED
        BY <3>1, <4>1, FS_EmptySet
    <3>2. CASE i # 0
      BY <1>3, <2>1, <3>2
    <3> QED
      BY <3>1, <3>2
  <2>3. at[i + 1] = NextFree(A, m, a)
    BY <1>1, <2>1
  <2> HIDE DEF a
  <2> QED
    BY <2>1, <2>2, <2>3, NextFreeFacts
<1> HIDE DEF S
<1>4. Nat \subseteq S
  BY <1>2, <1>3, Induction
<1>5. \A i \in 1 .. k : at[i] \in Nat /\ at[i] \notin A /\ Cardinality((1 .. at[i]) \ A) = i
  BY <1>4 DEF S
<1>6. at = [i \in 1 .. k |-> at[i]]
  BY DEF IsFresh
<1>7. at \in Seq(Nat) /\ Len(at) = k
  BY <1>5, <1>6, SeqIs
<1>8. \A i, j \in 1 .. k : at[i] = at[j] => i = j
  BY <1>5
<1> QED
  BY <1>5, <1>7, <1>8

FreshIn(A, k) ==
  LET at[i \in 1 .. k] ==
        LET after == IF i = 1 THEN 0 ELSE at[i - 1]
        IN  CHOOSE a \in (after + 1) .. (Cardinality(A) + k) :
              a \notin A /\ (after + 1) .. (a - 1) \subseteq A
  IN  at

LEMMA FreshInIs == ASSUME NEW A, NEW k \in Nat PROVE IsFresh(FreshIn(A, k), A, Cardinality(A) + k, k)
<1> DEFINE m == Cardinality(A) + k
           Body(at) == [i \in 1 .. k |-> NextFree(A, m, IF i = 1 THEN 0 ELSE at[i - 1])]
<1>1. FreshIn(A, k) = CHOOSE at : at = Body(at)
  BY DEF FreshIn, NextFree
<1>2. \E at : at = Body(at)
  <2>1. PICK at : IsFresh(at, A, m, k)
    BY FreshExists
  <2> QED
    BY <2>1, Zenon DEF IsFresh
<1> HIDE DEF Body
<1>3. FreshIn(A, k) = Body(FreshIn(A, k))
  BY <1>1, <1>2
<1> QED
  BY <1>3 DEF Body, IsFresh
P == INSTANCE FifteenProofs WITH open <- AbsOpen, closed <- Nodes(closed), cp <- AbsCp,
                                 succ <- AbsSucc, todo <- AbsTodo, pc <- AbsPc, Radius <- 0

LEMMA SameBoard == P!Board = Board /\ F0!Board = Board /\ F!Board = Board
BY DEF P!Board, P!Cell, P!Tile, P!Row, P!Bijection, P!Injection, P!Surjection, P!IsInjective,
       F0!Board, F0!Cell, F0!Tile, F0!Row, F0!Bijection, F0!Injection, F0!Surjection, F0!IsInjective,
       F!Board, F!Cell, F!Tile, F!Row, F!Bijection, F!Injection, F!Surjection, F!IsInjective,
       Board, Cell, Tile, Row, Bijection, Injection, Surjection, IsInjective

LEMMA SameNode == P!Node = F0!Node
BY SameBoard DEF P!Node, F0!Node, P!Dir, F0!Dir

LEMMA SameCardinality ==
  ASSUME NEW S PROVE P!Cardinality(S) = Cardinality(S) /\ F0!Cardinality(S) = Cardinality(S)
BY DEF P!Cardinality, F0!Cardinality, Cardinality

LEMMA SameCell == P!Cell = F0!Cell
BY DEF P!Cell, F0!Cell, P!Row, F0!Row

LEMMA SameGoal == P!GoalBoard = F0!GoalBoard /\ GoalBoard = F0!GoalBoard /\ F!GoalBoard = F0!GoalBoard
BY DEF P!GoalBoard, F0!GoalBoard, GoalBoard, F!GoalBoard, P!Cell, F0!Cell, P!Row, F0!Row, Cell, Row, F!Cell, F!Row

LEMMA SameTarget == ASSUME NEW c, NEW d PROVE P!Target(c, d) = F0!Target(c, d)
BY DEF P!Target, F0!Target
LEMMA SameBlank == ASSUME NEW b PROVE P!Blank(b) = F0!Blank(b)
BY SameCell DEF P!Blank, F0!Blank
LEMMA SameMoveBlank == ASSUME NEW b, NEW d PROVE P!MoveBlank(b, d) = F0!MoveBlank(b, d)
BY SameBlank, SameTarget DEF P!MoveBlank, F0!MoveBlank, P!swap, F0!swap
LEMMA SameFindH == ASSUME NEW b PROVE P!find_h(b) = F0!find_h(b)
<1>1. \A c, e : P!Distance(c, e) = F0!Distance(c, e)
  BY DEF P!Distance, F0!Distance, P!Abs, F0!Abs
<1>2. \A v : P!GoalCell(v) = F0!GoalCell(v)
  BY SameCell, SameGoal DEF P!GoalCell, F0!GoalCell
<1>3. \A x : P!Distance(x[1], P!GoalCell(b[x[1]])) = F0!Distance(x[1], F0!GoalCell(b[x[1]]))
  BY <1>1, <1>2
<1> DEFINE S == {s \in P!Cell \X (1 .. 2 * N) : s[2] <= P!Distance(s[1], P!GoalCell(b[s[1]]))}
           T == {s \in F0!Cell \X (1 .. 2 * N) : s[2] <= F0!Distance(s[1], F0!GoalCell(b[s[1]]))}
<1>4. S = T
  BY <1>3, SameCell
<1>5. P!find_h(b) = P!Cardinality(S) /\ F0!find_h(b) = F0!Cardinality(T)
  BY DEF P!find_h, F0!find_h
<1> QED
  BY <1>4, <1>5, SameCardinality
LEMMA SameCanMove == ASSUME NEW b, NEW d PROVE P!CanMove(b, d) <=> F0!CanMove(b, d)
BY SameBlank, SameTarget DEF P!CanMove, F0!CanMove, P!ExpandTest, F0!ExpandTest, P!move_valid, F0!move_valid
LEMMA SameMove == ASSUME NEW n, NEW d PROVE P!move(n, d) = F0!move(n, d)
BY SameMoveBlank, SameFindH DEF P!move, F0!move
LEMMA SameMoved == ASSUME NEW n, NEW d PROVE P!Moved(n, d) = F0!Moved(n, d)
BY SameMove, SameCanMove DEF P!Moved, F0!Moved
LEMMA SameExpand == ASSUME NEW n PROVE P!expand(n) = F0!expand(n)
BY SameMoved DEF P!expand, F0!expand
LEMMA SameFilter == ASSUME NEW s, NEW hl PROVE P!filter(s, hl) = F0!filter(s, hl)
BY DEF P!filter, F0!filter, P!Kept, F0!Kept, P!Boards, F0!Boards
LEMMA SameKey == ASSUME NEW n PROVE P!Key(n) = F0!Key(n)
BY DEF P!Key, F0!Key
LEMMA SameStart == ASSUME NEW b PROVE P!StartNode(b) = F0!StartNode(b)
BY DEF P!StartNode, F0!StartNode
LEMMA SameSolvable == ASSUME NEW b PROVE P!solvable(b) <=> solvable(b)
<1>1. P!Cell = Cell
  BY DEF P!Cell, Cell, P!Row, Row
<1>2. \A c, e : P!Before(c, e) <=> Before(c, e)
  BY DEF P!Before, Before
<1> DEFINE S == {p \in P!Cell \X P!Cell : P!Before(p[1], p[2]) /\ b[p[1]] > b[p[2]] /\ b[p[2]] # 0}
           T == {p \in Cell \X Cell : Before(p[1], p[2]) /\ b[p[1]] > b[p[2]] /\ b[p[2]] # 0}
<1>5. S = T
  BY <1>1, <1>2
<1>6. P!Inversions(b) = P!Cardinality(S) /\ Inversions(b) = Cardinality(T)
  BY DEF P!Inversions, Inversions
<1>3. P!Inversions(b) = Inversions(b)
  BY <1>5, <1>6, SameCardinality
<1>4. P!Blank(b) = Blank(b)
  BY <1>1 DEF P!Blank, Blank
<1> QED
  BY <1>3, <1>4 DEF P!solvable, solvable
LEMMA SameUndo == ASSUME NEW b, NEW d PROVE P!Undo(b, d) = Undo(b, d)
BY DEF P!Undo, Undo, P!swap, swap, P!Blank, Blank, P!Cell, Cell, P!Row, Row, P!Origin, Origin, P!Target, Target, P!toggle_dir, toggle_dir
-----------------------------------------------------------------------------
(* The inductive invariant.                                                *)

\* The node that is in none of the lists: the start node before it is in open,
\* the one expanded until it is in closed.
Unlisted == pc = "solvable" \/ outcome = "rejected"
InHand   == Filtering \/ pc \in {"merge", "smart", "close"}
Hand     == IF Unlisted THEN {1} ELSE IF InHand THEN {cp} ELSE {}

\* The list that is being filtered or merged.
WorkAt == IF Filtering \/ pc = "merge" THEN succ ELSE IF pc = "smart" THEN loc.succ ELSE NULL

HeapOK == /\ IsFiniteSet(Addr) /\ Addr \subseteq Nat
          /\ \A a \in Addr : heap[a] = [node |-> heap[a].node, next |-> heap[a].next]

\* Three lists and the node in hand share the heap.
Shared(O, C, W, X, A) ==
  /\ Elems(O) \cap Elems(C) = {} /\ Elems(O) \cap Elems(W) = {} /\ Elems(C) \cap Elems(W) = {}
  /\ X \cap (Elems(O) \cup Elems(C) \cup Elems(W)) = {}
  /\ Elems(O) \cup Elems(C) \cup Elems(W) \cup X = A

ListsOK == /\ Chain(heap, List(open), open)
           /\ Chain(heap, List(closed), closed)
           /\ Chain(heap, List(WorkAt), WorkAt)
           /\ Shared(List(open), List(closed), List(WorkAt), Hand, Addr)
           /\ \A a \in Hand : heap[a].next = NULL

\* The trailing pointer of a walk that stands before the k-th node of L.
Behind(L, k) == IF k = 1 THEN At(L, 1) ELSE L[k - 1]

\* filter stands before the k-th node of W; it has kept those before.
FilterAt(W, k) == /\ loc.sp = At(W, k)
                  /\ loc.lsp = Behind(W, k)
                  /\ \A i \in 1 .. (k - 1) : ~Listed(heap[W[i]].node.board, hp)

FilterOK ==
  Filtering =>
    LET W == List(succ)
    IN  /\ Len(W) <= 4
        /\ loc = [lsp |-> loc.lsp, rsp |-> loc.sp, sp |-> loc.sp]
        /\ \A i \in 1 .. Len(W) : heap[W[i]].node \in P!Node
        /\ \E k \in 1 .. (Len(W) + 1) : FilterAt(W, k)
        /\ pc = "filterClosed" => \A i \in 1 .. Len(W) : ~Listed(heap[W[i]].node.board, open)

\* What is left of the list that filter returned.
MadeOK ==
  /\ made = [i \in 1 .. Len(made) |-> made[i]] /\ Len(made) \in Nat
  /\ pc \in {"merge", "smart", "close"} =>
       /\ \A i \in 1 .. Len(made) : /\ made[i].addr \in Elems(List(open)) \cup Elems(List(WorkAt))
                                    /\ heap[made[i].addr].node = made[i].node
       /\ \A i, j \in 1 .. Len(made) : made[i].addr = made[j].addr => i = j
       /\ succ = IF Len(made) = 0 THEN NULL ELSE made[1].addr
  /\ pc \in {"merge", "smart"} => Len(made) >= 1
  /\ pc = "merge" => List(succ) = [i \in 1 .. Len(made) |-> made[i].addr]

KeyAt(W, i) == P!Key(heap[W[i]].node)

\* The search of merge_smart stands before the k-th node of W, of those before
\* it the j-th is the last of the greatest.
SmartAt(W, k) ==
  /\ loc.csucc = At(W, k)
  /\ loc.prev = Behind(W, k)
  /\ k = 1 => loc.insert = NULL /\ loc.max_f = -1
  /\ k > 1 => \E j \in 1 .. (k - 1) :
       /\ loc.insert = W[j] /\ loc.insert_prev = Behind(W, j)
       /\ loc.max_f = KeyAt(W, j)
       /\ \A i \in 1 .. (k - 1) : KeyAt(W, i) < KeyAt(W, j) \/ (KeyAt(W, i) = KeyAt(W, j) /\ i <= j)

SmartOK ==
  pc = "smart" =>
    LET W == List(loc.succ)
    IN  /\ strategy \notin {"dfs", "bfs"}
        /\ loc = [succ |-> loc.succ, csucc |-> loc.csucc, prev |-> loc.prev, insert |-> loc.insert,
                  insert_prev |-> loc.insert_prev, max_f |-> loc.max_f]
        /\ \A i \in 1 .. Len(W) : \E m \in 1 .. Len(made) : W[i] = made[m].addr
        /\ \A i, j \in 1 .. Len(W) : \A m, n \in 1 .. Len(made) :
             W[i] = made[m].addr /\ W[j] = made[n].addr /\ i < j => m < n
        /\ \E k \in 1 .. (Len(W) + 1) : SmartAt(W, k)

\* The start node stays where it was allocated.
StartOK == /\ 1 \in Addr /\ heap[1].node.board = start
           /\ 1 \notin Elems(List(WorkAt))
           /\ pc \in {"solvable", "goal"} => heap[1].node = P!StartNode(start)
           /\ pc = "goal" => open = 1

\* The other pointers of main.
PointersOK ==
  /\ cp = NULL \/ cp \in Addr
  /\ succ = NULL \/ succ \in Addr
  /\ pc \in {"solvable", "goal"} => cp = NULL /\ succ = NULL /\ closed = NULL /\ made = <<>>
  /\ Unlisted => open = NULL /\ closed = NULL
  /\ pc = "path" => /\ cp \in Addr /\ outcome \in {"found", "exhausted"}
                    /\ outcome = "found" => cp \in Elems(List(open))
                    /\ outcome = "exhausted" => LET C == List(closed) IN Len(C) >= 1 /\ cp = C[Len(C)]
  /\ pc \in {"solvable", "goal", "loop", "filterOpen", "filterClosed", "merge", "smart", "close",
             "path", "done"}

HInv == HeapOK /\ ListsOK /\ FilterOK /\ MadeOK /\ SmartOK /\ StartOK /\ PointersOK

-----------------------------------------------------------------------------
(* Lists of the program.                                                   *)

NodesIn(h, L) == [i \in DOMAIN L |-> h[L[i]].node]

LEMMA ListsHere ==
  /\ List(open) = ListIn(heap, open) /\ List(closed) = ListIn(heap, closed)
  /\ List(WorkAt) = ListIn(heap, WorkAt) /\ List(succ) = ListIn(heap, succ)
  /\ List(loc.succ) = ListIn(heap, loc.succ)
BY DEF List, ListIn, Addr

LEMMA ListsNext ==
  /\ List(open)' = ListIn(heap', open') /\ List(closed)' = ListIn(heap', closed')
  /\ List(WorkAt)' = ListIn(heap', WorkAt') /\ List(succ)' = ListIn(heap', succ')
  /\ List(loc.succ)' = ListIn(heap', loc'.succ)
BY DEF List, ListIn, Addr

LEMMA ListsAfter ==
  ASSUME HeapOK', NEW O, NEW C, NEW W,
         Chain(heap', O, open'), Chain(heap', C, closed'), Chain(heap', W, WorkAt')
  PROVE  List(open)' = O /\ List(closed)' = C /\ List(WorkAt)' = W
<1>1. IsFiniteSet(DOMAIN heap') /\ NULL \notin DOMAIN heap'
  BY NullAssumption DEF HeapOK, Addr
<1> QED
  BY <1>1, ListIs, ListsNext

LEMMA NodesHere ==
  /\ Nodes(open) = NodesIn(heap, List(open)) /\ Nodes(closed) = NodesIn(heap, List(closed))
  /\ Nodes(succ) = NodesIn(heap, List(succ))
BY DEF Nodes, NodesIn

LEMMA NodesNext ==
  /\ Nodes(open)' = NodesIn(heap', List(open)') /\ Nodes(closed)' = NodesIn(heap', List(closed)')
  /\ Nodes(succ)' = NodesIn(heap', List(succ)')
BY DEF Nodes, NodesIn

LEMMA Assumptions ==
  /\ P!StartsAssumption /\ P!StrategiesAssumption /\ P!MaxPathAssumption /\ P!MaxClosedAssumption
  /\ P!NullAssumption /\ P!RadiusAssumption /\ P!NAssumption
<1>1. P!StartsAssumption
  BY StartsAssumption, SameBoard DEF P!StartsAssumption
<1>2. P!StrategiesAssumption
  BY StrategiesAssumption DEF P!StrategiesAssumption, F0!Strategy, P!Strategy
<1>3. P!MaxPathAssumption /\ P!MaxClosedAssumption
  BY MaxPathAssumption, MaxClosedAssumption DEF P!MaxPathAssumption, P!MaxClosedAssumption
<1>4. P!NullAssumption
  BY NullAssumption, SameNode DEF P!NullAssumption
<1>5. P!RadiusAssumption /\ P!NAssumption
  BY NAssumption DEF P!RadiusAssumption, P!NAssumption
<1> QED
  BY <1>1, <1>2, <1>3, <1>4, <1>5

\* The nodes of a list.
LEMMA NodesInFacts ==
  ASSUME NEW S, NEW L \in Seq(S), NEW h
  PROVE  /\ NodesIn(h, L) = [i \in 1 .. Len(L) |-> h[L[i]].node]
         /\ Len(NodesIn(h, L)) = Len(L) /\ Len(L) \in Nat
         /\ DOMAIN NodesIn(h, L) = 1 .. Len(L)
         /\ \A i \in 1 .. Len(L) : NodesIn(h, L)[i] = h[L[i]].node
         /\ NodesIn(h, L) \in Seq({h[L[i]].node : i \in 1 .. Len(L)})
<1> DEFINE M == NodesIn(h, L)
           T == {h[L[i]].node : i \in 1 .. Len(L)}
<1>1. Len(L) \in Nat /\ DOMAIN L = 1 .. Len(L)
  OBVIOUS
<1>2. M = [i \in 1 .. Len(L) |-> h[L[i]].node]
  BY <1>1 DEF NodesIn
<1>3. \A i \in 1 .. Len(L) : M[i] = h[L[i]].node /\ M[i] \in T
  BY <1>2
<1>4. M = [i \in 1 .. Len(L) |-> M[i]]
  BY <1>2
<1> HIDE DEF M, T
<1>5. M \in Seq(T) /\ Len(M) = Len(L) /\ DOMAIN M = 1 .. Len(L)
  BY <1>1, <1>3, <1>4, SeqIs
<1> QED
  BY <1>1, <1>2, <1>3, <1>5 DEF M, T

LEMMA NodesInType ==
  ASSUME NEW S, NEW L \in Seq(S), NEW h, NEW T, \A i \in 1 .. Len(L) : h[L[i]].node \in T
  PROVE  NodesIn(h, L) \in Seq(T)
<1>1. /\ Len(L) \in Nat /\ NodesIn(h, L) = [i \in 1 .. Len(L) |-> h[L[i]].node]
      /\ \A i \in 1 .. Len(L) : NodesIn(h, L)[i] = h[L[i]].node
  BY NodesInFacts
<1>2. NodesIn(h, L) = [i \in 1 .. Len(L) |-> NodesIn(h, L)[i]]
  BY <1>1
<1>3. \A i \in 1 .. Len(L) : NodesIn(h, L)[i] \in T
  BY <1>1
<1> QED
  BY <1>1, <1>2, <1>3, SeqIs

LEMMA NodesInSame ==
  ASSUME NEW S, NEW L \in Seq(S), NEW h, NEW h2, \A a \in Elems(L) : h2[a].node = h[a].node
  PROVE  NodesIn(h2, L) = NodesIn(h, L)
<1>1. /\ NodesIn(h, L) = [i \in 1 .. Len(L) |-> h[L[i]].node]
      /\ NodesIn(h2, L) = [i \in 1 .. Len(L) |-> h2[L[i]].node]
  BY NodesInFacts
<1>2. \A i \in 1 .. Len(L) : h2[L[i]].node = h[L[i]].node
  BY DEF Elems
<1> QED
  BY <1>1, <1>2

LEMMA NodesInConcat ==
  ASSUME NEW S, NEW L \in Seq(S), NEW M \in Seq(S), NEW h
  PROVE  NodesIn(h, L \o M) = NodesIn(h, L) \o NodesIn(h, M)
<1> DEFINE K == L \o M
           T == {h[a].node : a \in S}
           A == NodesIn(h, L)
           B == NodesIn(h, M)
           C == NodesIn(h, K)
           D == A \o B
<1>1. /\ K \in Seq(S) /\ Len(K) = Len(L) + Len(M) /\ Len(L) \in Nat /\ Len(M) \in Nat
      /\ \A i \in 1 .. (Len(L) + Len(M)) : \/ i \in 1 .. Len(L) /\ K[i] = L[i]
                                           \/ i - Len(L) \in 1 .. Len(M) /\ K[i] = M[i - Len(L)]
  BY ConcatFacts
<1> HIDE DEF K
<1>2. /\ \A i \in 1 .. Len(L) : h[L[i]].node \in T
      /\ \A i \in 1 .. Len(M) : h[M[i]].node \in T
      /\ \A i \in 1 .. Len(K) : h[K[i]].node \in T
  BY <1>1
<1> HIDE DEF T
<1>3. A \in Seq(T) /\ B \in Seq(T) /\ C \in Seq(T)
  BY <1>1, <1>2, NodesInType
<1>4. /\ Len(A) = Len(L) /\ \A i \in 1 .. Len(L) : A[i] = h[L[i]].node
      /\ Len(B) = Len(M) /\ \A i \in 1 .. Len(M) : B[i] = h[M[i]].node
      /\ Len(C) = Len(K) /\ \A i \in 1 .. Len(K) : C[i] = h[K[i]].node
  <2>1. Len(A) = Len(L) /\ \A i \in 1 .. Len(L) : A[i] = h[L[i]].node
    BY NodesInFacts
  <2>2. Len(B) = Len(M) /\ \A i \in 1 .. Len(M) : B[i] = h[M[i]].node
    BY NodesInFacts
  <2>3. Len(C) = Len(K) /\ \A i \in 1 .. Len(K) : C[i] = h[K[i]].node
    <3>1. K \in Seq(S)
      BY <1>1
    <3> QED
      BY <3>1, NodesInFacts
  <2> QED
    BY <2>1, <2>2, <2>3
<1> HIDE DEF A, B, C
<1>5. /\ D \in Seq(T) /\ Len(D) = Len(A) + Len(B)
      /\ \A i \in 1 .. Len(A) : D[i] = A[i]
      /\ \A i \in 1 .. Len(B) : D[i + Len(A)] = B[i]
  BY <1>3, ConcatFacts
<1> HIDE DEF D
<1>6. ASSUME NEW i \in 1 .. Len(C) PROVE C[i] = D[i]
  <2>1. CASE i \in 1 .. Len(L) /\ K[i] = L[i]
    BY <1>1, <1>4, <1>5, <2>1
  <2>2. CASE i - Len(L) \in 1 .. Len(M) /\ K[i] = M[i - Len(L)]
    <3>1. i - Len(L) + Len(L) = i
      BY <1>1
    <3>2. D[i - Len(L) + Len(L)] = B[i - Len(L)]
      BY <1>4, <1>5, <2>2
    <3> QED
      BY <1>1, <1>4, <2>2, <3>1, <3>2
  <2> QED
    BY <1>1, <1>4, <2>1, <2>2
<1>7. C = D
  BY <1>1, <1>3, <1>4, <1>5, <1>6, SeqsEqual
<1> QED
  BY <1>7 DEF A, B, C, D, K

LEMMA NodesInOne == ASSUME NEW h, NEW a PROVE NodesIn(h, <<a>>) = <<h[a].node>>
BY DEF NodesIn

LEMMA NodesInWithout ==
  ASSUME NEW S, NEW L \in Seq(S), NEW h, NEW k \in 1 .. Len(L)
  PROVE  NodesIn(h, Without(L, k)) = Without(NodesIn(h, L), k)
<1>1. /\ Without(L, k) \in Seq(S) /\ Len(Without(L, k)) = Len(L) - 1
      /\ \A i \in 1 .. (Len(L) - 1) : Without(L, k)[i] = IF i < k THEN L[i] ELSE L[i + 1]
  BY WithoutFacts
<1>2. NodesIn(h, Without(L, k)) = [i \in 1 .. (Len(L) - 1) |-> h[Without(L, k)[i]].node]
  <2> DEFINE M == Without(L, k)
  <2>1. M \in Seq(S) /\ Len(M) = Len(L) - 1
    BY <1>1
  <2> HIDE DEF M
  <2>2. NodesIn(h, M) = [i \in 1 .. Len(M) |-> h[M[i]].node]
    BY <2>1, NodesInFacts
  <2> QED
    BY <2>1, <2>2 DEF M
<1>3. Len(NodesIn(h, L)) = Len(L) /\ \A i \in 1 .. Len(L) : NodesIn(h, L)[i] = h[L[i]].node
  BY NodesInFacts
<1>4. Without(NodesIn(h, L), k)
        = [i \in 1 .. (Len(L) - 1) |-> IF i < k THEN NodesIn(h, L)[i] ELSE NodesIn(h, L)[i + 1]]
  BY <1>3 DEF Without
<1>5. \A i \in 1 .. (Len(L) - 1) : i \in 1 .. Len(L) /\ i + 1 \in 1 .. Len(L)
  OBVIOUS
<1>6. \A i \in 1 .. (Len(L) - 1) :
        h[Without(L, k)[i]].node = IF i < k THEN NodesIn(h, L)[i] ELSE NodesIn(h, L)[i + 1]
  BY <1>1, <1>3, <1>5
<1> QED
  BY <1>2, <1>4, <1>6

LEMMA HeadTail ==
  ASSUME NEW S, NEW L \in Seq(S), Len(L) >= 1
  PROVE  Head(L) = L[1] /\ Tail(L) = Without(L, 1) /\ L = <<L[1]>> \o Without(L, 1)
<1>1. Head(L) = L[1] /\ Tail(L) \in Seq(S) /\ Len(Tail(L)) = Len(L) - 1
      /\ \A i \in 1 .. (Len(L) - 1) : Tail(L)[i] = L[i + 1]
  OBVIOUS
<1>2. 1 \in 1 .. Len(L)
  OBVIOUS
<1>3. /\ Without(L, 1) \in Seq(S) /\ Len(Without(L, 1)) = Len(L) - 1
      /\ \A i \in 1 .. (Len(L) - 1) : Without(L, 1)[i] = IF i < 1 THEN L[i] ELSE L[i + 1]
  BY <1>2, WithoutFacts
<1>4. \A i \in 1 .. (Len(L) - 1) : ~(i < 1)
  OBVIOUS
<1>5. Tail(L) = Without(L, 1)
  BY <1>1, <1>3, <1>4, SeqsEqual
<1>6. L = <<L[1]>> \o Tail(L)
  OBVIOUS
<1> QED
  BY <1>1, <1>5, <1>6

LEMMA ListedIs == ASSUME NEW b, NEW p PROVE Listed(b, p) <=> b \in P!Boards(Nodes(p))
BY DEF Listed, On, Nodes, P!Boards

-----------------------------------------------------------------------------
(* filter of Fifteen, one node at a time.                                  *)

LEMMA EmptyConcat == ASSUME NEW S, NEW a \in Seq(S) PROVE <<>> \o a = a /\ a \o <<>> = a
OBVIOUS

LEMMA ConcatType == ASSUME NEW S, NEW a \in Seq(S), NEW b \in Seq(S) PROVE a \o b \in Seq(S)
OBVIOUS

\* A node that is not kept may be taken out first.
LEMMA FilterWithout ==
  ASSUME NEW s \in Seq(P!Node), Len(s) <= 4, NEW k \in 1 .. Len(s), NEW b, s[k].board \in P!Boards(b)
  PROVE  P!filter(Without(s, k), b) = P!filter(s, b)
<1> DEFINE t == Without(s, k)
           K(i) == P!Kept(s, i, b)
           M(i) == P!Kept(t, i, b)
<1>1. /\ t \in Seq(P!Node) /\ Len(t) = Len(s) - 1 /\ Len(s) \in Nat
      /\ DOMAIN t = 1 .. (Len(s) - 1) /\ DOMAIN s = 1 .. Len(s)
      /\ \A i \in 1 .. (Len(s) - 1) : t[i] = IF i < k THEN s[i] ELSE s[i + 1]
  <2>1. Len(s) \in Nat /\ DOMAIN s = 1 .. Len(s)
    OBVIOUS
  <2>2. /\ t \in Seq(P!Node) /\ Len(t) = Len(s) - 1 /\ DOMAIN t = 1 .. (Len(s) - 1)
        /\ \A i \in 1 .. (Len(s) - 1) : t[i] = IF i < k THEN s[i] ELSE s[i + 1]
    BY WithoutFacts
  <2> QED
    BY <2>1, <2>2
<1> HIDE DEF t
<1>2. \A i \in 1 .. 4 : i < k => M(i) = K(i)
  <2> SUFFICES ASSUME NEW i \in 1 .. 4, i < k PROVE M(i) = K(i)
    OBVIOUS
  <2>1. i \in DOMAIN s /\ i \in DOMAIN t /\ t[i] = s[i]
    BY <1>1
  <2> QED
    BY <2>1 DEF P!Kept
<1>3. \A i \in 1 .. 4 : k <= i => M(i) = K(i + 1)
  <2> SUFFICES ASSUME NEW i \in 1 .. 4, k <= i PROVE M(i) = K(i + 1)
    OBVIOUS
  <2>1. i + 1 \in DOMAIN s <=> i \in DOMAIN t
    BY <1>1
  <2>2. i \in DOMAIN t => t[i] = s[i + 1]
    BY <1>1
  <2> QED
    BY <2>1, <2>2 DEF P!Kept
<1>4. K(k) = <<>> /\ K(5) = <<>>
  <2>1. 5 \notin DOMAIN s
    BY <1>1
  <2> QED
    BY <2>1 DEF P!Kept
<1>5. \A i \in 1 .. 5 : K(i) \in Seq(P!Node)
  <2> SUFFICES ASSUME NEW i \in 1 .. 5 PROVE K(i) \in Seq(P!Node)
    OBVIOUS
  <2>1. i \in DOMAIN s => s[i] \in P!Node
    OBVIOUS
  <2> QED
    BY <2>1 DEF P!Kept
<1>6. /\ P!filter(s, b) = K(1) \o K(2) \o K(3) \o K(4)
      /\ P!filter(t, b) = M(1) \o M(2) \o M(3) \o M(4)
  BY DEF P!filter
<1> HIDE DEF K, M
<1>7. k \in 1 .. 4
  BY <1>1
<1>12. /\ K(1) \in Seq(P!Node) /\ K(2) \in Seq(P!Node) /\ K(3) \in Seq(P!Node) /\ K(4) \in Seq(P!Node)
  BY <1>5
<1>13. /\ K(2) \o K(3) \o K(4) \in Seq(P!Node) /\ K(1) \o K(3) \o K(4) \in Seq(P!Node)
       /\ K(1) \o K(2) \o K(4) \in Seq(P!Node) /\ K(1) \o K(2) \in Seq(P!Node)
  BY <1>12, ConcatType
<1>8. CASE k = 1
  <2>1. M(1) = K(2) /\ M(2) = K(3) /\ M(3) = K(4) /\ M(4) = K(5)
    BY <1>3, <1>8
  <2>2. K(1) = <<>> /\ K(5) = <<>> /\ P!filter(t, b) = K(2) \o K(3) \o K(4) \o <<>>
    BY <1>4, <1>6, <1>8, <2>1
  <2>3. /\ K(2) \o K(3) \o K(4) \o <<>> = K(2) \o K(3) \o K(4)
        /\ <<>> \o K(2) = K(2)
    BY <1>12, <1>13, EmptyConcat
  <2> QED
    BY <1>6, <2>2, <2>3 DEF t
<1>9. CASE k = 2
  <2>1. M(1) = K(1) /\ M(2) = K(3) /\ M(3) = K(4) /\ M(4) = K(5)
    BY <1>2, <1>3, <1>9
  <2>2. K(2) = <<>> /\ K(5) = <<>> /\ P!filter(t, b) = K(1) \o K(3) \o K(4) \o <<>>
    BY <1>4, <1>6, <1>9, <2>1
  <2>3. /\ K(1) \o K(3) \o K(4) \o <<>> = K(1) \o K(3) \o K(4)
        /\ K(1) \o <<>> = K(1)
    BY <1>12, <1>13, EmptyConcat
  <2> QED
    BY <1>6, <2>2, <2>3 DEF t
<1>10. CASE k = 3
  <2>1. M(1) = K(1) /\ M(2) = K(2) /\ M(3) = K(4) /\ M(4) = <<>> /\ K(3) = <<>>
    BY <1>2, <1>3, <1>4, <1>10
  <2>2. K(1) \o K(2) \o <<>> = K(1) \o K(2)
    BY <1>13, EmptyConcat
  <2>3. K(1) \o K(2) \o K(4) \o <<>> = K(1) \o K(2) \o K(4)
    BY <1>13, EmptyConcat
  <2> QED
    BY <1>6, <2>1, <2>2, <2>3 DEF t
<1>11. CASE k = 4
  <2>1. M(1) = K(1) /\ M(2) = K(2) /\ M(3) = K(3) /\ M(4) = K(5)
    BY <1>2, <1>3, <1>11
  <2> QED
    BY <1>4, <1>5, <1>6, <1>11, <2>1 DEF t
<1> QED
  BY <1>7, <1>8, <1>9, <1>10, <1>11

\* A list of which every node is kept.
LEMMA FilterAll ==
  ASSUME NEW s \in Seq(P!Node), Len(s) <= 4, NEW b, \A i \in 1 .. Len(s) : s[i].board \notin P!Boards(b)
  PROVE  P!filter(s, b) = s
<1> DEFINE K(i) == P!Kept(s, i, b)
<1>1. Len(s) \in Nat /\ DOMAIN s = 1 .. Len(s)
  OBVIOUS
<1>2. \A i \in 1 .. 4 : K(i) = IF i <= Len(s) THEN <<s[i]>> ELSE <<>>
  <2> SUFFICES ASSUME NEW i \in 1 .. 4 PROVE K(i) = IF i <= Len(s) THEN <<s[i]>> ELSE <<>>
    OBVIOUS
  <2>1. i \in DOMAIN s <=> i <= Len(s)
    BY <1>1
  <2>2. i \in DOMAIN s => s[i].board \notin P!Boards(b)
    BY <1>1
  <2> QED
    BY <2>1, <2>2 DEF P!Kept
<1>3. P!filter(s, b) = K(1) \o K(2) \o K(3) \o K(4)
  BY DEF P!filter
<1> HIDE DEF K
<1>10. \A i \in 1 .. Len(s) : s[i] \in P!Node
  OBVIOUS
<1>11. ASSUME NEW n \in P!Node PROVE <<n>> \in Seq(P!Node)
  OBVIOUS
<1>4. CASE Len(s) = 0
  <2>1. P!filter(s, b) = <<>> \o <<>> \o <<>> \o <<>>
    <3>1. K(1) = <<>> /\ K(2) = <<>> /\ K(3) = <<>> /\ K(4) = <<>>
      BY <1>2, <1>4
    <3> QED
      BY <1>3, <3>1
  <2> QED
    BY <1>4, <2>1
<1>5. CASE Len(s) = 1
  <2>1. P!filter(s, b) = <<s[1]>> \o <<>> \o <<>> \o <<>>
    <3>1. K(1) = <<s[1]>> /\ K(2) = <<>> /\ K(3) = <<>> /\ K(4) = <<>>
      BY <1>2, <1>5
    <3> QED
      BY <1>3, <3>1
  <2>2. <<s[1]>> \in Seq(P!Node)
    BY <1>10, <1>11, <1>5
  <2>3. s = <<s[1]>>
    BY <1>5
  <2> QED
    BY <2>1, <2>2, <2>3, EmptyConcat, ConcatType
<1>6. CASE Len(s) = 2
  <2>1. P!filter(s, b) = <<s[1]>> \o <<s[2]>> \o <<>> \o <<>>
    <3>1. K(1) = <<s[1]>> /\ K(2) = <<s[2]>> /\ K(3) = <<>> /\ K(4) = <<>>
      BY <1>2, <1>6
    <3> QED
      BY <1>3, <3>1
  <2>2. <<s[1]>> \in Seq(P!Node) /\ <<s[2]>> \in Seq(P!Node)
    BY <1>10, <1>11, <1>6
  <2>3. s = <<s[1]>> \o <<s[2]>>
    BY <1>6
  <2> QED
    BY <2>1, <2>2, <2>3, EmptyConcat, ConcatType
<1>7. CASE Len(s) = 3
  <2>1. P!filter(s, b) = <<s[1]>> \o <<s[2]>> \o <<s[3]>> \o <<>>
    <3>1. K(1) = <<s[1]>> /\ K(2) = <<s[2]>> /\ K(3) = <<s[3]>> /\ K(4) = <<>>
      BY <1>2, <1>7
    <3> QED
      BY <1>3, <3>1
  <2>2. <<s[1]>> \in Seq(P!Node) /\ <<s[2]>> \in Seq(P!Node) /\ <<s[3]>> \in Seq(P!Node)
    BY <1>10, <1>11, <1>7
  <2>3. s = <<s[1]>> \o <<s[2]>> \o <<s[3]>>
    BY <1>7
  <2> QED
    BY <2>1, <2>2, <2>3, EmptyConcat, ConcatType
<1>8. CASE Len(s) = 4
  <2>1. P!filter(s, b) = <<s[1]>> \o <<s[2]>> \o <<s[3]>> \o <<s[4]>>
    <3>1. K(1) = <<s[1]>> /\ K(2) = <<s[2]>> /\ K(3) = <<s[3]>> /\ K(4) = <<s[4]>>
      BY <1>2, <1>8
    <3> QED
      BY <1>3, <3>1
  <2>2. <<s[1]>> \in Seq(P!Node) /\ <<s[2]>> \in Seq(P!Node) /\ <<s[3]>> \in Seq(P!Node) /\ <<s[4]>> \in Seq(P!Node)
    BY <1>10, <1>11, <1>8
  <2>3. s = <<s[1]>> \o <<s[2]>> \o <<s[3]>> \o <<s[4]>>
    BY <1>8
  <2> QED
    BY <2>1, <2>2, <2>3, EmptyConcat, ConcatType
<1>9. Len(s) \in {0, 1, 2, 3, 4}
  BY <1>1
<1> QED
  BY <1>4, <1>5, <1>6, <1>7, <1>8, <1>9

-----------------------------------------------------------------------------
(* The initial states.                                                     *)

LEMMA ListsNow ==
  ASSUME HeapOK, NEW O, NEW C, NEW W,
         Chain(heap, O, open), Chain(heap, C, closed), Chain(heap, W, WorkAt)
  PROVE  List(open) = O /\ List(closed) = C /\ List(WorkAt) = W
<1>1. IsFiniteSet(DOMAIN heap) /\ NULL \notin DOMAIN heap
  BY NullAssumption DEF HeapOK, Addr
<1> QED
  BY <1>1, ListIs, ListsHere

LEMMA NodesInEmpty == ASSUME NEW h PROVE NodesIn(h, <<>>) = <<>>
BY DEF NodesIn

LEMMA InitHInv == Init => HInv
<1> SUFFICES ASSUME Init PROVE HInv
  OBVIOUS
<1> USE DEF Init
<1>1. Addr = {1} /\ heap[1] = [node |-> F0!StartNode(start), next |-> NULL]
  BY DEF Addr
<1>2. HeapOK
  <2>1. IsFiniteSet({1})
    BY FS_Singleton
  <2>3. {1} \subseteq Nat
    OBVIOUS
  <2>2. heap[1] = [node |-> heap[1].node, next |-> heap[1].next]
    BY <1>1
  <2> QED
    BY <1>1, <2>1, <2>2, <2>3 DEF HeapOK
<1>3. WorkAt = NULL /\ Hand = {1} /\ Unlisted
  BY DEF WorkAt, Filtering, Hand, Unlisted
<1>4. Chain(heap, <<>>, open) /\ Chain(heap, <<>>, closed) /\ Chain(heap, <<>>, WorkAt)
  BY <1>3, ChainEmpty
<1>5. List(open) = <<>> /\ List(closed) = <<>> /\ List(WorkAt) = <<>>
  BY <1>2, <1>4, ListsNow
<1>6. ListsOK
  BY <1>1, <1>3, <1>4, <1>5, ElemsEmpty DEF ListsOK, Shared
<1>7. FilterOK /\ SmartOK
  BY DEF FilterOK, SmartOK, Filtering
<1>8. MadeOK
  BY DEF MadeOK
<1>9. StartOK
  <2>1. heap[1].node = P!StartNode(start) /\ heap[1].node.board = start
    BY <1>1, SameStart DEF P!StartNode
  <2> QED
    BY <1>1, <1>5, <2>1, ElemsEmpty DEF StartOK
<1>10. PointersOK
  BY <1>3 DEF PointersOK
<1> QED
  BY <1>2, <1>6, <1>7, <1>8, <1>9, <1>10 DEF HInv

LEMMA InitRefines == Init => P!Init
<1> SUFFICES ASSUME Init PROVE P!Init
  OBVIOUS
<1>1. HInv
  BY InitHInv
<1> USE DEF Init
<1>2. WorkAt = NULL
  BY DEF WorkAt, Filtering
<1>3. List(open) = <<>> /\ List(closed) = <<>>
  <2>1. Chain(heap, <<>>, open) /\ Chain(heap, <<>>, closed) /\ Chain(heap, <<>>, WorkAt)
    BY <1>2, ChainEmpty
  <2> QED
    BY <1>1, <2>1, ListsNow DEF HInv
<1>4. Nodes(open) = <<>> /\ Nodes(closed) = <<>>
  BY <1>3, NodesHere, NodesInEmpty
<1>5. AbsOpen = <<>> /\ AbsCp = NULL
  BY <1>4 DEF AbsOpen, AbsCp
<1>6. AbsSucc = <<>> /\ AbsTodo = {} /\ AbsPc = "solvable"
  <2>1. ~Filtering
    BY DEF Filtering
  <2> QED
    BY <2>1 DEF AbsSucc, AbsTodo, AbsPc
<1> HIDE DEF Init
<1> QED
  BY <1>4, <1>5, <1>6 DEF P!Init, Init

-----------------------------------------------------------------------------
(* What the two invariants say together.                                   *)

LEMMA HeapFacts ==
  ASSUME HInv
  PROVE  /\ Addr = DOMAIN heap /\ IsFiniteSet(Addr) /\ Addr \subseteq Nat /\ NULL \notin Addr
         /\ HeapOK /\ ListsOK
         /\ List(open) \in Seq(Addr) /\ List(closed) \in Seq(Addr) /\ List(WorkAt) \in Seq(Addr)
         /\ \A a \in Addr : heap[a] = [node |-> heap[a].node, next |-> heap[a].next]
BY NullAssumption DEF HInv, HeapOK, ListsOK, Chain, Addr

LEMMA ListFacts ==
  ASSUME HInv, NEW L, NEW p, Chain(heap, L, p)
  PROVE  /\ L \in Seq(Addr) /\ Len(L) \in Nat /\ Elems(L) \subseteq Addr
         /\ \A i \in 1 .. Len(L) : L[i] \in Addr
         /\ \A i, j \in 1 .. Len(L) : L[i] = L[j] => i = j
         /\ p = NULL <=> Len(L) = 0
         /\ p = NULL <=> L = <<>>
         /\ p # NULL => p \in Addr /\ p = L[1] /\ p \in Elems(L) /\ heap[p].next = At(L, 2)
<1>1. NULL \notin DOMAIN heap /\ Addr = DOMAIN heap
  BY HeapFacts
<1>2. L \in Seq(Addr) /\ \A i, j \in 1 .. Len(L) : L[i] = L[j] => i = j
  BY <1>1 DEF Chain
<1>3. /\ Len(L) \in Nat /\ Elems(L) \subseteq Addr
      /\ p = NULL => L = <<>> /\ Len(L) = 0
      /\ p # NULL => Len(L) >= 1 /\ p = L[1] /\ p \in Elems(L) /\ heap[p].next = At(L, 2)
  BY <1>1, ChainHead
<1>4. L = <<>> => Len(L) = 0
  OBVIOUS
<1> QED
  BY <1>2, <1>3, <1>4

LEMMA AbsFacts ==
  ASSUME HInv, P!IInv
  PROVE  /\ pc \notin {"path", "done"} => outcome = "searching" /\ path = <<>> /\ ~(outcome = "rejected")
         /\ pc \notin {"path", "done"} => AbsOpen = Nodes(open) /\ Nodes(open) \in Seq(P!Node)
         /\ path = <<>> => AbsOpen = Nodes(open)
         /\ AbsOpen \in Seq(P!Node)
         /\ Nodes(closed) \in Seq(P!Node) /\ AbsCp \in P!Node \cup {NULL}
         /\ AbsSucc \in Seq(P!Node)
         /\ pc = "loop" => open # NULL
         /\ start \in P!Board /\ strategy \in P!Strategy
<1>1. pc \in {"path", "done"} <=> AbsPc \in {"path", "done"}
  BY DEF AbsPc, Filtering
<1>2. pc \notin {"path", "done"} => outcome = "searching" /\ path = <<>>
  BY <1>1 DEF P!IInv, P!Phases
<1>3. path = <<>> => AbsOpen = Nodes(open)
  BY DEF AbsOpen
<1>4. AbsOpen \in Seq(P!Node) /\ Nodes(closed) \in Seq(P!Node) /\ AbsCp \in P!Node \cup {NULL} /\ AbsSucc \in Seq(P!Node)
  BY DEF P!IInv, P!TypeOK
<1>5. pc = "loop" => open # NULL
  <2> SUFFICES ASSUME pc = "loop", open = NULL PROVE FALSE
    OBVIOUS
  <2>1. AbsPc = "loop"
    BY DEF AbsPc, Filtering
  <2>2. Nodes(open) # <<>>
    BY <1>2, <1>3, <2>1 DEF P!IInv, P!Phases
  <2>3. Chain(heap, List(open), open)
    BY HeapFacts DEF ListsOK
  <2>4. List(open) = <<>>
    BY <2>3, ListFacts
  <2> QED
    BY <2>2, <2>4, NodesHere, NodesInEmpty
<1>6. start \in P!Board /\ strategy \in P!Strategy
  BY Assumptions DEF P!IInv, P!TypeOK, P!StartsAssumption, P!StrategiesAssumption
<1> QED
  BY <1>2, <1>3, <1>4, <1>5, <1>6

-----------------------------------------------------------------------------
(* The actions that leave the heap alone.                                  *)

LEMMA HeapStays == ASSUME HeapOK, heap' = heap PROVE HeapOK'
BY DEF HeapOK, Addr

LEMMA NodesStay ==
  ASSUME heap' = heap
  PROVE  /\ List(open)' = List(open) /\ open' = open => Nodes(open)' = Nodes(open)
         /\ List(closed)' = List(closed) /\ closed' = closed => Nodes(closed)' = Nodes(closed)
         /\ cp' = cp => AbsCp' = AbsCp
BY NodesHere, NodesNext DEF AbsCp

LEMMA ListsStay ==
  ASSUME heap' = heap
  PROVE  /\ open' = open => List(open)' = List(open)
         /\ closed' = closed => List(closed)' = List(closed)
         /\ WorkAt' = WorkAt => List(WorkAt)' = List(WorkAt)
BY ListsHere, ListsNext

LEMMA AbsStays ==
  ASSUME UNCHANGED <<heap, open, closed, cp, path, lastOpen>>
  PROVE  AbsOpen' = AbsOpen /\ Nodes(closed)' = Nodes(closed) /\ AbsCp' = AbsCp
<1>1. Nodes(open)' = Nodes(open) /\ Nodes(closed)' = Nodes(closed) /\ AbsCp' = AbsCp
  BY ListsStay, NodesStay
<1> QED
  BY <1>1 DEF AbsOpen

LEMMA ChainOne ==
  ASSUME NEW h, NEW a \in DOMAIN h, h[a].next = NULL
  PROVE  Chain(h, <<a>>, a)
<1>1. Chain(h, <<>>, NULL) /\ a \notin Elems(<<>>)
  BY ChainEmpty, ElemsEmpty
<1>2. Chain(h, <<a>> \o <<>>, a)
  BY <1>1, ChainCons
<1>3. <<a>> \o <<>> = <<a>>
  OBVIOUS
<1> QED
  BY <1>2, <1>3

LEMMA AcceptHInv == HInv /\ P!IInv /\ Accept => HInv' /\ P!Accept
<1> SUFFICES ASSUME HInv, P!IInv, Accept PROVE HInv' /\ P!Accept
  OBVIOUS
<1>1. /\ pc = "solvable" /\ solvable(StartBoard) /\ open' = 1 /\ pc' = "goal"
      /\ UNCHANGED <<strategy, start, heap, closed, cp, succ, loc, leaf, path, outcome, made, lastOpen>>
  BY DEF Accept, args, hist
<1>2. outcome = "searching" /\ path = <<>>
  BY <1>1, AbsFacts
<1>3. /\ ~Filtering /\ ~Filtering' /\ WorkAt = NULL /\ WorkAt' = NULL
      /\ Hand = {1} /\ Hand' = {} /\ Unlisted /\ ~Unlisted'
  BY <1>1, <1>2 DEF Filtering, WorkAt, Hand, Unlisted, InHand
<1>4. open = NULL /\ closed = NULL /\ cp = NULL /\ succ = NULL /\ made = <<>>
  BY <1>1, <1>3 DEF HInv, PointersOK
<1>5. /\ Chain(heap, List(open), open) /\ Chain(heap, List(closed), closed)
      /\ Shared(List(open), List(closed), List(WorkAt), Hand, Addr)
      /\ Chain(heap, List(WorkAt), WorkAt)
  BY HeapFacts DEF ListsOK
<1>6. List(open) = <<>> /\ List(closed) = <<>> /\ List(WorkAt) = <<>>
  BY <1>3, <1>4, <1>5, ListFacts
<1>7. Addr = {1}
  BY <1>3, <1>5, <1>6, ElemsEmpty DEF Shared
<1>8. heap[1].node = P!StartNode(start) /\ heap[1].node.board = start
  BY <1>1 DEF HInv, StartOK
<1>9. heap[1].next = NULL
  BY <1>3, HeapFacts DEF ListsOK
<1>10. Chain(heap, <<1>>, 1) /\ Elems(<<1>>) = {1}
  <2>1. 1 \in DOMAIN heap
    BY <1>7 DEF Addr
  <2> QED
    BY <1>9, <2>1, ChainOne, ElemsOne
<1>11. HeapOK' /\ Addr' = Addr
  BY <1>1, HeapStays, HeapFacts DEF Addr
<1>12. List(open)' = <<1>> /\ List(closed)' = <<>> /\ List(WorkAt)' = <<>>
  <2>1. Chain(heap', <<1>>, open') /\ Chain(heap', <<>>, closed') /\ Chain(heap', <<>>, WorkAt')
    BY <1>1, <1>3, <1>4, <1>10, ChainEmpty
  <2> QED
    BY <1>11, <2>1, ListsAfter
<1>13. ListsOK'
  BY <1>1, <1>3, <1>4, <1>7, <1>10, <1>11, <1>12, ElemsEmpty, ChainEmpty DEF ListsOK, Shared
<1>14. FilterOK' /\ SmartOK' /\ MadeOK' /\ StartOK' /\ PointersOK'
  <2>1. FilterOK' /\ SmartOK'
    BY <1>1, <1>3 DEF FilterOK, SmartOK
  <2>2. MadeOK'
    BY <1>1, <1>4 DEF MadeOK
  <2>3. StartOK'
    BY <1>1, <1>7, <1>8, <1>11, <1>12, ElemsEmpty DEF StartOK
  <2>4. PointersOK'
    BY <1>1, <1>3, <1>4 DEF PointersOK
  <2> QED
    BY <2>1, <2>2, <2>3, <2>4
<1>15. HInv'
  BY <1>11, <1>13, <1>14 DEF HInv
<1>16. Nodes(closed)' = Nodes(closed) /\ AbsCp' = AbsCp /\ AbsOpen' = <<P!StartNode(start)>>
  <2>1. Nodes(open)' = <<P!StartNode(start)>>
    BY <1>1, <1>8, <1>12, NodesNext, NodesInOne
  <2>2. Nodes(closed)' = Nodes(closed) /\ AbsCp' = AbsCp
    BY <1>1, ListsStay, NodesStay
  <2> QED
    BY <1>1, <1>2, <2>1, <2>2 DEF AbsOpen
<1>17. AbsSucc' = AbsSucc /\ AbsTodo' = AbsTodo /\ AbsPc = "solvable" /\ AbsPc' = "goal"
  BY <1>1, <1>3 DEF AbsSucc, AbsTodo, AbsPc
<1>18. P!solvable(start)
  BY <1>1, <1>8, SameSolvable DEF StartBoard
<1>19. P!Accept
  BY <1>1, <1>16, <1>17, <1>18 DEF P!Accept, P!args
<1> QED
  BY <1>15, <1>19

LEMMA RejectHInv == HInv /\ P!IInv /\ Reject => HInv' /\ P!Reject
<1> SUFFICES ASSUME HInv, P!IInv, Reject PROVE HInv' /\ P!Reject
  OBVIOUS
<1>1. /\ pc = "solvable" /\ ~solvable(StartBoard) /\ outcome' = "rejected" /\ pc' = "done"
      /\ UNCHANGED <<strategy, start, heap, open, closed, cp, succ, loc, leaf, path, made, lastOpen>>
  BY DEF Reject, args, hist
<1>3. /\ ~Filtering /\ ~Filtering' /\ WorkAt = NULL /\ WorkAt' = NULL
      /\ Hand = {1} /\ Hand' = {1} /\ Unlisted /\ Unlisted'
  BY <1>1 DEF Filtering, WorkAt, Hand, Unlisted
<1>4. open = NULL /\ closed = NULL /\ cp = NULL /\ succ = NULL /\ made = <<>>
  BY <1>1, <1>3 DEF HInv, PointersOK
<1>11. HeapOK' /\ Addr' = Addr
  BY <1>1, HeapStays, HeapFacts DEF Addr
<1>12. List(open)' = List(open) /\ List(closed)' = List(closed) /\ List(WorkAt)' = List(WorkAt)
  BY <1>1, <1>3, ListsStay
<1>13. ListsOK'
  BY <1>1, <1>3, <1>11, <1>12, HeapFacts DEF ListsOK, Shared
<1>14. FilterOK' /\ SmartOK' /\ MadeOK' /\ StartOK' /\ PointersOK'
  <2>1. FilterOK' /\ SmartOK'
    BY <1>1, <1>3 DEF FilterOK, SmartOK
  <2>2. MadeOK'
    BY <1>1, <1>4 DEF MadeOK
  <2>3. StartOK'
    BY <1>1, <1>11, <1>12 DEF HInv, StartOK
  <2>4. PointersOK'
    BY <1>1, <1>3, <1>4 DEF PointersOK
  <2> QED
    BY <2>1, <2>2, <2>3, <2>4
<1>15. HInv'
  BY <1>11, <1>13, <1>14 DEF HInv
<1>16. AbsOpen' = AbsOpen /\ Nodes(closed)' = Nodes(closed) /\ AbsCp' = AbsCp
  BY <1>1, AbsStays
<1>17. AbsSucc' = AbsSucc /\ AbsTodo' = AbsTodo /\ AbsPc = "solvable" /\ AbsPc' = "done"
  BY <1>1, <1>3 DEF AbsSucc, AbsTodo, AbsPc
<1>18. ~P!solvable(start)
  BY <1>1, SameSolvable DEF StartBoard, HInv, StartOK
<1>19. P!Reject
  BY <1>1, <1>16, <1>17, <1>18 DEF P!Reject, P!args, P!search
<1> QED
  BY <1>15, <1>19

LEMMA GoalTestHInv == HInv /\ P!IInv /\ GoalTest => HInv' /\ (P!StartIsGoal \/ P!StartSearch)
<1> SUFFICES ASSUME HInv, P!IInv, GoalTest PROVE HInv' /\ (P!StartIsGoal \/ P!StartSearch)
  OBVIOUS
<1>1. /\ pc = "goal"
      /\ UNCHANGED <<strategy, start, heap, open, closed, succ, loc, leaf, path, made, lastOpen>>
      /\ \/ StartBoard = GoalBoard /\ cp' = 1 /\ outcome' = "found" /\ pc' = "done"
         \/ StartBoard # GoalBoard /\ cp' = NULL /\ outcome' = outcome /\ pc' = "loop"
  BY DEF GoalTest, args, hist
<1>2. outcome = "searching" /\ path = <<>>
  BY <1>1, AbsFacts
<1>3. /\ ~Filtering /\ ~Filtering' /\ WorkAt = NULL /\ WorkAt' = NULL
      /\ Hand = {} /\ Hand' = {} /\ ~Unlisted /\ ~Unlisted'
  BY <1>1, <1>2 DEF Filtering, WorkAt, Hand, Unlisted, InHand
<1>4. closed = NULL /\ cp = NULL /\ succ = NULL /\ made = <<>>
  BY <1>1 DEF HInv, PointersOK
<1>11. HeapOK' /\ Addr' = Addr
  BY <1>1, HeapStays, HeapFacts DEF Addr
<1>12. List(open)' = List(open) /\ List(closed)' = List(closed) /\ List(WorkAt)' = List(WorkAt)
  BY <1>1, <1>3, ListsStay
<1>13. ListsOK'
  BY <1>1, <1>3, <1>11, <1>12, HeapFacts DEF ListsOK, Shared
<1>8. heap[1].node = P!StartNode(start) /\ heap[1].node.board = start /\ 1 \in Addr
  BY <1>1 DEF HInv, StartOK
<1>14. FilterOK' /\ SmartOK' /\ MadeOK' /\ StartOK' /\ PointersOK'
  <2>1. FilterOK' /\ SmartOK'
    BY <1>1, <1>3 DEF FilterOK, SmartOK
  <2>2. MadeOK'
    BY <1>1, <1>4 DEF MadeOK
  <2>3. StartOK'
    BY <1>1, <1>11, <1>12 DEF HInv, StartOK
  <2>4. PointersOK'
    BY <1>1, <1>3, <1>4, <1>8, <1>11 DEF PointersOK
  <2> QED
    BY <2>1, <2>2, <2>3, <2>4
<1>15. HInv'
  BY <1>11, <1>13, <1>14 DEF HInv
<1>16. AbsOpen' = AbsOpen /\ Nodes(closed)' = Nodes(closed)
  <2>1. Nodes(open)' = Nodes(open) /\ Nodes(closed)' = Nodes(closed)
    BY <1>1, <1>12, NodesStay
  <2> QED
    BY <1>1, <2>1 DEF AbsOpen
<1>17. AbsSucc' = AbsSucc /\ AbsTodo' = AbsTodo /\ AbsPc = pc /\ AbsPc' = pc'
  BY <1>1, <1>3 DEF AbsSucc, AbsTodo, AbsPc
<1>18. P!goal_found(P!StartNode(start)) <=> StartBoard = GoalBoard
  BY <1>8, SameGoal DEF P!goal_found, StartBoard
<1>20. CASE StartBoard = GoalBoard
  <2>1. AbsCp' = P!StartNode(start)
    BY <1>1, <1>8, <1>20, NullAssumption DEF AbsCp
  <2>2. P!StartIsGoal
    BY <1>1, <1>16, <1>17, <1>18, <1>20, <2>1 DEF P!StartIsGoal, P!args, P!search
  <2> QED
    BY <1>15, <2>2
<1>21. CASE StartBoard # GoalBoard
  <2>1. AbsCp' = NULL
    BY <1>1, <1>21 DEF AbsCp
  <2>2. P!StartSearch
    BY <1>1, <1>16, <1>17, <1>18, <1>21, <2>1 DEF P!StartSearch, P!args, P!search
  <2> QED
    BY <1>15, <2>2
<1> QED
  BY <1>20, <1>21

LEMMA PathEndsHInv == HInv /\ P!IInv /\ PathEnds => HInv' /\ P!PathEnds
<1> SUFFICES ASSUME HInv, P!IInv, PathEnds PROVE HInv' /\ P!PathEnds
  OBVIOUS
<1>1. /\ pc = "path" /\ heap[cp].node.board = StartBoard /\ pc' = "done"
      /\ UNCHANGED <<strategy, start, heap, open, closed, cp, succ, loc, leaf, path, outcome, made, lastOpen>>
  BY DEF PathEnds, args, hist
<1>2. outcome \in {"found", "exhausted"} /\ cp \in Addr
  BY <1>1 DEF HInv, PointersOK
<1>3. /\ ~Filtering /\ ~Filtering' /\ WorkAt = NULL /\ WorkAt' = NULL
      /\ Hand = {} /\ Hand' = {} /\ ~Unlisted /\ ~Unlisted'
  BY <1>1, <1>2 DEF Filtering, WorkAt, Hand, Unlisted, InHand
<1>11. HeapOK' /\ Addr' = Addr
  BY <1>1, HeapStays, HeapFacts DEF Addr
<1>12. List(open)' = List(open) /\ List(closed)' = List(closed) /\ List(WorkAt)' = List(WorkAt)
  BY <1>1, <1>3, ListsStay
<1>13. ListsOK'
  BY <1>1, <1>3, <1>11, <1>12, HeapFacts DEF ListsOK, Shared
<1>14. FilterOK' /\ SmartOK' /\ MadeOK' /\ StartOK' /\ PointersOK'
  <2>1. FilterOK' /\ SmartOK'
    BY <1>1, <1>3 DEF FilterOK, SmartOK
  <2>2. MadeOK'
    BY <1>1 DEF MadeOK, HInv
  <2>3. StartOK'
    BY <1>1, <1>11, <1>12 DEF HInv, StartOK
  <2>4. PointersOK'
    BY <1>1, <1>2, <1>3, <1>11 DEF PointersOK, HInv
  <2> QED
    BY <2>1, <2>2, <2>3, <2>4
<1>15. HInv'
  BY <1>11, <1>13, <1>14 DEF HInv
<1>16. AbsOpen' = AbsOpen /\ Nodes(closed)' = Nodes(closed) /\ AbsCp' = AbsCp
  BY <1>1, AbsStays
<1>17. AbsSucc' = AbsSucc /\ AbsTodo' = AbsTodo /\ AbsPc = "path" /\ AbsPc' = "done"
  BY <1>1, <1>3 DEF AbsSucc, AbsTodo, AbsPc
<1>18. AbsCp.board = start
  BY <1>1, <1>2, HeapFacts DEF AbsCp, StartBoard, HInv, StartOK
<1>19. P!PathEnds
  BY <1>1, <1>16, <1>17, <1>18 DEF P!PathEnds, P!args, P!search
<1> QED
  BY <1>15, <1>19

-----------------------------------------------------------------------------
(* The walks of merge_smart that find the node to link.                    *)

LEMMA MadeFacts ==
  ASSUME HInv
  PROVE  Len(made) \in Nat /\ DOMAIN made = 1 .. Len(made)
<1>1. Len(made) \in Nat /\ made = [i \in 1 .. Len(made) |-> made[i]]
  BY DEF HInv, MadeOK
<1> QED
  BY <1>1

LEMMA WorkSmart ==
  ASSUME pc = "smart" PROVE ~Filtering /\ WorkAt = loc.succ /\ List(WorkAt) = List(loc.succ)
<1>1. ~Filtering /\ WorkAt = loc.succ
  BY DEF Filtering, WorkAt
<1> QED
  BY <1>1, ListsHere

LEMMA WorkMerge ==
  ASSUME pc = "merge" PROVE ~Filtering /\ WorkAt = succ /\ List(WorkAt) = List(succ)
<1>1. ~Filtering /\ WorkAt = succ
  BY DEF Filtering, WorkAt
<1> QED
  BY <1>1, ListsHere

LEMMA OnIs == On(loc.succ) = {List(loc.succ)[i] : i \in DOMAIN List(loc.succ)}
BY DEF On

LEMMA MadeNodes ==
  ASSUME HInv, P!IInv, pc \in {"merge", "smart", "close"}
  PROVE  /\ \A i \in 1 .. Len(made) : /\ made[i].node \in P!Node /\ made[i].addr \in Addr
                                      /\ heap[made[i].addr].node = made[i].node
         /\ AbsSucc = [i \in 1 .. Len(made) |-> made[i].node]
         /\ Len(AbsSucc) = Len(made) /\ DOMAIN AbsSucc = 1 .. Len(made)
         /\ \A i \in 1 .. Len(made) : AbsSucc[i] = made[i].node
<1>1. ~Filtering
  BY DEF Filtering
<1>2. AbsSucc = [i \in 1 .. Len(made) |-> made[i].node] /\ Len(made) \in Nat
  BY <1>1, MadeFacts DEF AbsSucc
<1>3. AbsSucc \in Seq(P!Node)
  BY AbsFacts
<1>4. DOMAIN AbsSucc = 1 .. Len(made) /\ \A i \in 1 .. Len(made) : AbsSucc[i] = made[i].node
  BY <1>2
<1>5. Len(AbsSucc) = Len(made) /\ \A i \in 1 .. Len(made) : AbsSucc[i] \in P!Node
  BY <1>2, <1>3, <1>4
<1>6. \A i \in 1 .. Len(made) : /\ made[i].addr \in Elems(List(open)) \cup Elems(List(WorkAt))
                                /\ heap[made[i].addr].node = made[i].node
  BY DEF HInv, MadeOK
<1>7. Elems(List(open)) \subseteq Addr /\ Elems(List(WorkAt)) \subseteq Addr
  BY HeapFacts DEF ListsOK, Shared
<1> QED
  BY <1>2, <1>4, <1>5, <1>6, <1>7

\* The abstract state while merge_smart is at work.
LEMMA SmartAbs ==
  ASSUME HInv, P!IInv, pc = "smart"
  PROVE  /\ AbsTodo = {i \in 1 .. Len(made) : made[i].addr \in Elems(List(loc.succ))}
         /\ AbsTodo = {} <=> List(loc.succ) = <<>>
         /\ AbsPc = IF AbsTodo = {} THEN "close" ELSE "merge"
<1> DEFINE W == List(loc.succ)
<1>1. ~Filtering /\ Chain(heap, W, loc.succ)
  BY WorkSmart, HeapFacts DEF ListsOK
<1>2. W \in Seq(Addr) /\ Len(W) \in Nat
  BY <1>1, ListFacts
<1>3. \A i \in 1 .. Len(W) : \E m \in 1 .. Len(made) : W[i] = made[m].addr
  BY DEF HInv, SmartOK
<1> DEFINE T == {i \in 1 .. Len(made) : made[i].addr \in Elems(W)}
<1>4. AbsTodo = T
  <2>1. On(loc.succ) = Elems(W)
    <3>1. DOMAIN W = 1 .. Len(W)
      BY <1>2
    <3> QED
      BY <3>1, OnIs DEF Elems
  <2>2. AbsTodo = {i \in DOMAIN made : made[i].addr \in On(loc.succ)}
    BY <1>1 DEF AbsTodo
  <2> QED
    BY <2>1, <2>2, MadeFacts
<1>5. AbsPc = IF AbsTodo = {} THEN "close" ELSE "merge"
  BY DEF AbsPc
<1>6. T = {} <=> W = <<>>
  <2>1. W = <<>> => T = {}
    BY ElemsEmpty
  <2>2. ASSUME W # <<>> PROVE T # {}
    <3>1. 1 \in 1 .. Len(W)
      BY <1>2, <2>2
    <3>2. PICK m \in 1 .. Len(made) : W[1] = made[m].addr
      BY <1>3, <3>1
    <3>3. W[1] \in Elems(W)
      BY <3>1 DEF Elems
    <3> QED
      BY <3>2, <3>3
  <2> QED
    BY <2>1, <2>2
<1> QED
  BY <1>4, <1>5, <1>6

LEMMA MergeAbs ==
  ASSUME HInv, pc = "merge"
  PROVE  AbsTodo = 1 .. Len(made) /\ AbsPc = "merge" /\ Len(made) >= 1
<1>1. ~Filtering
  BY DEF Filtering
<1> QED
  BY <1>1, MadeFacts DEF AbsTodo, AbsPc, HInv, MadeOK

LEMMA CloseAbs == pc = "close" => AbsTodo = {} /\ AbsPc = "close"
BY DEF AbsTodo, AbsPc, Filtering

LEMMA SmartReturnsHInv == HInv /\ P!IInv /\ SmartReturns => HInv' /\ UNCHANGED P!vars
<1> SUFFICES ASSUME HInv, P!IInv, SmartReturns PROVE HInv' /\ UNCHANGED P!vars
  OBVIOUS
<1>1. /\ pc = "smart" /\ loc.csucc = NULL /\ loc.insert = NULL /\ pc' = "close"
      /\ UNCHANGED <<strategy, start, heap, open, closed, cp, succ, leaf, path, outcome, made, lastOpen>>
  BY DEF SmartReturns, args, hist
<1> DEFINE W == List(loc.succ)
<1>2. outcome = "searching" /\ path = <<>>
  BY <1>1, AbsFacts
<1>3. /\ ~Filtering /\ ~Filtering' /\ WorkAt = loc.succ /\ WorkAt' = NULL /\ List(WorkAt) = W
      /\ Hand = {cp} /\ Hand' = {cp} /\ ~Unlisted /\ ~Unlisted'
  BY <1>1, <1>2, WorkSmart DEF Filtering, WorkAt, Hand, Unlisted, InHand
<1>4. W = <<>>
  <2>1. Chain(heap, W, loc.succ)
    BY <1>3, HeapFacts DEF ListsOK
  <2>2. Len(W) \in Nat /\ \A i \in 1 .. Len(W) : W[i] \in Addr
    BY <2>1, ListFacts
  <2>3. PICK k \in 1 .. (Len(W) + 1) : SmartAt(W, k)
    BY <1>1 DEF HInv, SmartOK
  <2>4. NULL \notin Addr
    BY HeapFacts
  <2>5. k = 1
    BY <1>1, <2>2, <2>3, <2>4 DEF SmartAt
  <2>6. At(W, 1) = NULL
    BY <1>1, <2>3, <2>5 DEF SmartAt
  <2>7. Len(W) = 0
    BY <2>2, <2>4, <2>6 DEF At
  <2> QED
    BY <2>1, <2>7, ListFacts
<1>11. HeapOK' /\ Addr' = Addr
  BY <1>1, HeapStays, HeapFacts DEF Addr
<1>12. List(open)' = List(open) /\ List(closed)' = List(closed) /\ List(WorkAt)' = <<>>
  <2>1. Chain(heap', List(open), open') /\ Chain(heap', List(closed), closed') /\ Chain(heap', <<>>, WorkAt')
    BY <1>1, <1>3, ChainEmpty, HeapFacts DEF ListsOK
  <2> QED
    BY <1>11, <2>1, ListsAfter
<1>13. ListsOK'
  BY <1>1, <1>3, <1>4, <1>11, <1>12, ChainEmpty, HeapFacts DEF ListsOK, Shared
<1>14. FilterOK' /\ SmartOK' /\ MadeOK' /\ StartOK' /\ PointersOK'
  <2>1. FilterOK' /\ SmartOK'
    BY <1>1, <1>3 DEF FilterOK, SmartOK
  <2>2. MadeOK'
    BY <1>1, <1>3, <1>4, <1>12 DEF MadeOK, HInv
  <2>3. StartOK'
    BY <1>1, <1>11, <1>12, ElemsEmpty DEF HInv, StartOK
  <2>4. PointersOK'
    BY <1>1, <1>2, <1>3, <1>11 DEF PointersOK, HInv
  <2> QED
    BY <2>1, <2>2, <2>3, <2>4
<1>15. HInv'
  BY <1>11, <1>13, <1>14 DEF HInv
<1>16. AbsOpen' = AbsOpen /\ Nodes(closed)' = Nodes(closed) /\ AbsCp' = AbsCp
  BY <1>1, AbsStays
<1>17. AbsSucc' = AbsSucc /\ AbsTodo = {} /\ AbsTodo' = {} /\ AbsPc = "close" /\ AbsPc' = "close"
  <2>1. AbsTodo = {} /\ AbsPc = "close"
    BY <1>1, <1>4, SmartAbs
  <2>2. AbsTodo' = {} /\ AbsPc' = "close"
    BY <1>1, <1>3 DEF AbsTodo, AbsPc
  <2>3. AbsSucc' = AbsSucc
    BY <1>1, <1>3 DEF AbsSucc
  <2> QED
    BY <2>1, <2>2, <2>3
<1>19. UNCHANGED P!vars
  BY <1>1, <1>16, <1>17 DEF P!vars
<1> QED
  BY <1>15, <1>19

\* What a turn of merge_smart has to leave.
LEMMA SmartNext ==
  ASSUME strategy' = strategy, strategy \notin {"dfs", "bfs"},
         NEW w, pc' = "smart" => w = List(loc.succ)',
         loc' = [succ |-> loc'.succ, csucc |-> loc'.csucc, prev |-> loc'.prev, insert |-> loc'.insert,
                 insert_prev |-> loc'.insert_prev, max_f |-> loc'.max_f],
         \A i \in 1 .. Len(w) : \E m \in 1 .. Len(made') : w[i] = made'[m].addr,
         \A i, j \in 1 .. Len(w) : \A m, n \in 1 .. Len(made') :
           w[i] = made'[m].addr /\ w[j] = made'[n].addr /\ i < j => m < n,
         NEW k \in 1 .. (Len(w) + 1),
         loc'.csucc = At(w, k), loc'.prev = Behind(w, k),
         k = 1 => loc'.insert = NULL /\ loc'.max_f = -1,
         k > 1 => \E j \in 1 .. (k - 1) :
           /\ loc'.insert = w[j] /\ loc'.insert_prev = Behind(w, j)
           /\ loc'.max_f = P!Key(heap'[w[j]].node)
           /\ \A i \in 1 .. (k - 1) :
                \/ P!Key(heap'[w[i]].node) < P!Key(heap'[w[j]].node)
                \/ P!Key(heap'[w[i]].node) = P!Key(heap'[w[j]].node) /\ i <= j
  PROVE  SmartOK'
<1>1. SmartAt(w, k)'
  BY DEF SmartAt, KeyAt, P!Key
<1> QED
  BY <1>1 DEF SmartOK

LEMMA MergeSmartHInv == HInv /\ P!IInv /\ MergeSmart => HInv' /\ UNCHANGED P!vars
<1> SUFFICES ASSUME HInv, P!IInv, MergeSmart PROVE HInv' /\ UNCHANGED P!vars
  OBVIOUS
<1>1. /\ pc = "merge" /\ strategy \notin {"dfs", "bfs"} /\ loc' = SmartTurn(succ) /\ pc' = "smart"
      /\ UNCHANGED <<strategy, start, heap, open, closed, cp, succ, leaf, path, outcome, made, lastOpen>>
  BY DEF MergeSmart, args, hist
<1> DEFINE W == List(succ)
<1>2. outcome = "searching" /\ path = <<>>
  BY <1>1, AbsFacts
<1>3. /\ ~Filtering /\ ~Filtering' /\ WorkAt = succ /\ WorkAt' = succ /\ List(WorkAt) = W
      /\ Hand = {cp} /\ Hand' = {cp} /\ ~Unlisted /\ ~Unlisted' /\ loc'.succ = succ
  BY <1>1, <1>2, WorkMerge DEF Filtering, WorkAt, Hand, Unlisted, InHand, SmartTurn
<1>4. /\ Chain(heap, W, succ) /\ W \in Seq(Addr) /\ Len(W) \in Nat /\ Len(W) = Len(made)
      /\ W = [i \in 1 .. Len(made) |-> made[i].addr] /\ Len(made) >= 1 /\ succ = W[1]
      /\ \A i, j \in 1 .. Len(made) : made[i].addr = made[j].addr => i = j
  <2>1. Chain(heap, W, succ)
    BY <1>3, HeapFacts DEF ListsOK
  <2>2. W \in Seq(Addr) /\ Len(W) \in Nat
    BY <2>1, ListFacts
  <2>3. /\ W = [i \in 1 .. Len(made) |-> made[i].addr] /\ Len(made) >= 1 /\ succ = made[1].addr
        /\ \A i, j \in 1 .. Len(made) : made[i].addr = made[j].addr => i = j /\ Len(made) \in Nat
    BY <1>1 DEF HInv, MadeOK
  <2>4. DOMAIN W = 1 .. Len(made) /\ W[1] = made[1].addr
    BY <2>3, MadeFacts
  <2>5. Len(W) = Len(made)
    BY <2>2, <2>4, MadeFacts
  <2> QED
    BY <2>1, <2>2, <2>3, <2>4, <2>5
<1>11. HeapOK' /\ Addr' = Addr
  BY <1>1, HeapStays, HeapFacts DEF Addr
<1>12. List(open)' = List(open) /\ List(closed)' = List(closed) /\ List(WorkAt)' = W /\ List(loc.succ)' = W
  <2>1. List(open)' = List(open) /\ List(closed)' = List(closed) /\ List(WorkAt)' = List(WorkAt)
    BY <1>1, <1>3, ListsStay
  <2>2. List(loc.succ)' = List(WorkAt)'
    BY <1>3, ListsNext
  <2> QED
    BY <1>3, <2>1, <2>2
<1>13. ListsOK'
  BY <1>1, <1>3, <1>11, <1>12, HeapFacts DEF ListsOK, Shared
<1>14. FilterOK' /\ MadeOK' /\ StartOK' /\ PointersOK'
  <2>1. FilterOK'
    BY <1>1, <1>3 DEF FilterOK
  <2>2. MadeOK'
    BY <1>1, <1>3, <1>12 DEF MadeOK, HInv
  <2>3. StartOK'
    BY <1>1, <1>3, <1>11, <1>12 DEF HInv, StartOK
  <2>4. PointersOK'
    BY <1>1, <1>2, <1>3, <1>11 DEF PointersOK, HInv
  <2> QED
    BY <2>1, <2>2, <2>3, <2>4
<1>18. SmartOK'
  <2>1. \A i \in 1 .. Len(W) : W[i] = made[i].addr
    BY <1>4
  <2>2. /\ \A i \in 1 .. Len(W) : \E m \in 1 .. Len(made) : W[i] = made[m].addr
        /\ \A i, j \in 1 .. Len(W) : \A m, n \in 1 .. Len(made) :
             W[i] = made[m].addr /\ W[j] = made[n].addr /\ i < j => m < n
    BY <1>4, <2>1
  <2>3. At(W, 1) = succ /\ Behind(W, 1) = succ
    BY <1>4 DEF At, Behind
  <2>4. /\ loc'.csucc = At(W, 1) /\ loc'.prev = Behind(W, 1) /\ loc'.insert = NULL /\ loc'.max_f = -1
        /\ 1 \in 1 .. (Len(W) + 1)
    BY <1>1, <1>4, <2>3 DEF SmartTurn
  <2>5. loc' = [succ |-> loc'.succ, csucc |-> loc'.csucc, prev |-> loc'.prev, insert |-> loc'.insert,
                insert_prev |-> loc'.insert_prev, max_f |-> loc'.max_f]
    BY <1>1 DEF SmartTurn
  <2>6. strategy' = strategy /\ made' = made /\ W = List(loc.succ)' /\ ~(1 > 1)
    BY <1>1, <1>12
  <2> HIDE DEF W
  <2> QED
    BY <1>1, <2>2, <2>4, <2>5, <2>6, SmartNext
<1>15. HInv'
  BY <1>11, <1>13, <1>14, <1>18 DEF HInv
<1>16. AbsOpen' = AbsOpen /\ Nodes(closed)' = Nodes(closed) /\ AbsCp' = AbsCp
  BY <1>1, AbsStays
<1>17. AbsSucc' = AbsSucc /\ AbsTodo' = AbsTodo /\ AbsPc = "merge" /\ AbsPc' = "merge"
  <2>1. AbsTodo = 1 .. Len(made) /\ AbsPc = "merge"
    BY <1>1, MergeAbs
  <2>2. AbsTodo' = {i \in DOMAIN made : made[i].addr \in On(loc.succ)'}
    BY <1>1, <1>3 DEF AbsTodo
  <2>3. On(loc.succ)' = {W[i] : i \in DOMAIN W}
    BY <1>12 DEF On
  <2>4. \A i \in 1 .. Len(made) : made[i].addr \in On(loc.succ)'
    BY <1>4, <2>3
  <2>5. AbsTodo' = 1 .. Len(made)
    BY <2>2, <2>4, MadeFacts
  <2>6. AbsTodo' # {}
    BY <1>4, <2>5
  <2>7. AbsPc' = "merge"
    BY <1>1, <2>6 DEF AbsPc
  <2>8. AbsSucc' = AbsSucc
    BY <1>1, <1>3 DEF AbsSucc
  <2> QED
    BY <2>1, <2>5, <2>7, <2>8
<1>19. UNCHANGED P!vars
  BY <1>1, <1>16, <1>17 DEF P!vars
<1> QED
  BY <1>15, <1>19

LEMMA KeyType ==
  ASSUME NEW n \in P!Node PROVE P!Key(n) \in Nat
BY DEF P!Key, P!Node

LEMMA SmartScanHInv == HInv /\ P!IInv /\ SmartScan => HInv' /\ UNCHANGED P!vars
<1> SUFFICES ASSUME HInv, P!IInv, SmartScan PROVE HInv' /\ UNCHANGED P!vars
  OBVIOUS
<1> DEFINE key == P!Key(heap[loc.csucc].node)
           better == key >= loc.max_f
           new == [loc EXCEPT !.max_f = IF better THEN key ELSE @,
                              !.insert = IF better THEN loc.csucc ELSE @,
                              !.insert_prev = IF better THEN loc.prev ELSE @,
                              !.prev = PrevOf(loc),
                              !.csucc = heap[loc.csucc].next]
<1>1. /\ pc = "smart" /\ pc' = "smart" /\ loc.csucc # NULL
      /\ loc' = new
      /\ UNCHANGED <<strategy, start, heap, open, closed, cp, succ, leaf, path, outcome, made, lastOpen>>
  BY SameKey DEF SmartScan, args, hist
<1>2. outcome = "searching" /\ path = <<>>
  BY <1>1, AbsFacts
<1>20. loc = [succ |-> loc.succ, csucc |-> loc.csucc, prev |-> loc.prev, insert |-> loc.insert,
              insert_prev |-> loc.insert_prev, max_f |-> loc.max_f]
  BY <1>1 DEF HInv, SmartOK
<1>21. loc' = [succ |-> loc.succ, csucc |-> heap[loc.csucc].next, prev |-> PrevOf(loc),
               insert |-> IF better THEN loc.csucc ELSE loc.insert,
               insert_prev |-> IF better THEN loc.prev ELSE loc.insert_prev,
               max_f |-> IF better THEN key ELSE loc.max_f]
  <2> HIDE DEF better, key
  <2> QED
    BY <1>1, <1>20
<1> HIDE DEF new
<1>3. /\ ~Filtering /\ ~Filtering' /\ WorkAt = loc.succ /\ WorkAt' = WorkAt /\ loc'.succ = loc.succ
      /\ Hand = {cp} /\ Hand' = {cp} /\ ~Unlisted /\ ~Unlisted' /\ List(WorkAt) = List(loc.succ)
  BY <1>1, <1>2, <1>21, WorkSmart DEF Filtering, WorkAt, Hand, Unlisted, InHand
<1>4. PICK W : W = List(loc.succ)
  OBVIOUS
<1>5. Chain(heap, W, loc.succ)
  BY <1>3, <1>4, HeapFacts DEF ListsOK
<1>6. /\ W \in Seq(Addr) /\ Len(W) \in Nat /\ \A i \in 1 .. Len(W) : W[i] \in Addr
      /\ \A i, j \in 1 .. Len(W) : W[i] = W[j] => i = j
      /\ \A i \in 1 .. Len(W) : heap[W[i]].next = At(W, i + 1)
      /\ NULL \notin Addr
  BY <1>5, ListFacts, HeapFacts DEF Chain
<1>11. HeapOK' /\ Addr' = Addr
  BY <1>1, HeapStays, HeapFacts DEF Addr
<1>12. List(open)' = List(open) /\ List(closed)' = List(closed) /\ List(WorkAt)' = W /\ List(loc.succ)' = W
  <2>1. List(open)' = List(open) /\ List(closed)' = List(closed) /\ List(WorkAt)' = List(WorkAt)
    BY <1>1, <1>3, ListsStay
  <2>2. List(loc.succ)' = List(WorkAt)'
    BY <1>3, ListsNext
  <2> QED
    BY <1>3, <1>4, <2>1, <2>2
<1>13. ListsOK'
  BY <1>1, <1>3, <1>4, <1>11, <1>12, HeapFacts DEF ListsOK, Shared
<1>14. FilterOK' /\ MadeOK' /\ StartOK' /\ PointersOK'
  <2>1. FilterOK'
    BY <1>1, <1>3 DEF FilterOK
  <2>2. MadeOK'
    BY <1>1, <1>3, <1>4, <1>12 DEF MadeOK, HInv
  <2>3. StartOK'
    BY <1>1, <1>3, <1>4, <1>11, <1>12 DEF HInv, StartOK
  <2>4. PointersOK'
    BY <1>1, <1>2, <1>3, <1>11 DEF PointersOK, HInv
  <2> QED
    BY <2>1, <2>2, <2>3, <2>4
<1>7. PICK k \in 1 .. (Len(W) + 1) : SmartAt(W, k)
  BY <1>1, <1>4 DEF HInv, SmartOK
<1>8. /\ \A i \in 1 .. Len(W) : \E m \in 1 .. Len(made) : W[i] = made[m].addr
      /\ \A i, j \in 1 .. Len(W) : \A m, n \in 1 .. Len(made) :
           W[i] = made[m].addr /\ W[j] = made[n].addr /\ i < j => m < n
  BY <1>1, <1>4 DEF HInv, SmartOK
<1>9. k \in 1 .. Len(W) /\ loc.csucc = W[k]
  BY <1>1, <1>6, <1>7 DEF SmartAt, At
<1>10. \A i \in 1 .. Len(W) : KeyAt(W, i) \in Nat
  <2> SUFFICES ASSUME NEW i \in 1 .. Len(W) PROVE KeyAt(W, i) \in Nat
    OBVIOUS
  <2>1. PICK m \in 1 .. Len(made) : W[i] = made[m].addr
    BY <1>8
  <2>2. heap[W[i]].node \in P!Node
    BY <1>1, <2>1, MadeNodes
  <2> QED
    BY <2>2, KeyType DEF KeyAt
<1>22. key = KeyAt(W, k) /\ key \in Nat
  BY <1>9, <1>10 DEF KeyAt
<1> HIDE DEF key
<1>23. loc'.csucc = At(W, k + 1)
  BY <1>6, <1>9, <1>21
<1>24. loc'.prev = Behind(W, k + 1)
  <2>1. loc'.prev = PrevOf(loc) /\ loc.prev = Behind(W, k)
    BY <1>7, <1>21 DEF SmartAt
  <2>2. CASE k = 1
    BY <1>6, <1>9, <2>1, <2>2 DEF PrevOf, Behind, At
  <2>3. CASE k # 1
    <3>1. k - 1 \in 1 .. Len(W) /\ k - 1 # k /\ k - 1 + 1 = k /\ k + 1 - 1 = k /\ k + 1 # 1
      BY <1>9, <2>3
    <3>2. loc.prev = W[k - 1] /\ W[k - 1] # W[k]
      BY <1>6, <1>9, <2>1, <2>3, <3>1 DEF Behind
    <3>3. heap[W[k - 1]].next = W[k]
      BY <1>6, <1>9, <3>1 DEF At
    <3> QED
      BY <1>9, <2>1, <3>1, <3>2, <3>3 DEF PrevOf, Behind
  <2> QED
    BY <2>2, <2>3
<1>25. \E j \in 1 .. (k + 1 - 1) :
           /\ loc'.insert = W[j] /\ loc'.insert_prev = Behind(W, j)
           /\ loc'.max_f = KeyAt(W, j)
           /\ \A i \in 1 .. (k + 1 - 1) : KeyAt(W, i) < KeyAt(W, j) \/ (KeyAt(W, i) = KeyAt(W, j) /\ i <= j)
  <2>1. CASE better
    <3>1. loc'.insert = W[k] /\ loc'.insert_prev = Behind(W, k) /\ loc'.max_f = KeyAt(W, k)
      BY <1>7, <1>9, <1>21, <1>22, <2>1 DEF SmartAt
    <3>2. \A i \in 1 .. k : KeyAt(W, i) < KeyAt(W, k) \/ (KeyAt(W, i) = KeyAt(W, k) /\ i <= k)
      <4>1. CASE k = 1
        BY <4>1
      <4>2. CASE k # 1
        <5>1. k > 1
          BY <1>9, <4>2
        <5>2. PICK j \in 1 .. (k - 1) :
                 /\ loc.max_f = KeyAt(W, j)
                 /\ \A i \in 1 .. (k - 1) : KeyAt(W, i) < KeyAt(W, j) \/ (KeyAt(W, i) = KeyAt(W, j) /\ i <= j)
          BY <1>7, <5>1 DEF SmartAt
        <5>3. KeyAt(W, k) >= KeyAt(W, j)
          BY <1>22, <2>1, <5>2
        <5>4. \A i \in 1 .. (k - 1) : KeyAt(W, i) <= KeyAt(W, j)
          <6>1. \A i \in 1 .. (k - 1) : KeyAt(W, i) \in Nat
            BY <1>9, <1>10
          <6> QED
            BY <5>2, <6>1
        <5>5. \A i \in 1 .. (k - 1) : KeyAt(W, i) \in Nat /\ KeyAt(W, j) \in Nat /\ KeyAt(W, k) \in Nat
          BY <1>9, <1>10
        <5>6. \A i \in 1 .. k : i = k \/ i \in 1 .. (k - 1)
          BY <1>9
        <5>7. \A i \in 1 .. (k - 1) : i <= k
          BY <1>9
        <5> QED
          BY <5>3, <5>4, <5>5, <5>6, <5>7
      <4> QED
        BY <4>1, <4>2
    <3>3. k + 1 - 1 = k /\ k \in 1 .. k
      BY <1>9
    <3> QED
      BY <3>1, <3>2, <3>3
  <2>2. CASE ~better
    <3>1. k > 1
      <4> SUFFICES ASSUME k = 1 PROVE FALSE
        BY <1>9
      <4>1. loc.max_f = -1
        BY <1>7 DEF SmartAt
      <4> QED
        BY <1>22, <2>2, <4>1
    <3>2. PICK j \in 1 .. (k - 1) :
             /\ loc.insert = W[j] /\ loc.insert_prev = Behind(W, j)
             /\ loc.max_f = KeyAt(W, j)
             /\ \A i \in 1 .. (k - 1) : KeyAt(W, i) < KeyAt(W, j) \/ (KeyAt(W, i) = KeyAt(W, j) /\ i <= j)
      BY <1>7, <3>1 DEF SmartAt
    <3>3. loc'.insert = W[j] /\ loc'.insert_prev = Behind(W, j) /\ loc'.max_f = KeyAt(W, j)
      BY <1>21, <2>2, <3>2
    <3>4. KeyAt(W, k) < KeyAt(W, j)
      <4>1. KeyAt(W, j) \in Nat
        BY <1>9, <1>10
      <4> QED
        BY <1>22, <2>2, <3>2, <4>1
    <3>5. k + 1 - 1 = k /\ j \in 1 .. k /\ \A i \in 1 .. k : i = k \/ i \in 1 .. (k - 1)
      BY <1>9
    <3>6. \A i \in 1 .. k : KeyAt(W, i) < KeyAt(W, j) \/ (KeyAt(W, i) = KeyAt(W, j) /\ i <= j)
      <4> SUFFICES ASSUME NEW i \in 1 .. k
                   PROVE  KeyAt(W, i) < KeyAt(W, j) \/ (KeyAt(W, i) = KeyAt(W, j) /\ i <= j)
        OBVIOUS
      <4>1. CASE i = k
        BY <3>4, <4>1
      <4>2. CASE i \in 1 .. (k - 1)
        BY <3>2, <4>2
      <4> QED
        BY <3>5, <4>1, <4>2
    <3> QED
      BY <3>3, <3>5, <3>6
  <2> QED
    BY <2>1, <2>2
<1>18. SmartOK'
  <2>1. loc' = [succ |-> loc'.succ, csucc |-> loc'.csucc, prev |-> loc'.prev, insert |-> loc'.insert,
                insert_prev |-> loc'.insert_prev, max_f |-> loc'.max_f]
    BY <1>21
  <2>2. \A i \in 1 .. Len(W) : KeyAt(W, i) = P!Key(heap'[W[i]].node)
    BY <1>1 DEF KeyAt
  <2>3. k + 1 \in 1 .. (Len(W) + 1) /\ k + 1 > 1 /\ ~(k + 1 = 1) /\ \A i \in 1 .. (k + 1 - 1) : i \in 1 .. Len(W)
    BY <1>9
  <2>4. \E j \in 1 .. (k + 1 - 1) :
           /\ loc'.insert = W[j] /\ loc'.insert_prev = Behind(W, j)
           /\ loc'.max_f = P!Key(heap'[W[j]].node)
           /\ \A i \in 1 .. (k + 1 - 1) :
                \/ P!Key(heap'[W[i]].node) < P!Key(heap'[W[j]].node)
                \/ P!Key(heap'[W[i]].node) = P!Key(heap'[W[j]].node) /\ i <= j
    BY <1>25, <2>2, <2>3
  <2>5. strategy' = strategy /\ made' = made /\ W = List(loc.succ)' /\ strategy \notin {"dfs", "bfs"}
    BY <1>1, <1>12 DEF HInv, SmartOK
  <2>6. PICK n : n = k + 1
    OBVIOUS
  <2>7. /\ n \in 1 .. (Len(W) + 1) /\ loc'.csucc = At(W, n) /\ loc'.prev = Behind(W, n)
        /\ n = 1 => loc'.insert = NULL /\ loc'.max_f = -1
        /\ n > 1 => \E j \in 1 .. (n - 1) :
             /\ loc'.insert = W[j] /\ loc'.insert_prev = Behind(W, j)
             /\ loc'.max_f = P!Key(heap'[W[j]].node)
             /\ \A i \in 1 .. (n - 1) :
                  \/ P!Key(heap'[W[i]].node) < P!Key(heap'[W[j]].node)
                  \/ P!Key(heap'[W[i]].node) = P!Key(heap'[W[j]].node) /\ i <= j
    BY <1>23, <1>24, <2>3, <2>4, <2>6
  <2> QED
    BY <1>8, <2>1, <2>5, <2>7, SmartNext
<1>15. HInv'
  BY <1>11, <1>13, <1>14, <1>18 DEF HInv
<1>16. AbsOpen' = AbsOpen /\ Nodes(closed)' = Nodes(closed) /\ AbsCp' = AbsCp
  BY <1>1, AbsStays
<1>17. AbsSucc' = AbsSucc /\ AbsTodo' = AbsTodo /\ AbsPc' = AbsPc
  <2>1. On(loc.succ)' = On(loc.succ)
    BY <1>4, <1>12 DEF On
  <2> QED
    BY <1>1, <1>3, <2>1 DEF AbsSucc, AbsTodo, AbsPc
<1>19. UNCHANGED P!vars
  BY <1>1, <1>16, <1>17 DEF P!vars
<1> QED
  BY <1>15, <1>19

-----------------------------------------------------------------------------
(* The turns of filter.                                                    *)

LEMMA WorkFilter ==
  ASSUME Filtering PROVE WorkAt = succ /\ List(WorkAt) = List(succ)
<1>1. WorkAt = succ
  BY DEF WorkAt
<1> QED
  BY <1>1, ListsHere

LEMMA WorkFilterNext ==
  ASSUME Filtering' PROVE WorkAt' = succ' /\ List(WorkAt)' = List(succ)'
<1>1. WorkAt' = succ'
  BY DEF WorkAt
<1> QED
  BY <1>1, ListsNext

LEMMA FilterAbs ==
  ASSUME Filtering
  PROVE  /\ AbsSucc = P!filter(P!filter(Nodes(succ), Nodes(open)), Nodes(closed))
         /\ AbsTodo = DOMAIN AbsSucc
         /\ AbsPc = IF AbsTodo = {} THEN "close" ELSE "merge"
<1>1. AbsTodo = DOMAIN AbsSucc
  BY DEF AbsTodo, Filtering
<1>2. AbsSucc = P!filter(P!filter(Nodes(succ), Nodes(open)), Nodes(closed))
  BY SameFilter DEF AbsSucc
<1> QED
  BY <1>1, <1>2 DEF AbsPc

LEMMA FilterAbsNext ==
  ASSUME Filtering'
  PROVE  /\ AbsSucc' = P!filter(P!filter(Nodes(succ)', Nodes(open)'), Nodes(closed)')
         /\ AbsTodo' = DOMAIN AbsSucc'
         /\ AbsPc' = IF AbsTodo' = {} THEN "close" ELSE "merge"
<1>1. AbsSucc' = F0!filter(F0!filter(Nodes(succ)', Nodes(open)'), Nodes(closed)')
  BY DEF AbsSucc, F0!filter, F0!Kept, F0!Boards
<1>2. \A s, h : P!filter(s, h) = F0!filter(s, h)
  BY SameFilter
<1>4. AbsTodo' = DOMAIN AbsSucc'
  BY DEF AbsTodo, Filtering
<1>3. AbsSucc' = P!filter(P!filter(Nodes(succ)', Nodes(open)'), Nodes(closed)')
  BY <1>1, <1>2
<1> QED
  BY <1>3, <1>4 DEF AbsPc

\* What a turn of filter has to leave.
LEMMA FilterNext ==
  ASSUME NEW w, Filtering' => w = List(succ)', Len(w) <= 4,
         loc' = [lsp |-> loc'.lsp, rsp |-> loc'.sp, sp |-> loc'.sp],
         \A i \in 1 .. Len(w) : heap'[w[i]].node \in P!Node,
         NEW k \in 1 .. (Len(w) + 1),
         loc'.sp = At(w, k), loc'.lsp = Behind(w, k),
         \A i \in 1 .. (k - 1) : heap'[w[i]].node.board \notin P!Boards(Nodes(hp)'),
         pc' = "filterClosed" =>
           \A i \in 1 .. Len(w) : heap'[w[i]].node.board \notin P!Boards(Nodes(open)')
  PROVE  FilterOK'
<1>1. \A b : Listed(b, hp)' <=> b \in P!Boards(Nodes(hp)')
  BY DEF Listed, On, Nodes, P!Boards
<1>2. \A b : Listed(b, open)' <=> b \in P!Boards(Nodes(open)')
  BY DEF Listed, On, Nodes, P!Boards
<1>3. FilterAt(w, k)'
  <2>1. \A i \in 1 .. (k - 1) : ~Listed(heap[w[i]].node.board, hp)'
    BY DEF Listed, On, Nodes, P!Boards
  <2> QED
    BY <2>1 DEF FilterAt
<1>4. pc' = "filterClosed" => \A i \in 1 .. Len(w) : ~Listed(heap[w[i]].node.board, open)'
  BY DEF Listed, On, Nodes, P!Boards
<1>5. CASE ~Filtering'
  BY <1>5 DEF FilterOK
<1>6. CASE Filtering'
  <2>1. w = List(succ)'
    BY <1>6
  <2> QED
    BY <1>3, <1>4, <2>1 DEF FilterOK
<1> QED
  BY <1>5, <1>6

LEMMA FilterKeepsHInv == HInv /\ P!IInv /\ FilterKeeps => HInv' /\ UNCHANGED P!vars
<1> SUFFICES ASSUME HInv, P!IInv, FilterKeeps PROVE HInv' /\ UNCHANGED P!vars
  OBVIOUS
<1>1. /\ Filtering /\ loc.sp # NULL /\ ~Listed(heap[loc.sp].node.board, hp)
      /\ loc' = [lsp |-> LeftOf(loc), rsp |-> heap[loc.sp].next, sp |-> heap[loc.sp].next]
      /\ UNCHANGED <<strategy, start, heap, open, closed, cp, succ, leaf, path, outcome, pc, made, lastOpen>>
  BY DEF FilterKeeps, args, hist
<1>2. outcome = "searching" /\ path = <<>> /\ pc \in {"filterOpen", "filterClosed"}
  BY <1>1, AbsFacts DEF Filtering
<1>3. /\ Filtering' /\ WorkAt = succ /\ WorkAt' = WorkAt
      /\ Hand = {cp} /\ Hand' = {cp} /\ ~Unlisted /\ ~Unlisted' /\ List(WorkAt) = List(succ)
  BY <1>1, <1>2, WorkFilter DEF Filtering, WorkAt, Hand, Unlisted, InHand
<1>4. PICK W : W = List(succ)
  OBVIOUS
<1>5. Chain(heap, W, succ)
  BY <1>3, <1>4, HeapFacts DEF ListsOK
<1>6. /\ W \in Seq(Addr) /\ Len(W) \in Nat /\ \A i \in 1 .. Len(W) : W[i] \in Addr
      /\ \A i, j \in 1 .. Len(W) : W[i] = W[j] => i = j
      /\ \A i \in 1 .. Len(W) : heap[W[i]].next = At(W, i + 1)
      /\ NULL \notin Addr
  BY <1>5, ListFacts, HeapFacts DEF Chain
<1>11. HeapOK' /\ Addr' = Addr
  BY <1>1, HeapStays, HeapFacts DEF Addr
<1>12. List(open)' = List(open) /\ List(closed)' = List(closed) /\ List(WorkAt)' = W /\ List(succ)' = W
  <2>1. List(open)' = List(open) /\ List(closed)' = List(closed) /\ List(WorkAt)' = List(WorkAt)
    BY <1>1, <1>3, ListsStay
  <2>2. List(succ)' = List(WorkAt)'
    BY <1>1, <1>3, ListsNext
  <2> QED
    BY <1>3, <1>4, <2>1, <2>2
<1>13. ListsOK'
  BY <1>1, <1>3, <1>4, <1>11, <1>12, HeapFacts DEF ListsOK, Shared
<1>7. PICK k \in 1 .. (Len(W) + 1) : FilterAt(W, k)
  BY <1>1, <1>4 DEF HInv, FilterOK
<1>8. /\ Len(W) <= 4 /\ loc = [lsp |-> loc.lsp, rsp |-> loc.sp, sp |-> loc.sp]
      /\ \A i \in 1 .. Len(W) : heap[W[i]].node \in P!Node
      /\ pc = "filterClosed" => \A i \in 1 .. Len(W) : ~Listed(heap[W[i]].node.board, open)
  BY <1>1, <1>4 DEF HInv, FilterOK
<1>9. k \in 1 .. Len(W) /\ loc.sp = W[k]
  BY <1>1, <1>6, <1>7 DEF FilterAt, At
<1>10. Nodes(open)' = Nodes(open) /\ Nodes(closed)' = Nodes(closed) /\ Nodes(hp)' = Nodes(hp) /\ Nodes(succ)' = Nodes(succ)
  <2>1. Nodes(open)' = Nodes(open) /\ Nodes(closed)' = Nodes(closed)
    BY <1>1, <1>12, NodesStay
  <2>2. hp' = hp
    BY <1>1 DEF hp
  <2>3. Nodes(hp)' = Nodes(hp)
    BY <1>1, <2>1, <2>2 DEF hp
  <2>4. Nodes(succ)' = Nodes(succ)
    BY <1>1, <1>4, <1>12, NodesHere, NodesNext
  <2> QED
    BY <2>1, <2>3, <2>4
<1>18. FilterOK'
  <2>1. loc'.sp = heap[W[k]].next /\ loc' = [lsp |-> loc'.lsp, rsp |-> loc'.sp, sp |-> loc'.sp] /\ loc'.lsp = LeftOf(loc)
    BY <1>1, <1>9
  <2>2. loc'.sp = At(W, k + 1)
    BY <1>6, <1>9, <2>1
  <2>3. loc'.lsp = Behind(W, k + 1)
    <3>1. loc.lsp = Behind(W, k) /\ loc.rsp = W[k]
      BY <1>7, <1>8, <1>9 DEF FilterAt
    <3>2. CASE k = 1
      BY <1>6, <1>9, <2>1, <3>1, <3>2 DEF LeftOf, Behind, At
    <3>3. CASE k # 1
      <4>1. k - 1 \in 1 .. Len(W) /\ k - 1 # k /\ k + 1 - 1 = k /\ k + 1 # 1
        BY <1>9, <3>3
      <4>2. loc.lsp = W[k - 1] /\ W[k - 1] # W[k]
        BY <1>6, <1>9, <3>1, <3>3, <4>1 DEF Behind
      <4> QED
        BY <2>1, <3>1, <4>1, <4>2 DEF LeftOf, Behind
    <3> QED
      BY <3>2, <3>3
  <2>4. PICK n : n = k + 1
    OBVIOUS
  <2>5. n \in 1 .. (Len(W) + 1) /\ \A i \in 1 .. (n - 1) : i = k \/ i \in 1 .. (k - 1)
    BY <1>9, <2>4
  <2>6. \A i \in 1 .. (n - 1) : heap'[W[i]].node.board \notin P!Boards(Nodes(hp)')
    <3>1. \A i \in 1 .. (k - 1) : heap[W[i]].node.board \notin P!Boards(Nodes(hp))
      BY <1>7, ListedIs DEF FilterAt
    <3>2. heap[W[k]].node.board \notin P!Boards(Nodes(hp))
      BY <1>1, <1>9, ListedIs
    <3> QED
      BY <1>1, <1>10, <2>5, <3>1, <3>2
  <2>7. pc' = "filterClosed" =>
          \A i \in 1 .. Len(W) : heap'[W[i]].node.board \notin P!Boards(Nodes(open)')
    BY <1>1, <1>8, <1>10, ListedIs
  <2>8. loc'.sp = At(W, n) /\ loc'.lsp = Behind(W, n)
    BY <2>2, <2>3, <2>4
  <2>9. \A i \in 1 .. Len(W) : heap'[W[i]].node \in P!Node
    BY <1>1, <1>8
  <2>10. Filtering' => W = List(succ)'
    BY <1>12
  <2> QED
    BY <1>8, <2>1, <2>5, <2>6, <2>7, <2>8, <2>9, <2>10, FilterNext
<1>14. SmartOK' /\ MadeOK' /\ StartOK' /\ PointersOK'
  <2>1. SmartOK'
    BY <1>1, <1>2 DEF SmartOK
  <2>2. MadeOK'
    BY <1>1, <1>2 DEF MadeOK, HInv
  <2>3. StartOK'
    BY <1>1, <1>3, <1>4, <1>11, <1>12 DEF HInv, StartOK
  <2>4. PointersOK'
    BY <1>1, <1>2, <1>3, <1>11 DEF PointersOK, HInv
  <2> QED
    BY <2>1, <2>2, <2>3, <2>4
<1>15. HInv'
  BY <1>11, <1>13, <1>14, <1>18 DEF HInv
<1>16. AbsOpen' = AbsOpen /\ Nodes(closed)' = Nodes(closed) /\ AbsCp' = AbsCp
  BY <1>1, AbsStays
<1>17. AbsSucc' = AbsSucc /\ AbsTodo' = AbsTodo /\ AbsPc' = AbsPc
  BY <1>1, <1>3, <1>10, FilterAbs, FilterAbsNext
<1>19. UNCHANGED P!vars
  BY <1>1, <1>16, <1>17 DEF P!vars
<1> QED
  BY <1>15, <1>19

LEMMA SetNextFacts ==
  ASSUME NEW h, NEW a, NEW p, \A c \in DOMAIN h : h[c] = [node |-> h[c].node, next |-> h[c].next]
  PROVE  /\ DOMAIN SetNext(h, a, p) = DOMAIN h
         /\ \A c \in DOMAIN h : /\ SetNext(h, a, p)[c].node = h[c].node
                                /\ SetNext(h, a, p)[c].next = IF c = a THEN p ELSE h[c].next
                                /\ SetNext(h, a, p)[c] = [node |-> SetNext(h, a, p)[c].node,
                                                          next |-> SetNext(h, a, p)[c].next]
                                /\ c # a => SetNext(h, a, p)[c] = h[c]
<1>1. DOMAIN SetNext(h, a, p) = DOMAIN h
  BY DEF SetNext
<1>2. \A c \in DOMAIN h : c # a => SetNext(h, a, p)[c] = h[c]
  BY DEF SetNext
<1>3. ASSUME a \in DOMAIN h PROVE SetNext(h, a, p)[a] = [node |-> h[a].node, next |-> p]
  <2>1. SetNext(h, a, p)[a] = [h[a] EXCEPT !.next = p]
    BY <1>3 DEF SetNext
  <2>2. h[a] = [node |-> h[a].node, next |-> h[a].next]
    BY <1>3
  <2> QED
    BY <2>1, <2>2
<1>4. \A c \in DOMAIN h : c = a => SetNext(h, a, p)[c].node = h[c].node /\ SetNext(h, a, p)[c].next = p
        /\ SetNext(h, a, p)[c] = [node |-> SetNext(h, a, p)[c].node, next |-> SetNext(h, a, p)[c].next]
  BY <1>3
<1> QED
  BY <1>1, <1>2, <1>4

\* A list whose nodes a step leaves alone.
LEMMA Untouched ==
  ASSUME HInv, NEW L, NEW p, Chain(heap, L, p),
         \A a \in Elems(L) : a \in DOMAIN heap' /\ heap'[a] = heap[a]
  PROVE  Chain(heap', L, p) /\ NodesIn(heap', L) = NodesIn(heap, L)
<1>1. L \in Seq(Addr)
  BY ListFacts
<1>2. Chain(heap', L, p)
  BY ChainSame
<1>3. NodesIn(heap', L) = NodesIn(heap, L)
  BY <1>1, NodesInSame
<1> QED
  BY <1>2, <1>3

LEMMA FilterDropsHInv == HInv /\ P!IInv /\ FilterDrops => HInv' /\ UNCHANGED P!vars
<1> SUFFICES ASSUME HInv, P!IInv, FilterDrops PROVE HInv' /\ UNCHANGED P!vars
  OBVIOUS
<1>4. PICK W : W = List(succ)
  OBVIOUS
<1>25. Filtering /\ loc.sp # NULL
  BY DEF FilterDrops
<1>7. PICK k \in 1 .. (Len(W) + 1) : FilterAt(W, k)
  BY <1>4, <1>25 DEF HInv, FilterOK
<1>26. WorkAt = succ /\ List(WorkAt) = List(succ)
  BY <1>25, WorkFilter
<1>5. Chain(heap, W, succ)
  BY <1>26, <1>4, HeapFacts DEF ListsOK
<1>6. /\ W \in Seq(Addr) /\ Len(W) \in Nat /\ \A i \in 1 .. Len(W) : W[i] \in Addr
      /\ \A i, j \in 1 .. Len(W) : W[i] = W[j] => i = j
      /\ \A i \in 1 .. Len(W) : heap[W[i]].next = At(W, i + 1)
      /\ NULL \notin Addr
  BY <1>5, ListFacts, HeapFacts DEF Chain
<1>8. /\ Len(W) <= 4 /\ loc = [lsp |-> loc.lsp, rsp |-> loc.sp, sp |-> loc.sp]
      /\ \A i \in 1 .. Len(W) : heap[W[i]].node \in P!Node
      /\ pc = "filterClosed" => \A i \in 1 .. Len(W) : ~Listed(heap[W[i]].node.board, open)
  BY <1>25, <1>4 DEF HInv, FilterOK
<1>9. k \in 1 .. Len(W) /\ loc.sp = W[k] /\ loc.rsp = W[k] /\ loc.lsp = Behind(W, k)
  <2>1. k \in 1 .. Len(W) /\ loc.sp = W[k] /\ loc.lsp = Behind(W, k)
    BY <1>25, <1>6, <1>7 DEF FilterAt, At
  <2>2. loc.rsp = loc.sp
    BY <1>8
  <2> QED
    BY <2>1, <2>2
<1>27. loc.lsp = loc.rsp <=> k = 1
  <2>1. CASE k = 1
    BY <1>6, <1>9, <2>1 DEF Behind, At
  <2>2. CASE k # 1
    <3>1. k - 1 \in 1 .. Len(W) /\ k - 1 # k
      BY <1>9, <2>2
    <3> QED
      BY <1>6, <1>9, <2>2, <3>1 DEF Behind
  <2> QED
    BY <2>1, <2>2
<1>28. k # 1 => loc.lsp = W[k - 1] /\ k - 1 \in 1 .. Len(W) /\ k - 1 # k
  BY <1>9 DEF Behind
<1> DEFINE next == heap[W[k]].next
           g == IF k = 1 THEN heap ELSE SetNext(heap, W[k - 1], next)
<1>1. /\ Filtering /\ Listed(heap[W[k]].node.board, hp)
      /\ loc' = [lsp |-> IF k = 1 THEN next ELSE loc.lsp, rsp |-> next, sp |-> next]
      /\ succ' = IF k = 1 THEN next ELSE succ
      /\ heap' = Free(g, W[k])
      /\ UNCHANGED <<strategy, start, open, closed, cp, leaf, path, outcome, pc, made, lastOpen>>
  BY <1>9, <1>27, <1>28 DEF FilterDrops, args, hist, Bypassed
<1>2. outcome = "searching" /\ path = <<>> /\ pc \in {"filterOpen", "filterClosed"}
  BY <1>1, AbsFacts DEF Filtering
<1>3. /\ Filtering' /\ WorkAt' = succ' /\ List(WorkAt)' = List(succ)'
      /\ Hand = {cp} /\ Hand' = {cp} /\ ~Unlisted /\ ~Unlisted'
  <2>1. Filtering' /\ Hand = {cp} /\ Hand' = {cp} /\ ~Unlisted /\ ~Unlisted'
    BY <1>1, <1>2 DEF Filtering, Hand, Unlisted, InHand
  <2> QED
    BY <2>1, WorkFilterNext
<1>10. /\ DOMAIN g = Addr
       /\ \A c \in Addr : /\ g[c].node = heap[c].node
                          /\ g[c].next = IF k > 1 /\ c = W[k - 1] THEN next ELSE heap[c].next
                          /\ g[c] = [node |-> g[c].node, next |-> g[c].next]
                          /\ c \notin Elems(W) => g[c] = heap[c]
  <2>1. Addr = DOMAIN heap /\ \A c \in Addr : heap[c] = [node |-> heap[c].node, next |-> heap[c].next]
    BY HeapFacts
  <2>2. CASE k = 1
    BY <2>1, <2>2
  <2>3. CASE k # 1
    <3>1. k > 1 /\ W[k - 1] \in Elems(W)
      BY <1>9, <1>28, <2>3 DEF Elems
    <3> DEFINE x == W[k - 1]
    <3>2. g = SetNext(heap, x, next) /\ x \in Elems(W)
      BY <2>3, <3>1
    <3> HIDE DEF g, x, next
    <3>6. \A c \in DOMAIN heap : heap[c] = [node |-> heap[c].node, next |-> heap[c].next]
      BY <2>1
    <3>3. /\ DOMAIN g = DOMAIN heap
          /\ \A c \in DOMAIN heap : /\ g[c].node = heap[c].node
                                    /\ g[c].next = IF c = x THEN next ELSE heap[c].next
                                    /\ g[c] = [node |-> g[c].node, next |-> g[c].next]
                                    /\ c # x => g[c] = heap[c]
      BY <3>2, <3>6, SetNextFacts
    <3>4. \A c \in Addr : c \notin Elems(W) => c # x
      BY <3>2
    <3>5. \A c : (k > 1 /\ c = W[k - 1]) <=> c = x
      BY <3>1 DEF x
    <3> QED
      BY <2>1, <3>3, <3>4, <3>5
  <2> QED
    BY <2>2, <2>3
<1> HIDE DEF g
<1>29. W[k] \in Elems(W) /\ W[k] \in Addr
  BY <1>6, <1>9 DEF Elems
<1>30. /\ DOMAIN heap' = Addr \ {W[k]}
       /\ \A c \in Addr \ {W[k]} : /\ heap'[c].node = heap[c].node
                                   /\ heap'[c].next = IF k > 1 /\ c = W[k - 1] THEN next ELSE heap[c].next
                                   /\ heap'[c] = [node |-> heap'[c].node, next |-> heap'[c].next]
                                   /\ c \notin Elems(W) => heap'[c] = heap[c]
  <2>1. heap' = [c \in Addr \ {W[k]} |-> g[c]]
    BY <1>1, <1>10 DEF Free
  <2> HIDE DEF next
  <2> QED
    BY <1>10, <2>1
<1>11. HeapOK' /\ Addr' = Addr \ {W[k]}
  <2>1. IsFiniteSet(Addr) /\ Addr \subseteq Nat
    BY HeapFacts
  <2>2. IsFiniteSet(Addr \ {W[k]})
    BY <2>1, FS_Subset
  <2> QED
    BY <1>30, <2>1, <2>2 DEF HeapOK, Addr
<1> DEFINE V == Without(W, k)
<1>31. /\ V \in Seq(Addr) /\ Len(V) = Len(W) - 1 /\ Len(V) \in Nat
       /\ \A i \in 1 .. (Len(W) - 1) : V[i] = IF i < k THEN W[i] ELSE W[i + 1]
       /\ Elems(V) = Elems(W) \ {W[k]}
  <2>1. W \in Seq(Addr) /\ k \in 1 .. Len(W)
    BY <1>6, <1>9
  <2> HIDE DEF V
  <2>2. /\ V \in Seq(Addr) /\ Len(V) = Len(W) - 1
        /\ \A i \in 1 .. (Len(W) - 1) : V[i] = IF i < k THEN W[i] ELSE W[i + 1]
    BY <2>1, WithoutFacts DEF V
  <2>3. \A i, l \in 1 .. Len(W) : W[i] = W[l] => i = l
    BY <1>6
  <2>4. Elems(V) = Elems(W) \ {W[k]}
    BY <2>1, <2>3, ElemsWithout DEF V
  <2>5. Len(V) \in Nat
    BY <2>2
  <2> QED
    BY <2>2, <2>4, <2>5
<1>32. Chain(heap', V, succ')
  <2>1. \A a \in Elems(W) \ {W[k]} :
            a \in DOMAIN heap' /\ heap'[a].next = IF k > 1 /\ a = W[k - 1] THEN heap[W[k]].next ELSE heap[a].next
    <3>1. Elems(W) \subseteq Addr
      BY <1>6, ElemsIn
    <3> QED
      BY <1>30, <3>1
  <2>2. Chain(heap', V, IF k = 1 THEN heap[W[k]].next ELSE succ)
    BY <1>5, <1>9, <2>1, ChainWithout
  <2> QED
    BY <1>1, <2>2
<1> HIDE DEF V, next
<1>33. /\ Chain(heap, List(open), open) /\ Chain(heap, List(closed), closed)
       /\ Shared(List(open), List(closed), W, {cp}, Addr)
       /\ heap[cp].next = NULL /\ cp \in Addr
  <2>1. Shared(List(open), List(closed), W, {cp}, Addr)
    BY <1>3, <1>4, <1>26, HeapFacts DEF ListsOK
  <2>2. cp \in Addr
    BY <2>1 DEF Shared
  <2> QED
    BY <1>3, <2>1, <2>2, HeapFacts DEF ListsOK
<1>34. /\ \A a \in Elems(List(open)) : a \in DOMAIN heap' /\ heap'[a] = heap[a]
       /\ \A a \in Elems(List(closed)) : a \in DOMAIN heap' /\ heap'[a] = heap[a]
       /\ cp \in DOMAIN heap' /\ heap'[cp] = heap[cp]
  BY <1>29, <1>30, <1>33 DEF Shared
<1>35. /\ Chain(heap', List(open), open) /\ NodesIn(heap', List(open)) = NodesIn(heap, List(open))
       /\ Chain(heap', List(closed), closed) /\ NodesIn(heap', List(closed)) = NodesIn(heap, List(closed))
  BY <1>33, <1>34, Untouched
<1>12. List(open)' = List(open) /\ List(closed)' = List(closed) /\ List(WorkAt)' = V /\ List(succ)' = V
  <2>1. Chain(heap', List(open), open') /\ Chain(heap', List(closed), closed') /\ Chain(heap', V, WorkAt')
    BY <1>1, <1>3, <1>32, <1>35
  <2>2. List(open)' = List(open) /\ List(closed)' = List(closed) /\ List(WorkAt)' = V
    BY <1>11, <2>1, ListsAfter
  <2> QED
    BY <1>3, <2>2
<1>13. ListsOK'
  <2>1. Shared(List(open), List(closed), V, {cp}, Addr')
    BY <1>11, <1>29, <1>31, <1>33 DEF Shared
  <2>2. Chain(heap', List(open), open') /\ Chain(heap', List(closed), closed') /\ Chain(heap', V, WorkAt')
    BY <1>1, <1>3, <1>32, <1>35
  <2>3. heap'[cp'].next = NULL /\ cp' = cp
    BY <1>1, <1>33, <1>34
  <2> QED
    BY <1>3, <1>12, <2>1, <2>2, <2>3 DEF ListsOK
<1>36. /\ Nodes(open)' = Nodes(open) /\ Nodes(closed)' = Nodes(closed) /\ Nodes(hp)' = Nodes(hp)
       /\ AbsCp' = AbsCp
  <2>1. Nodes(open)' = Nodes(open) /\ Nodes(closed)' = Nodes(closed)
    BY <1>12, <1>35, NodesHere, NodesNext
  <2>2. Nodes(hp)' = Nodes(hp)
    BY <1>1, <2>1 DEF hp
  <2> QED
    BY <1>1, <1>34, <2>1, <2>2 DEF AbsCp
<1>37. \A i \in 1 .. Len(V) : \E j \in 1 .. Len(W) : /\ V[i] = W[j] /\ (i < k => j = i)
                                                      /\ heap'[V[i]].node = heap[W[j]].node
  <2> SUFFICES ASSUME NEW i \in 1 .. Len(V)
               PROVE  \E j \in 1 .. Len(W) : /\ V[i] = W[j] /\ (i < k => j = i)
                                             /\ heap'[V[i]].node = heap[W[j]].node
    OBVIOUS
  <2>1. \E j \in 1 .. Len(W) : V[i] = W[j] /\ (i < k => j = i)
    <3>1. i \in 1 .. Len(W) /\ i + 1 \in 1 .. Len(W) /\ i \in 1 .. (Len(W) - 1)
      BY <1>6, <1>31
    <3>2. V[i] = IF i < k THEN W[i] ELSE W[i + 1]
      BY <1>31, <3>1
    <3> QED
      BY <3>1, <3>2
  <2>2. V[i] \in Elems(V)
    BY DEF Elems
  <2>3. V[i] \in Addr \ {W[k]}
    BY <1>31, <2>2
  <2>4. heap'[V[i]].node = heap[V[i]].node
    BY <1>30, <2>3
  <2> QED
    BY <2>1, <2>4
<1>18. FilterOK'
  <2>1. loc'.sp = next /\ loc' = [lsp |-> loc'.lsp, rsp |-> loc'.sp, sp |-> loc'.sp]
        /\ loc'.lsp = IF k = 1 THEN next ELSE loc.lsp
    BY <1>1
  <2>2. next = At(V, k)
    <3>1. next = At(W, k + 1)
      BY <1>6, <1>9 DEF next
    <3>2. k + 1 \in 1 .. Len(W) <=> k \in 1 .. Len(V)
      BY <1>6, <1>9, <1>31
    <3>3. k \in 1 .. Len(V) => V[k] = W[k + 1]
      BY <1>31, <1>9
    <3> QED
      BY <3>1, <3>2, <3>3 DEF At
  <2>3. loc'.lsp = Behind(V, k)
    <3>1. CASE k = 1
      BY <2>1, <2>2, <3>1 DEF Behind
    <3>2. CASE k # 1
      <4>1. k - 1 \in 1 .. (Len(W) - 1) /\ k - 1 < k
        BY <1>6, <1>9, <3>2
      <4>2. V[k - 1] = W[k - 1]
        BY <1>31, <4>1
      <4> QED
        BY <1>28, <2>1, <3>2, <4>2 DEF Behind
    <3> QED
      BY <3>1, <3>2
  <2>5. k \in 1 .. (Len(V) + 1) /\ Len(V) <= 4
    BY <1>6, <1>8, <1>9, <1>31
  <2>6. \A i \in 1 .. (k - 1) : heap'[V[i]].node.board \notin P!Boards(Nodes(hp)')
    <3>1. \A i \in 1 .. (k - 1) : heap[W[i]].node.board \notin P!Boards(Nodes(hp))
      BY <1>7, ListedIs DEF FilterAt
    <3>2. \A i \in 1 .. (k - 1) : i \in 1 .. Len(V) /\ i < k
      BY <1>6, <1>9, <1>31
    <3> QED
      BY <1>36, <1>37, <3>1, <3>2
  <2>7. pc' = "filterClosed" =>
          \A i \in 1 .. Len(V) : heap'[V[i]].node.board \notin P!Boards(Nodes(open)')
    BY <1>1, <1>8, <1>36, <1>37, ListedIs
  <2>8. loc'.sp = At(V, k)
    BY <2>1, <2>2
  <2>9. \A i \in 1 .. Len(V) : heap'[V[i]].node \in P!Node
    BY <1>8, <1>37
  <2>10. Filtering' => V = List(succ)'
    BY <1>12
  <2> QED
    BY <2>1, <2>3, <2>5, <2>6, <2>7, <2>8, <2>9, <2>10, FilterNext
<1>14. SmartOK' /\ MadeOK' /\ StartOK' /\ PointersOK'
  <2>1. SmartOK'
    BY <1>1, <1>2 DEF SmartOK
  <2>2. MadeOK'
    BY <1>1, <1>2 DEF MadeOK, HInv
  <2>3. StartOK'
    <3>1. 1 \in Addr /\ heap[1].node.board = start /\ 1 \notin Elems(W)
      BY <1>4, <1>26 DEF HInv, StartOK
    <3>2. 1 \in Addr \ {W[k]}
      BY <1>29, <3>1
    <3>3. heap'[1].node.board = start /\ 1 \notin Elems(V)
      BY <1>30, <1>31, <3>1, <3>2
    <3> QED
      BY <1>1, <1>2, <1>11, <1>12, <3>2, <3>3 DEF StartOK
  <2>4. PointersOK'
    <3>1. cp' \in Addr'
      BY <1>1, <1>34 DEF Addr
    <3>2. succ' = NULL \/ succ' \in Addr'
      <4>1. NULL \notin DOMAIN heap'
        BY <1>6, <1>30
      <4>2. succ' = NULL \/ succ' \in Elems(V)
        BY <1>32, <4>1, ChainHead
      <4> QED
        BY <1>6, <1>11, <1>31, <4>2, ElemsIn
    <3> QED
      BY <1>1, <1>2, <1>3, <3>1, <3>2 DEF PointersOK
  <2> QED
    BY <2>1, <2>2, <2>3, <2>4
<1>15. HInv'
  BY <1>11, <1>13, <1>14, <1>18 DEF HInv
<1>16. AbsOpen' = AbsOpen
  BY <1>1, <1>36 DEF AbsOpen
<1>17. AbsSucc' = AbsSucc
  <2> DEFINE s == Nodes(succ)
             o == Nodes(open)
             c == Nodes(closed)
             t == Without(s, k)
  <2>1. s = NodesIn(heap, W) /\ Nodes(succ)' = NodesIn(heap', V)
    BY <1>4, <1>12, NodesHere, NodesNext
  <2>2. /\ s \in Seq(P!Node) /\ Len(s) = Len(W) /\ \A i \in 1 .. Len(W) : s[i] = heap[W[i]].node
    <3>1. s \in Seq(P!Node)
      BY <1>6, <1>8, <2>1, NodesInType
    <3>2. Len(s) = Len(W) /\ \A i \in 1 .. Len(W) : s[i] = heap[W[i]].node
      <4>1. W \in Seq(Addr)
        BY <1>6
      <4>2. /\ Len(NodesIn(heap, W)) = Len(W)
            /\ \A i \in 1 .. Len(W) : NodesIn(heap, W)[i] = heap[W[i]].node
        BY <4>1, NodesInFacts
      <4> QED
        BY <2>1, <4>2
    <3> QED
      BY <3>1, <3>2
  <2>3. NodesIn(heap', V) = NodesIn(heap, V)
    <3>1. \A a \in Elems(V) : heap'[a].node = heap[a].node
      <4>1. Elems(V) \subseteq Addr \ {W[k]}
        BY <1>6, <1>31, ElemsIn
      <4> QED
        BY <1>30, <4>1
    <3> QED
      BY <1>31, <3>1, NodesInSame
  <2>4. NodesIn(heap, V) = t
    BY <1>6, <1>9, <2>1, NodesInWithout DEF V
  <2>5. Nodes(succ)' = t
    BY <2>1, <2>3, <2>4
  <2>6. AbsSucc = P!filter(P!filter(s, o), c) /\ AbsSucc' = P!filter(P!filter(t, o), c)
    BY <1>1, <1>3, <1>36, <2>5, FilterAbs, FilterAbsNext
  <2>7. k \in 1 .. Len(s) /\ Len(s) <= 4
    BY <1>8, <1>9, <2>2
  <2>8. s[k].board \in P!Boards(Nodes(hp))
    BY <1>1, <1>9, <2>2, ListedIs
  <2> HIDE DEF s, o, c
  <2>9. CASE pc = "filterOpen"
    <3>1. s[k].board \in P!Boards(o)
      BY <2>8, <2>9 DEF hp, o
    <3>2. P!filter(t, o) = P!filter(s, o)
      BY <2>2, <2>7, <3>1, FilterWithout
    <3> QED
      BY <2>6, <3>2
  <2>10. CASE pc = "filterClosed"
    <3>1. s[k].board \in P!Boards(c)
      BY <2>8, <2>10 DEF hp, c
    <3>2. P!filter(t, c) = P!filter(s, c)
      BY <2>2, <2>7, <3>1, FilterWithout
    <3>3. \A i \in 1 .. Len(s) : s[i].board \notin P!Boards(o)
      BY <1>8, <2>2, <2>10, ListedIs DEF o
    <3>4. P!filter(s, o) = s
      BY <2>2, <2>7, <3>3, FilterAll
    <3>5. t \in Seq(P!Node) /\ Len(t) = Len(s) - 1 /\ Len(s) \in Nat
          /\ \A i \in 1 .. (Len(s) - 1) : t[i] = IF i < k THEN s[i] ELSE s[i + 1]
      BY <1>6, <2>2, <2>7, WithoutFacts
    <3>6. \A i \in 1 .. Len(t) : t[i].board \notin P!Boards(o)
      <4> SUFFICES ASSUME NEW i \in 1 .. Len(t) PROVE t[i].board \notin P!Boards(o)
        OBVIOUS
      <4>1. i \in 1 .. (Len(s) - 1) /\ i \in 1 .. Len(s) /\ i + 1 \in 1 .. Len(s)
        BY <3>5
      <4> HIDE DEF t
      <4>2. t[i] = s[i] \/ t[i] = s[i + 1]
        BY <3>5, <4>1
      <4> QED
        BY <3>3, <4>1, <4>2
    <3>7. Len(t) <= 4
      BY <2>7, <3>5
    <3> HIDE DEF t
    <3>8. P!filter(t, o) = t
      BY <3>5, <3>6, <3>7, FilterAll
    <3> QED
      BY <2>6, <3>2, <3>4, <3>8
  <2> QED
    BY <1>2, <2>9, <2>10
<1>20. AbsTodo' = AbsTodo /\ AbsPc' = AbsPc
  BY <1>1, <1>3, <1>17, FilterAbs, FilterAbsNext
<1>19. UNCHANGED P!vars
  BY <1>1, <1>16, <1>17, <1>20, <1>36 DEF P!vars
<1> QED
  BY <1>15, <1>19

\* filter has looked at every node of its list.
LEMMA FilterEnd ==
  ASSUME HInv, Filtering, loc.sp = NULL
  PROVE  /\ \A i \in 1 .. Len(List(succ)) :
               heap[List(succ)[i]].node.board \notin P!Boards(Nodes(hp))
         /\ pc = "filterClosed" => \A i \in 1 .. Len(List(succ)) :
               heap[List(succ)[i]].node.board \notin P!Boards(Nodes(open))
<1>4. PICK W : W = List(succ)
  OBVIOUS
<1>5. Chain(heap, W, succ)
  BY <1>4, WorkFilter, HeapFacts DEF ListsOK
<1>6. Len(W) \in Nat /\ \A i \in 1 .. Len(W) : W[i] \in Addr /\ NULL \notin Addr
  BY <1>5, ListFacts, HeapFacts
<1>7. PICK k \in 1 .. (Len(W) + 1) : FilterAt(W, k)
  BY <1>4 DEF HInv, FilterOK
<1>8. k = Len(W) + 1
  BY <1>6, <1>7 DEF FilterAt, At
<1>9. \A i \in 1 .. Len(W) : ~Listed(heap[W[i]].node.board, hp)
  BY <1>6, <1>7, <1>8 DEF FilterAt
<1>10. pc = "filterClosed" => \A i \in 1 .. Len(W) : ~Listed(heap[W[i]].node.board, open)
  BY <1>4 DEF HInv, FilterOK
<1> QED
  BY <1>4, <1>9, <1>10, ListedIs

LEMMA FilterReturnsHInv == HInv /\ P!IInv /\ FilterReturns => HInv' /\ UNCHANGED P!vars
<1> SUFFICES ASSUME HInv, P!IInv, FilterReturns PROVE HInv' /\ UNCHANGED P!vars
  OBVIOUS
<1>4. PICK W : W = List(succ)
  OBVIOUS
<1>1. /\ Filtering /\ loc.sp = NULL
      /\ UNCHANGED <<strategy, start, heap, open, closed, cp, succ, leaf, path, outcome, lastOpen>>
      /\ pc = "filterOpen" => loc' = FilterCall(succ) /\ pc' = "filterClosed" /\ made' = made
      /\ pc = "filterClosed" => /\ pc' = IF succ = NULL THEN "close" ELSE "merge"
                                /\ made' = [i \in DOMAIN W |-> [addr |-> W[i], node |-> heap[W[i]].node]]
  BY <1>4 DEF FilterReturns, args, Filtering
<1>2. outcome = "searching" /\ path = <<>> /\ pc \in {"filterOpen", "filterClosed"}
  BY <1>1, AbsFacts DEF Filtering
<1>3. WorkAt = succ /\ List(WorkAt) = List(succ)
  BY <1>1, WorkFilter
<1>5. Chain(heap, W, succ)
  BY <1>3, <1>4, HeapFacts DEF ListsOK
<1>6. /\ W \in Seq(Addr) /\ Len(W) \in Nat /\ \A i \in 1 .. Len(W) : W[i] \in Addr
      /\ \A i, j \in 1 .. Len(W) : W[i] = W[j] => i = j
      /\ NULL \notin Addr
      /\ succ = NULL <=> Len(W) = 0
      /\ succ # NULL => succ = W[1]
  BY <1>5, ListFacts, HeapFacts
<1>7. DOMAIN W = 1 .. Len(W)
  BY <1>6
<1>8. /\ Len(W) <= 4
      /\ \A i \in 1 .. Len(W) : heap[W[i]].node \in P!Node
      /\ \A i \in 1 .. Len(W) : heap[W[i]].node.board \notin P!Boards(Nodes(hp))
      /\ pc = "filterClosed" => \A i \in 1 .. Len(W) : heap[W[i]].node.board \notin P!Boards(Nodes(open))
  <2>1. /\ Len(W) <= 4
        /\ \A i \in 1 .. Len(W) : heap[W[i]].node \in P!Node
    BY <1>1, <1>4 DEF HInv, FilterOK
  <2> QED
    BY <1>1, <1>4, <2>1, FilterEnd
<1>11. HeapOK' /\ Addr' = Addr
  BY <1>1, HeapStays, HeapFacts DEF Addr
<1>9. /\ WorkAt' = IF pc' = "close" THEN NULL ELSE succ
      /\ Hand = {cp} /\ Hand' = {cp} /\ ~Unlisted /\ ~Unlisted'
  BY <1>1, <1>2 DEF Filtering, WorkAt, Hand, Unlisted, InHand
<1>10. Chain(heap', W, WorkAt')
  <2>1. CASE pc' = "close"
    <3>1. pc = "filterClosed" /\ succ = NULL
      BY <1>1, <1>2, <2>1
    <3> QED
      BY <1>1, <1>5, <1>9, <2>1, <3>1
  <2>2. CASE pc' # "close"
    BY <1>1, <1>5, <1>9, <2>2
  <2> QED
    BY <2>1, <2>2
<1>12. /\ List(open)' = List(open) /\ List(closed)' = List(closed) /\ List(WorkAt)' = W
       /\ List(succ)' = W
  <2>1. Chain(heap', List(open), open') /\ Chain(heap', List(closed), closed')
    BY <1>1, HeapFacts DEF ListsOK
  <2>2. List(open)' = List(open) /\ List(closed)' = List(closed) /\ List(WorkAt)' = W
    BY <1>10, <1>11, <2>1, ListsAfter
  <2>3. List(succ)' = List(succ)
    BY <1>1, ListsHere, ListsNext
  <2> QED
    BY <1>4, <2>2, <2>3
<1>13. ListsOK'
  BY <1>1, <1>3, <1>4, <1>9, <1>10, <1>11, <1>12, HeapFacts DEF ListsOK, Shared
<1>14. Nodes(open)' = Nodes(open) /\ Nodes(closed)' = Nodes(closed) /\ Nodes(succ)' = Nodes(succ)
       /\ Nodes(succ) = NodesIn(heap, W)
  <2>1. Nodes(open)' = Nodes(open) /\ Nodes(closed)' = Nodes(closed)
    BY <1>1, <1>12, NodesStay
  <2> QED
    BY <1>1, <1>4, <1>12, <2>1, NodesHere, NodesNext
<1>15. StartOK' /\ PointersOK'
  <2>1. StartOK'
    BY <1>1, <1>2, <1>3, <1>4, <1>11, <1>12 DEF HInv, StartOK
  <2>2. PointersOK'
    BY <1>1, <1>2, <1>9, <1>11 DEF PointersOK, HInv
  <2> QED
    BY <2>1, <2>2
<1>16. AbsOpen' = AbsOpen /\ Nodes(closed)' = Nodes(closed) /\ AbsCp' = AbsCp
  BY <1>1, AbsStays
<1>20. CASE pc = "filterOpen"
  <2>1. loc' = FilterCall(succ) /\ pc' = "filterClosed" /\ made' = made /\ Filtering'
    BY <1>1, <1>20 DEF Filtering
  <2>2. FilterOK'
    <3>1. At(W, 1) = succ
      BY <1>6 DEF At
    <3>2. loc'.sp = At(W, 1) /\ loc'.lsp = Behind(W, 1) /\ loc' = [lsp |-> loc'.lsp, rsp |-> loc'.sp, sp |-> loc'.sp]
      BY <2>1, <3>1 DEF FilterCall, Behind
    <3>3. PICK n : n = 1
      OBVIOUS
    <3>4. n \in 1 .. (Len(W) + 1) /\ loc'.sp = At(W, n) /\ loc'.lsp = Behind(W, n)
          /\ \A i \in 1 .. (n - 1) : heap'[W[i]].node.board \notin P!Boards(Nodes(hp)')
      BY <1>6, <3>2, <3>3
    <3>5. \A i \in 1 .. Len(W) : heap'[W[i]].node.board \notin P!Boards(Nodes(open)')
      BY <1>1, <1>8, <1>14, <1>20 DEF hp
    <3>6. \A i \in 1 .. Len(W) : heap'[W[i]].node \in P!Node
      BY <1>1, <1>8
    <3>7. W = List(succ)'
      BY <1>12
    <3> QED
      BY <1>8, <3>2, <3>4, <3>5, <3>6, <3>7, FilterNext
  <2>3. MadeOK' /\ SmartOK'
    BY <2>1 DEF MadeOK, SmartOK, HInv
  <2>4. AbsSucc' = AbsSucc /\ AbsTodo' = AbsTodo /\ AbsPc' = AbsPc
    BY <1>1, <1>14, <2>1, FilterAbs, FilterAbsNext
  <2>5. UNCHANGED P!vars
    BY <1>1, <1>16, <2>4 DEF P!vars
  <2> QED
    BY <1>11, <1>13, <1>15, <2>2, <2>3, <2>5 DEF HInv
<1>21. CASE pc = "filterClosed"
  <2>1. /\ pc' = IF succ = NULL THEN "close" ELSE "merge"
        /\ made' = [i \in 1 .. Len(W) |-> [addr |-> W[i], node |-> heap[W[i]].node]]
        /\ ~Filtering'
    BY <1>1, <1>7, <1>21 DEF Filtering
  <2>2. DOMAIN made' = 1 .. Len(W) /\ \A i \in 1 .. Len(W) : made'[i].addr = W[i] /\ made'[i].node = heap[W[i]].node
    BY <2>1
  <2>3. Len(made') = Len(W)
    <3>1. PICK S : S = {made'[i] : i \in 1 .. Len(W)}
      OBVIOUS
    <3>2. made' = [i \in 1 .. Len(W) |-> made'[i]] /\ \A i \in 1 .. Len(W) : made'[i] \in S
      BY <2>1, <3>1
    <3> QED
      BY <1>6, <3>2, SeqIs
  <2>4. MadeOK'
    <3>1. made' = [i \in 1 .. Len(made') |-> made'[i]] /\ Len(made') \in Nat
      BY <1>6, <2>1, <2>2, <2>3
    <3>2. \A i \in 1 .. Len(made') : /\ made'[i].addr \in Elems(List(open)') \cup Elems(List(WorkAt)')
                                     /\ heap'[made'[i].addr].node = made'[i].node
      BY <1>1, <1>12, <2>2, <2>3 DEF Elems
    <3>3. \A i, j \in 1 .. Len(made') : made'[i].addr = made'[j].addr => i = j
      BY <1>6, <2>2, <2>3
    <3>4. succ' = IF Len(made') = 0 THEN NULL ELSE made'[1].addr
      BY <1>1, <1>6, <2>2, <2>3
    <3>5. pc' \in {"merge", "smart"} => Len(made') >= 1
      BY <1>6, <2>1, <2>3
    <3>6. List(succ)' = [i \in 1 .. Len(made') |-> made'[i].addr]
      <4>1. W = [i \in 1 .. Len(W) |-> W[i]]
        BY <1>6
      <4> QED
        BY <1>12, <2>2, <2>3, <4>1
    <3> QED
      BY <3>1, <3>2, <3>3, <3>4, <3>5, <3>6 DEF MadeOK
  <2>5. FilterOK' /\ SmartOK'
    BY <2>1 DEF FilterOK, SmartOK
  <2>6. AbsSucc = Nodes(succ) /\ DOMAIN AbsSucc = 1 .. Len(W) /\ AbsSucc = [i \in 1 .. Len(W) |-> heap[W[i]].node]
    <3> DEFINE s == Nodes(succ)
               o == Nodes(open)
               c == Nodes(closed)
    <3>1. /\ DOMAIN NodesIn(heap, W) = 1 .. Len(W) /\ Len(NodesIn(heap, W)) = Len(W)
          /\ NodesIn(heap, W) = [i \in 1 .. Len(W) |-> heap[W[i]].node]
          /\ \A i \in 1 .. Len(W) : NodesIn(heap, W)[i] = heap[W[i]].node
      <4>1. W \in Seq(Addr)
        BY <1>6
      <4> QED
        BY <4>1, NodesInFacts
    <3>2. NodesIn(heap, W) \in Seq(P!Node)
      BY <1>6, <1>8, NodesInType
    <3>3. s \in Seq(P!Node) /\ Len(s) = Len(W) /\ \A i \in 1 .. Len(W) : s[i] = heap[W[i]].node
      BY <1>14, <3>1, <3>2
    <3>4. AbsSucc = P!filter(P!filter(s, o), c)
      BY <1>1, FilterAbs
    <3>5. /\ \A i \in 1 .. Len(s) : s[i].board \notin P!Boards(o)
          /\ \A i \in 1 .. Len(s) : s[i].board \notin P!Boards(c)
      BY <1>8, <1>21, <3>3 DEF hp
    <3>6. Len(s) <= 4
      BY <1>8, <3>3
    <3>7. AbsSucc = s
      <4> HIDE DEF s, o, c
      <4>1. P!filter(s, o) = s
        BY <3>3, <3>5, <3>6, FilterAll
      <4>2. P!filter(s, c) = s
        BY <3>3, <3>5, <3>6, FilterAll
      <4> QED
        BY <3>4, <4>1, <4>2
    <3> QED
      BY <1>14, <3>1, <3>7
  <2>7. AbsSucc' = AbsSucc
    <3>1. AbsSucc' = [i \in 1 .. Len(W) |-> made'[i].node]
      BY <2>1, <2>2 DEF AbsSucc
    <3> QED
      BY <2>2, <2>6, <3>1
  <2>8. AbsTodo' = AbsTodo /\ AbsPc' = AbsPc
    <3>1. AbsTodo = 1 .. Len(W) /\ AbsPc = IF AbsTodo = {} THEN "close" ELSE "merge"
      BY <1>1, <2>6, FilterAbs
    <3>2. CASE succ = NULL
      <4>1. pc' = "close" /\ Len(W) = 0
        BY <1>6, <2>1, <3>2
      <4>2. AbsTodo' = {} /\ AbsPc' = "close"
        BY <4>1, <2>1 DEF AbsTodo, AbsPc
      <4> QED
        BY <3>1, <4>1, <4>2
    <3>3. CASE succ # NULL
      <4>1. pc' = "merge" /\ Len(W) >= 1
        BY <1>6, <2>1, <3>3
      <4>2. AbsTodo' = 1 .. Len(W) /\ AbsPc' = "merge"
        BY <4>1, <2>1, <2>2 DEF AbsTodo, AbsPc
      <4>3. 1 \in 1 .. Len(W)
        BY <1>6, <4>1
      <4> QED
        BY <3>1, <4>2, <4>3
    <3> QED
      BY <3>2, <3>3
  <2>9. UNCHANGED P!vars
    BY <1>1, <1>16, <2>7, <2>8 DEF P!vars
  <2> QED
    BY <1>11, <1>13, <1>15, <2>4, <2>5, <2>9 DEF HInv
<1> QED
  BY <1>2, <1>20, <1>21

-----------------------------------------------------------------------------
(* The nodes that expand makes.                                            *)

\* A blank can always move to one side: expand makes a node.
LEMMA ExpandMakes ==
  ASSUME NEW n \in P!Node
  PROVE  /\ P!expand(n) \in Seq(P!Node) /\ Len(P!expand(n)) <= 4 /\ Len(P!expand(n)) >= 1
<1> DEFINE s == P!expand(n)
<1>1. s \in Seq(P!Node) /\ Len(s) <= 4
        /\ \A d \in P!Dir : P!CanMove(n.board, d) => P!MoveBlank(n.board, d) \in P!Boards(s)
  BY Assumptions, P!ExpandFacts
<1>2. n.board \in P!Board
  BY DEF P!Node
<1>3. P!Blank(n.board) \in P!Cell
  BY <1>2, Assumptions, P!BlankFacts
<1>4. \E d \in P!Dir : P!Target(P!Blank(n.board), d) \in P!Cell
  <2>1. PICK i \in P!Row, j \in P!Row : P!Blank(n.board) = <<i, j>>
    BY <1>3 DEF P!Cell
  <2>2. i \in 0 .. (N - 1) /\ j \in 0 .. (N - 1)
    BY <2>1 DEF P!Row
  <2>3. N \in Nat /\ N >= 2
    BY NAssumption
  <2>4. CASE j = 0
    <3>1. P!Target(P!Blank(n.board), "RT") = <<i, j + 1>>
      BY <2>1 DEF P!Target
    <3>2. j + 1 \in P!Row
      BY <2>3, <2>4 DEF P!Row
    <3> QED
      BY <2>1, <3>1, <3>2 DEF P!Cell, P!Dir
  <2>5. CASE j # 0
    <3>1. P!Target(P!Blank(n.board), "LT") = <<i, j - 1>>
      BY <2>1 DEF P!Target
    <3>2. j - 1 \in P!Row
      BY <2>2, <2>3, <2>5 DEF P!Row
    <3> QED
      BY <2>1, <3>1, <3>2 DEF P!Cell, P!Dir
  <2> QED
    BY <2>4, <2>5
<1>5. PICK d \in P!Dir : P!CanMove(n.board, d)
  BY <1>2, <1>4, Assumptions, P!CanMoveIsInside
<1>6. P!Boards(s) # {}
  BY <1>1, <1>5
<1>7. Len(s) >= 1
  <2> HIDE DEF s
  <2>1. DOMAIN s # {} /\ DOMAIN s = 1 .. Len(s) /\ Len(s) \in Nat
    BY <1>1, <1>6 DEF P!Boards
  <2> QED
    BY <2>1
<1> QED
  BY <1>1, <1>7

LEMMA ExpandHInv == HInv /\ P!IInv /\ Expand => HInv' /\ P!Expand
<1> SUFFICES ASSUME HInv, P!IInv, Expand PROVE HInv' /\ P!Expand
  OBVIOUS
<1>1. pc = "loop" /\ Len(List(closed)) < MaxClosed /\ pc' = "filterOpen" /\ cp' = open
  BY DEF Expand
<1>2. outcome = "searching" /\ path = <<>> /\ open # NULL
  BY <1>1, AbsFacts
<1>3. /\ ~Filtering /\ Filtering' /\ WorkAt = NULL /\ WorkAt' = succ' /\ List(WorkAt)' = List(succ)'
      /\ Hand = {} /\ ~Unlisted
  <2>1. ~Filtering /\ Filtering' /\ WorkAt = NULL /\ Hand = {} /\ ~Unlisted
    BY <1>1, <1>2 DEF Filtering, WorkAt, Hand, Unlisted, InHand
  <2> QED
    BY <2>1, WorkFilterNext
<1>4. PICK O, C : O = List(open) /\ C = List(closed)
  OBVIOUS
<1>5. /\ Chain(heap, O, open) /\ Chain(heap, C, closed)
      /\ Elems(O) \cap Elems(C) = {} /\ Elems(O) \cup Elems(C) = Addr
  <2>1. List(WorkAt) = <<>>
    <3>1. Chain(heap, List(WorkAt), WorkAt)
      BY HeapFacts DEF ListsOK
    <3> QED
      BY <1>3, <3>1, ListFacts
  <2>2. Shared(O, C, <<>>, {}, Addr)
    BY <1>3, <1>4, <2>1, HeapFacts DEF ListsOK
  <2> QED
    BY <1>4, <2>2, HeapFacts, ElemsEmpty DEF ListsOK, Shared
<1>6. /\ O \in Seq(Addr) /\ Len(O) \in Nat /\ Len(O) >= 1 /\ open = O[1] /\ open \in Addr
      /\ heap[open].next = At(O, 2) /\ open \in Elems(O)
      /\ \A i, j \in 1 .. Len(O) : O[i] = O[j] => i = j
      /\ C \in Seq(Addr)
  <2>1. Len(O) # 0
    BY <1>2, <1>5, ListFacts
  <2> QED
    BY <1>2, <1>5, <2>1, ListFacts
<1> DEFINE n == heap[open].node
<1>7. /\ Nodes(open) = NodesIn(heap, O) /\ Nodes(closed) = NodesIn(heap, C)
      /\ NodesIn(heap, O) \in Seq(P!Node) /\ Len(NodesIn(heap, O)) = Len(O)
      /\ NodesIn(heap, O)[1] = n /\ n \in P!Node
  <2>1. Nodes(open) = NodesIn(heap, O) /\ Nodes(closed) = NodesIn(heap, C)
    BY <1>4, NodesHere
  <2>2. NodesIn(heap, O) \in Seq(P!Node)
    BY <1>1, <2>1, AbsFacts
  <2>3. Len(NodesIn(heap, O)) = Len(O) /\ \A i \in 1 .. Len(O) : NodesIn(heap, O)[i] = heap[O[i]].node
    <3>1. O \in Seq(Addr)
      BY <1>6
    <3> QED
      BY <3>1, NodesInFacts
  <2>4. NodesIn(heap, O)[1] = n
    BY <1>6, <2>3
  <2>5. n \in P!Node
    BY <1>6, <2>2, <2>3, <2>4
  <2> QED
    BY <2>1, <2>2, <2>3, <2>4, <2>5
<1>8. PICK s : s = P!expand(n)
  OBVIOUS
<1> HIDE DEF n
<1>9. s \in Seq(P!Node) /\ Len(s) <= 4 /\ Len(s) >= 1 /\ Len(s) \in Nat
  BY <1>7, <1>8, ExpandMakes
<1>10. PICK at : at = Fresh(Len(s))
  OBVIOUS
<1>11. /\ at \in Seq(Nat) /\ Len(at) = Len(s) /\ DOMAIN at = 1 .. Len(s)
       /\ \A i \in 1 .. Len(s) : at[i] \in Nat /\ at[i] \notin Addr
       /\ \A i, j \in 1 .. Len(s) : at[i] = at[j] => i = j
  <2>1. at = FreshIn(Addr, Len(s))
    BY <1>10 DEF Fresh, FreshIn
  <2>2. IsFresh(at, Addr, Cardinality(Addr) + Len(s), Len(s))
    BY <1>9, <2>1, FreshInIs
  <2>3. IsFiniteSet(Addr)
    BY HeapFacts
  <2>4. /\ at \in Seq(Nat) /\ Len(at) = Len(s)
        /\ \A i \in 1 .. Len(s) : at[i] \in Nat /\ at[i] \notin Addr
        /\ \A i, j \in 1 .. Len(s) : at[i] = at[j] => i = j
    BY <1>9, <2>2, <2>3, FreshFacts
  <2> QED
    BY <2>4
<1> DEFINE cell(i) == [node |-> s[i], next |-> IF i = Len(s) THEN NULL ELSE at[i + 1]]
           used == {at[i] : i \in DOMAIN at}
<1>12. /\ heap' = [a \in Addr \cup used |->
                       IF a \in used THEN cell(CHOOSE i \in DOMAIN at : at[i] = a)
                                     ELSE SetNext(heap, open, NULL)[a]]
       /\ succ' = at[1] /\ loc' = FilterCall(at[1])
       /\ open' = heap[open].next
       /\ UNCHANGED <<strategy, start, closed, leaf, path, outcome, made, lastOpen>>
  <2>1. F0!expand(heap[open].node) = s
    BY <1>8, SameExpand DEF n
  <2> QED
    BY <1>10, <2>1 DEF Expand, args, hist
<1>13. used = Elems(at) /\ used \cap Addr = {} /\ used \subseteq Nat /\ IsFiniteSet(used)
  <2>1. used = Elems(at)
    BY <1>11 DEF Elems
  <2>2. used \cap Addr = {} /\ used \subseteq Nat
    BY <1>11
  <2>3. IsFiniteSet(Elems(at))
    <3>1. at \in Seq(Nat) /\ \A i, j \in 1 .. Len(at) : at[i] = at[j] => i = j
      BY <1>11
    <3> QED
      BY <3>1, CountElems
  <2> QED
    BY <2>1, <2>2, <2>3
<1>14. \A i \in 1 .. Len(s) : at[i] \in DOMAIN heap' /\ heap'[at[i]] = cell(i)
  <2> SUFFICES ASSUME NEW i \in 1 .. Len(s) PROVE at[i] \in DOMAIN heap' /\ heap'[at[i]] = cell(i)
    OBVIOUS
  <2>1. at[i] \in used /\ DOMAIN heap' = Addr \cup used
    BY <1>11, <1>12
  <2>2. (CHOOSE j \in DOMAIN at : at[j] = at[i]) = i
    <3>1. \A j \in DOMAIN at : at[j] = at[i] <=> j = i
      BY <1>11
    <3>2. i \in DOMAIN at
      BY <1>11
    <3> QED
      BY <3>1, <3>2
  <2>3. heap'[at[i]] = cell(CHOOSE j \in DOMAIN at : at[j] = at[i])
    <3> HIDE DEF cell
    <3> QED
      BY <1>12, <2>1
  <2> QED
    BY <2>1, <2>2, <2>3
<1>15. DOMAIN heap' = Addr \cup used /\ \A a \in Addr : heap'[a] = SetNext(heap, open, NULL)[a]
  <2> HIDE DEF used, cell
  <2> QED
    BY <1>12, <1>13
<1>16. \A a \in Addr : /\ a \in DOMAIN heap'
                       /\ heap'[a].node = heap[a].node
                       /\ heap'[a].next = IF a = open THEN NULL ELSE heap[a].next
                       /\ heap'[a] = [node |-> heap'[a].node, next |-> heap'[a].next]
                       /\ a # open => heap'[a] = heap[a]
  <2>1. \A a \in DOMAIN heap : heap[a] = [node |-> heap[a].node, next |-> heap[a].next]
    BY HeapFacts
  <2>2. \A c \in DOMAIN heap :
          /\ SetNext(heap, open, NULL)[c].node = heap[c].node
          /\ SetNext(heap, open, NULL)[c].next = IF c = open THEN NULL ELSE heap[c].next
          /\ SetNext(heap, open, NULL)[c] = [node |-> SetNext(heap, open, NULL)[c].node,
                                             next |-> SetNext(heap, open, NULL)[c].next]
          /\ c # open => SetNext(heap, open, NULL)[c] = heap[c]
    BY <2>1, SetNextFacts
  <2>3. Addr = DOMAIN heap
    BY HeapFacts
  <2> HIDE DEF used
  <2> QED
    BY <1>15, <2>2, <2>3
<1>17. \A i \in 1 .. Len(s) : /\ heap'[at[i]].node = s[i] /\ heap'[at[i]].next = At(at, i + 1)
                              /\ heap'[at[i]] = [node |-> heap'[at[i]].node, next |-> heap'[at[i]].next]
  <2> SUFFICES ASSUME NEW i \in 1 .. Len(s)
               PROVE  /\ heap'[at[i]].node = s[i] /\ heap'[at[i]].next = At(at, i + 1)
                      /\ heap'[at[i]] = [node |-> heap'[at[i]].node, next |-> heap'[at[i]].next]
    OBVIOUS
  <2>1. heap'[at[i]] = [node |-> s[i], next |-> IF i = Len(s) THEN NULL ELSE at[i + 1]]
    BY <1>14
  <2>2. (IF i = Len(s) THEN NULL ELSE at[i + 1]) = At(at, i + 1)
    <3>1. i + 1 \in 1 .. Len(at) <=> i # Len(s)
      <4>1. Len(at) = Len(s)
        BY <1>11
      <4> QED
        BY <1>9, <4>1
    <3> QED
      BY <3>1 DEF At
  <2> QED
    BY <2>1, <2>2
<1>36. \A i \in 1 .. Len(s) : heap'[at[i]].node = s[i]
  BY <1>17
<1>37. \A i \in 1 .. Len(s) : at[i] \in DOMAIN heap'
  BY <1>14
<1>38. Len(at) = Len(s) /\ 1 \in 1 .. Len(s)
  BY <1>9, <1>11
<1> HIDE DEF cell, used
<1>18. HeapOK' /\ Addr' = Addr \cup used
  <2>1. Addr' = Addr \cup used
    BY <1>15 DEF Addr
  <2>2. IsFiniteSet(Addr \cup used) /\ Addr \cup used \subseteq Nat
    BY <1>13, HeapFacts, FS_Union
  <2>3. \A a \in Addr \cup used : heap'[a] = [node |-> heap'[a].node, next |-> heap'[a].next]
    <3>1. \A a \in used : \E i \in 1 .. Len(s) : a = at[i]
      BY <1>11 DEF used
    <3> QED
      <4>1. ASSUME NEW a \in Addr PROVE heap'[a] = [node |-> heap'[a].node, next |-> heap'[a].next]
        BY <1>16
      <4>2. ASSUME NEW a \in used PROVE heap'[a] = [node |-> heap'[a].node, next |-> heap'[a].next]
        BY <1>17, <3>1
      <4> QED
        BY <4>1, <4>2
  <2> QED
    BY <2>1, <2>2, <2>3 DEF HeapOK
<1>19. Chain(heap', at, at[1])
  <2>1. at \in Seq(DOMAIN heap')
    <3>1. \A i \in 1 .. Len(at) : at[i] \in DOMAIN heap'
      BY <1>11, <1>14
    <3>2. at = [i \in 1 .. Len(at) |-> at[i]] /\ Len(at) \in Nat
      BY <1>11
    <3> QED
      BY <3>1, <3>2, SeqIs
  <2>2. at[1] = At(at, 1)
    BY <1>9, <1>11 DEF At
  <2> QED
    BY <1>11, <1>17, <2>1, <2>2 DEF Chain
<1> DEFINE R == Without(O, 1)
<1>20. /\ R \in Seq(Addr) /\ Elems(R) = Elems(O) \ {open}
       /\ NodesIn(heap, R) = Without(NodesIn(heap, O), 1)
       /\ 1 \in 1 .. Len(O)
  <2>1. 1 \in 1 .. Len(O) /\ O \in Seq(Addr)
    BY <1>6
  <2>2. R \in Seq(Addr)
    BY <2>1, WithoutFacts
  <2>3. Elems(R) = Elems(O) \ {open}
    BY <1>6, <2>1, ElemsWithout
  <2>4. NodesIn(heap, R) = Without(NodesIn(heap, O), 1)
    BY <2>1, NodesInWithout
  <2> QED
    BY <2>1, <2>2, <2>3, <2>4
<1>21. Chain(heap', R, open')
  <2>1. \A a \in Elems(O) \ {O[1]} :
            a \in DOMAIN heap' /\ heap'[a].next = IF 1 > 1 /\ a = O[1 - 1] THEN heap[O[1]].next ELSE heap[a].next
    <3>1. Elems(O) \subseteq Addr
      BY <1>6, ElemsIn
    <3> QED
      <4>1. ASSUME NEW a \in Elems(O) \ {O[1]} PROVE a \in DOMAIN heap' /\ heap'[a].next = heap[a].next
        BY <1>6, <1>16, <3>1
      <4>2. ~(1 > 1)
        OBVIOUS
      <4> QED
        BY <4>1, <4>2
  <2>2. Chain(heap', R, IF 1 = 1 THEN heap[O[1]].next ELSE open)
    BY <1>5, <1>20, <2>1, ChainWithout
  <2> QED
    BY <1>6, <1>12, <2>2
<1> HIDE DEF R
<1>22. Chain(heap', C, closed') /\ NodesIn(heap', C) = NodesIn(heap, C)
  <2>1. \A a \in Elems(C) : a \in DOMAIN heap' /\ heap'[a] = heap[a]
    BY <1>5, <1>6, <1>16
  <2> QED
    BY <1>5, <1>12, <2>1, Untouched
<1>23. List(open)' = R /\ List(closed)' = C /\ List(WorkAt)' = at /\ List(succ)' = at
  <2>1. List(open)' = R /\ List(closed)' = C /\ List(WorkAt)' = at
    BY <1>3, <1>12, <1>18, <1>19, <1>21, <1>22, ListsAfter
  <2> QED
    BY <1>3, <2>1
<1>24. Hand' = {open} /\ ~Unlisted'
  BY <1>1, <1>2, <1>3, <1>12 DEF Hand, Unlisted, InHand
<1>25. ListsOK'
  <2>1. Shared(R, C, at, {open}, Addr \cup used)
    <3>1. Elems(C) \subseteq Addr /\ Elems(O) \subseteq Addr /\ Elems(at) = used
      BY <1>5, <1>13
    <3> QED
      BY <1>5, <1>6, <1>13, <1>20, <3>1 DEF Shared
  <2>2. heap'[open].next = NULL
    BY <1>6, <1>16
  <2> QED
    BY <1>3, <1>12, <1>18, <1>19, <1>21, <1>22, <1>23, <1>24, <2>1, <2>2 DEF ListsOK
<1>26. FilterOK'
  <2>1. At(at, 1) = at[1]
    BY <1>9, <1>11 DEF At
  <2>2. PICK k : k = 1
    OBVIOUS
  <2>3. /\ loc'.sp = At(at, k) /\ loc'.lsp = Behind(at, k)
        /\ loc' = [lsp |-> loc'.lsp, rsp |-> loc'.sp, sp |-> loc'.sp]
        /\ k \in 1 .. (Len(at) + 1)
        /\ \A i \in 1 .. (k - 1) : heap'[at[i]].node.board \notin P!Boards(Nodes(hp)')
    BY <1>9, <1>11, <1>12, <2>1, <2>2 DEF FilterCall, Behind
  <2>4. \A i \in 1 .. Len(at) : heap'[at[i]].node \in P!Node
    <3>1. \A i \in 1 .. Len(s) : s[i] \in P!Node
      BY <1>9
    <3> QED
      BY <1>36, <1>38, <3>1
  <2>5. Filtering' => at = List(succ)'
    BY <1>23
  <2>6. Len(at) <= 4 /\ ~(pc' = "filterClosed")
    BY <1>1, <1>9, <1>11
  <2> QED
    BY <2>3, <2>4, <2>5, <2>6, FilterNext
<1>27. MadeOK' /\ SmartOK'
  BY <1>1, <1>12 DEF MadeOK, SmartOK, HInv
<1>28. StartOK' /\ PointersOK'
  <2>1. 1 \in Addr /\ heap[1].node.board = start
    BY DEF HInv, StartOK
  <2>2. 1 \notin Elems(at)
    BY <1>13, <2>1
  <2>3. StartOK'
    BY <1>1, <1>12, <1>16, <1>18, <1>23, <2>1, <2>2 DEF StartOK
  <2>4. succ' \in Addr'
    BY <1>12, <1>37, <1>38 DEF Addr
  <2>5. cp' \in Addr'
    BY <1>1, <1>6, <1>18
  <2>6. PointersOK'
    BY <1>1, <1>24, <2>4, <2>5 DEF PointersOK
  <2> QED
    BY <2>3, <2>6
<1>29. HInv'
  BY <1>18, <1>25, <1>26, <1>27, <1>28 DEF HInv
<1>30. Head(AbsOpen) = n /\ AbsOpen' = Tail(AbsOpen)
  <2>1. AbsOpen = NodesIn(heap, O)
    BY <1>1, <1>7, AbsFacts
  <2>2. NodesIn(heap', R) = NodesIn(heap, R)
    <3>1. \A a \in Elems(R) : heap'[a].node = heap[a].node
      BY <1>16, <1>20, ElemsIn
    <3> QED
      BY <1>20, <3>1, NodesInSame
  <2>3. AbsOpen' = NodesIn(heap, R)
    BY <1>2, <1>12, <1>23, <2>2, NodesNext DEF AbsOpen
  <2>4. Head(NodesIn(heap, O)) = NodesIn(heap, O)[1] /\ Tail(NodesIn(heap, O)) = Without(NodesIn(heap, O), 1)
    <3>1. NodesIn(heap, O) \in Seq(P!Node) /\ Len(NodesIn(heap, O)) >= 1
      BY <1>6, <1>7
    <3> QED
      BY <3>1, HeadTail
  <2> QED
    BY <1>7, <1>20, <2>1, <2>3, <2>4
<1>31. AbsCp' = n
  <2>1. open # NULL
    BY <1>2
  <2> QED
    BY <1>1, <1>6, <1>16, <2>1 DEF AbsCp, n
<1>32. Nodes(closed)' = Nodes(closed) /\ Len(Nodes(closed)) < MaxClosed
  <2>1. Len(NodesIn(heap, C)) = Len(C)
    <3>1. C \in Seq(Addr)
      BY <1>6
    <3> QED
      BY <3>1, NodesInFacts
  <2> QED
    BY <1>1, <1>4, <1>7, <1>22, <1>23, <2>1, NodesNext
<1>33. AbsSucc' = P!filter(P!filter(P!expand(Head(AbsOpen)), Tail(AbsOpen)), Nodes(closed))
  <2>1. Nodes(succ)' = s
    <3>1. Nodes(succ)' = NodesIn(heap', at)
      BY <1>23, NodesNext
    <3>2. at \in Seq(Nat)
      BY <1>11
    <3>3. NodesIn(heap', at) = [i \in 1 .. Len(at) |-> heap'[at[i]].node]
      BY <3>2, NodesInFacts
    <3>4. NodesIn(heap', at) = [i \in 1 .. Len(s) |-> s[i]]
      BY <1>36, <1>38, <3>3
    <3>5. s = [i \in 1 .. Len(s) |-> s[i]]
      BY <1>9
    <3> QED
      BY <3>1, <3>4, <3>5
  <2>2. Nodes(open)' = Tail(AbsOpen)
    BY <1>2, <1>12, <1>30 DEF AbsOpen
  <2>3. AbsSucc' = P!filter(P!filter(Nodes(succ)', Nodes(open)'), Nodes(closed)')
    BY <1>3, FilterAbsNext
  <2> QED
    BY <1>8, <1>30, <1>32, <2>1, <2>2, <2>3
<1>34. AbsTodo' = DOMAIN AbsSucc' /\ AbsPc = "loop" /\ AbsPc' = IF AbsSucc' = <<>> THEN "close" ELSE "merge"
  <2>1. AbsTodo' = DOMAIN AbsSucc' /\ AbsPc' = IF AbsTodo' = {} THEN "close" ELSE "merge"
    BY <1>3, FilterAbsNext
  <2>2. AbsPc = "loop"
    BY <1>1, <1>3 DEF AbsPc
  <2>3. AbsSucc' \in Seq(P!Node)
    <3>1. n \in P!Node /\ Tail(AbsOpen) \in Seq(P!Node) /\ Nodes(closed) \in Seq(P!Node)
      <4>1. AbsOpen \in Seq(P!Node) /\ AbsOpen = NodesIn(heap, O) /\ Len(AbsOpen) >= 1
        BY <1>1, <1>6, <1>7, AbsFacts
      <4> QED
        BY <1>7, <4>1, AbsFacts
    <3>2. P!NewSuccessors(n, Tail(AbsOpen), Nodes(closed)) \in Seq(P!Node)
      BY <3>1, Assumptions, P!NewSuccessorsFacts
    <3> QED
      BY <1>30, <1>33, <3>2 DEF P!NewSuccessors
  <2>4. DOMAIN AbsSucc' = {} <=> AbsSucc' = <<>>
    <3>1. PICK x : x = AbsSucc'
      OBVIOUS
    <3>2. x \in Seq(P!Node)
      BY <2>3, <3>1
    <3>3. DOMAIN x = {} <=> x = <<>>
      <4>1. DOMAIN x = 1 .. Len(x) /\ Len(x) \in Nat
        BY <3>2
      <4>2. DOMAIN x = {} => Len(x) = 0
        BY <4>1
      <4> QED
        BY <3>2, <4>1, <4>2
    <3> QED
      BY <3>1, <3>3
  <2> QED
    BY <2>1, <2>2, <2>4
<1>35. P!Expand
  BY <1>12, <1>30, <1>31, <1>32, <1>33, <1>34 DEF P!Expand, P!args
<1> QED
  BY <1>29, <1>35

-----------------------------------------------------------------------------
(* prepend and append.                                                     *)

\* The heap once the list M is attached behind the list L.
LEMMA Joined ==
  ASSUME HInv, NEW L, NEW p, NEW M, NEW q, Chain(heap, L, p), Chain(heap, M, q), Len(L) >= 1,
         Elems(L) \cap Elems(M) = {},
         heap' = IF q = NULL THEN heap ELSE SetNext(heap, L[Len(L)], q)
  PROVE  /\ HeapOK' /\ Addr' = Addr /\ DOMAIN heap' = Addr
         /\ Chain(heap', L \o M, p)
         /\ \A a \in Addr : heap'[a].node = heap[a].node
         /\ \A a \in Addr : a \notin Elems(L) => heap'[a] = heap[a]
<1>1. /\ L \in Seq(Addr) /\ Len(L) \in Nat /\ L[Len(L)] \in Elems(L) /\ Elems(L) \subseteq Addr
      /\ Elems(M) \subseteq Addr
      /\ \A i \in 1 .. Len(L) : heap[L[i]].next = At(L, i + 1)
      /\ \A i, j \in 1 .. Len(L) : L[i] = L[j] => i = j
      /\ \A i \in 1 .. Len(L) : L[i] \in Addr
  <2>1. /\ L \in Seq(Addr) /\ Len(L) \in Nat /\ Elems(L) \subseteq Addr /\ Elems(M) \subseteq Addr
        /\ \A i \in 1 .. Len(L) : L[i] \in Addr
        /\ \A i, j \in 1 .. Len(L) : L[i] = L[j] => i = j
    BY ListFacts
  <2>2. L[Len(L)] \in Elems(L)
    BY <2>1 DEF Elems
  <2> QED
    BY <2>1, <2>2 DEF Chain
<1>2. /\ Addr = DOMAIN heap
      /\ \A a \in DOMAIN heap : heap[a] = [node |-> heap[a].node, next |-> heap[a].next]
      /\ IsFiniteSet(Addr) /\ Addr \subseteq Nat
  BY HeapFacts
<1>3. CASE q = NULL
  <2>1. M = <<>> /\ heap' = heap
    BY <1>3, ListFacts
  <2>2. L \o M = L
    BY <1>1, <2>1
  <2>3. HeapOK' /\ Addr' = Addr
    BY <2>1, HeapStays, HeapFacts DEF Addr
  <2> QED
    BY <1>2, <2>1, <2>2, <2>3
<1>4. CASE q # NULL
  <2> DEFINE z == L[Len(L)]
             g == SetNext(heap, z, q)
  <2>1. heap' = g
    BY <1>4
  <2>2. /\ DOMAIN g = DOMAIN heap
        /\ \A c \in DOMAIN heap : /\ g[c].node = heap[c].node
                                  /\ g[c].next = IF c = z THEN q ELSE heap[c].next
                                  /\ g[c] = [node |-> g[c].node, next |-> g[c].next]
                                  /\ c # z => g[c] = heap[c]
    BY <1>2, SetNextFacts
  <2> HIDE DEF g
  <2>3. HeapOK' /\ Addr' = Addr
    <3>1. Addr' = Addr
      BY <1>2, <2>1, <2>2 DEF Addr
    <3> QED
      BY <1>2, <2>1, <2>2, <3>1 DEF HeapOK
  <2>4. Chain(heap', L \o M, p)
    <3>1. \A a \in Elems(L) : a \in DOMAIN heap' /\ heap'[a].next = IF a = L[Len(L)] THEN q ELSE heap[a].next
      BY <1>1, <1>2, <2>1, <2>2
    <3>2. \A a \in Elems(M) : a \in DOMAIN heap' /\ heap'[a].next = heap[a].next
      BY <1>1, <1>2, <2>1, <2>2
    <3> QED
      BY <3>1, <3>2, ChainJoin
  <2>5. \A a \in Addr : heap'[a].node = heap[a].node /\ (a \notin Elems(L) => heap'[a] = heap[a])
    BY <1>1, <1>2, <2>1, <2>2
  <2> QED
    BY <1>2, <2>1, <2>2, <2>3, <2>4, <2>5
<1> QED
  BY <1>3, <1>4

\* The end of a merge by prepend or append: open has become K.
LEMMA Merged ==
  ASSUME HInv, P!IInv, pc = "merge", pc' = "close",
         UNCHANGED <<args, closed, cp, succ, loc, leaf, path, outcome, hist>>,
         NEW K \in Seq(Addr), Elems(K) = Elems(List(open)) \cup Elems(List(succ)),
         HeapOK', Addr' = Addr, DOMAIN heap' = Addr, Chain(heap', K, open'),
         \A a \in Addr : heap'[a].node = heap[a].node,
         \A a \in Addr : a \notin Elems(K) => heap'[a] = heap[a]
  PROVE  /\ HInv'
         /\ AbsOpen' = NodesIn(heap, K)
         /\ Nodes(closed)' = Nodes(closed) /\ AbsCp' = AbsCp /\ AbsSucc' = AbsSucc
         /\ AbsTodo' = {} /\ AbsPc' = "close" /\ AbsPc = "merge"
<1>1. UNCHANGED <<strategy, start, closed, cp, succ, loc, leaf, path, outcome, made, lastOpen>>
  BY DEF args, hist
<1>2. outcome = "searching" /\ path = <<>>
  BY AbsFacts
<1>3. /\ ~Filtering /\ ~Filtering' /\ WorkAt = succ /\ WorkAt' = NULL /\ List(WorkAt) = List(succ)
      /\ Hand = {cp} /\ Hand' = {cp} /\ ~Unlisted /\ ~Unlisted'
  BY <1>1, <1>2, WorkMerge DEF Filtering, WorkAt, Hand, Unlisted, InHand
<1>4. PICK O, C, W : O = List(open) /\ C = List(closed) /\ W = List(succ)
  OBVIOUS
<1>5. /\ Chain(heap, C, closed) /\ Shared(O, C, W, {cp}, Addr) /\ heap[cp].next = NULL /\ cp \in Addr
  <2>1. Chain(heap, C, closed) /\ Shared(O, C, W, {cp}, Addr) /\ heap[cp].next = NULL
    BY <1>3, <1>4, HeapFacts DEF ListsOK
  <2> QED
    BY <2>1 DEF Shared
<1>6. Chain(heap', C, closed') /\ NodesIn(heap', C) = NodesIn(heap, C)
  <2>1. \A a \in Elems(C) : a \in DOMAIN heap' /\ heap'[a] = heap[a]
    BY <1>4, <1>5 DEF Shared
  <2> QED
    BY <1>1, <1>5, <2>1, Untouched
<1>7. heap'[cp] = heap[cp]
  BY <1>4, <1>5 DEF Shared
<1>8. List(open)' = K /\ List(closed)' = C /\ List(WorkAt)' = <<>>
  <2>1. Chain(heap', <<>>, WorkAt')
    BY <1>3, ChainEmpty
  <2> QED
    BY <1>6, <2>1, ListsAfter
<1>9. ListsOK'
  <2>1. Shared(K, C, <<>>, {cp}, Addr)
    BY <1>4, <1>5, ElemsEmpty DEF Shared
  <2>2. \A a \in Hand' : heap'[a].next = NULL
    BY <1>3, <1>5, <1>7
  <2>3. Chain(heap', <<>>, WorkAt')
    BY <1>3, ChainEmpty
  <2> QED
    BY <1>3, <1>6, <1>8, <2>1, <2>2, <2>3 DEF ListsOK
<1>10. FilterOK' /\ SmartOK'
  BY <1>3 DEF FilterOK, SmartOK
<1>11. MadeOK'
  <2>1. \A i \in 1 .. Len(made) : /\ made[i].addr \in Elems(K)
                                  /\ heap[made[i].addr].node = made[i].node
                                  /\ made[i].addr \in Addr
    <3>1. \A i \in 1 .. Len(made) : made[i].addr \in Elems(List(open)) \cup Elems(List(WorkAt))
      BY DEF HInv, MadeOK
    <3> QED
      BY <1>3, <3>1, MadeNodes
  <2>2. \A i \in 1 .. Len(made') : /\ made'[i].addr \in Elems(List(open)') \cup Elems(List(WorkAt)')
                                   /\ heap'[made'[i].addr].node = made'[i].node
    BY <1>1, <1>8, <2>1
  <2>3. /\ made' = [i \in 1 .. Len(made') |-> made'[i]] /\ Len(made') \in Nat
        /\ \A i, j \in 1 .. Len(made') : made'[i].addr = made'[j].addr => i = j
        /\ succ' = IF Len(made') = 0 THEN NULL ELSE made'[1].addr
    BY <1>1 DEF HInv, MadeOK
  <2> QED
    BY <2>2, <2>3 DEF MadeOK
<1>12. StartOK' /\ PointersOK'
  <2>1. StartOK'
    <3>1. 1 \in Addr /\ heap[1].node.board = start
      BY DEF HInv, StartOK
    <3> QED
      BY <1>1, <1>8, <3>1, ElemsEmpty DEF StartOK
  <2>2. PointersOK'
    BY <1>1, <1>3 DEF PointersOK, HInv
  <2> QED
    BY <2>1, <2>2
<1>13. AbsOpen' = NodesIn(heap, K)
  <2>1. NodesIn(heap', K) = NodesIn(heap, K)
    <3>1. \A a \in Elems(K) : heap'[a].node = heap[a].node
      BY ElemsIn
    <3> QED
      BY <3>1, NodesInSame
  <2> QED
    BY <1>1, <1>2, <1>8, <2>1, NodesNext DEF AbsOpen
<1>14. Nodes(closed)' = Nodes(closed) /\ AbsCp' = AbsCp /\ AbsSucc' = AbsSucc
  <2>1. Nodes(closed)' = Nodes(closed)
    BY <1>4, <1>6, <1>8, NodesHere, NodesNext
  <2>2. AbsCp' = AbsCp
    BY <1>1, <1>7 DEF AbsCp
  <2>3. AbsSucc' = AbsSucc
    BY <1>1, <1>3 DEF AbsSucc
  <2> QED
    BY <2>1, <2>2, <2>3
<1>15. AbsTodo' = {} /\ AbsPc' = "close" /\ AbsPc = "merge"
  BY <1>3 DEF AbsTodo, AbsPc
<1> QED
  BY <1>9, <1>10, <1>11, <1>12, <1>13, <1>14, <1>15 DEF HInv

\* Before a merge: the lists, none of which is lost.
LEMMA BeforeMerge ==
  ASSUME HInv, P!IInv, pc = "merge"
  PROVE  /\ Chain(heap, List(open), open) /\ Chain(heap, List(succ), succ)
         /\ List(open) \in Seq(Addr) /\ List(succ) \in Seq(Addr)
         /\ Elems(List(open)) \cap Elems(List(succ)) = {}
         /\ Len(List(succ)) >= 1 /\ succ # NULL
         /\ AbsOpen = NodesIn(heap, List(open)) /\ AbsSucc = NodesIn(heap, List(succ))
<1>1. /\ Chain(heap, List(open), open) /\ Chain(heap, List(succ), succ)
      /\ Elems(List(open)) \cap Elems(List(succ)) = {}
  BY WorkMerge, HeapFacts DEF ListsOK, Shared
<1>2. List(open) \in Seq(Addr) /\ List(succ) \in Seq(Addr) /\ Len(List(succ)) \in Nat
  BY <1>1, ListFacts
<1>3. List(succ) = [i \in 1 .. Len(made) |-> made[i].addr] /\ Len(made) >= 1
  BY DEF HInv, MadeOK
<1>4. Len(List(succ)) = Len(made) /\ \A i \in 1 .. Len(made) : List(succ)[i] = made[i].addr
  BY <1>2, <1>3, MadeFacts
<1>5. succ # NULL
  BY <1>1, <1>3, <1>4, ListFacts
<1>6. AbsOpen = NodesIn(heap, List(open))
  BY AbsFacts, NodesHere
<1>7. AbsSucc = NodesIn(heap, List(succ))
  <2>1. NodesIn(heap, List(succ)) = [i \in 1 .. Len(List(succ)) |-> heap[List(succ)[i]].node]
    BY <1>2, NodesInFacts
  <2>2. AbsSucc = [i \in 1 .. Len(made) |-> made[i].node]
    BY MadeNodes
  <2>3. \A i \in 1 .. Len(made) : heap[List(succ)[i]].node = made[i].node
    BY <1>4, MadeNodes
  <2> QED
    BY <1>4, <2>1, <2>2, <2>3
<1> QED
  BY <1>1, <1>2, <1>3, <1>4, <1>5, <1>6, <1>7

LEMMA MergeFrontHInv == HInv /\ P!IInv /\ MergeFront => HInv' /\ P!MergeFront
<1> SUFFICES ASSUME HInv, P!IInv, MergeFront PROVE HInv' /\ P!MergeFront
  OBVIOUS
<1>1. /\ pc = "merge" /\ strategy = "dfs" /\ pc' = "close" /\ open' = succ
      /\ heap' = IF open = NULL THEN heap ELSE SetNext(heap, List(succ)[Len(List(succ))], open)
      /\ UNCHANGED <<args, closed, cp, succ, loc, leaf, path, outcome, hist>>
  BY DEF MergeFront, Attached
<1> DEFINE O == List(open)
           W == List(succ)
           K == W \o O
<1>2. /\ Chain(heap, O, open) /\ Chain(heap, W, succ) /\ O \in Seq(Addr) /\ W \in Seq(Addr)
      /\ Elems(W) \cap Elems(O) = {} /\ Len(W) >= 1
      /\ AbsOpen = NodesIn(heap, O) /\ AbsSucc = NodesIn(heap, W)
  BY <1>1, BeforeMerge
<1> HIDE DEF O, W
<1>3. /\ HeapOK' /\ Addr' = Addr /\ DOMAIN heap' = Addr /\ Chain(heap', K, succ)
      /\ \A a \in Addr : heap'[a].node = heap[a].node
      /\ \A a \in Addr : a \notin Elems(W) => heap'[a] = heap[a]
  <2>1. heap' = IF open = NULL THEN heap ELSE SetNext(heap, W[Len(W)], open)
    BY <1>1 DEF W
  <2> QED
    BY <1>2, <2>1, Joined
<1>4. K \in Seq(Addr) /\ Elems(K) = Elems(O) \cup Elems(W)
  BY <1>2, ConcatType, ElemsConcat
<1>5. NodesIn(heap, K) = NodesIn(heap, W) \o NodesIn(heap, O)
  BY <1>2, NodesInConcat
<1> HIDE DEF K
<1>6. /\ HInv' /\ AbsOpen' = NodesIn(heap, K)
      /\ Nodes(closed)' = Nodes(closed) /\ AbsCp' = AbsCp /\ AbsSucc' = AbsSucc
      /\ AbsTodo' = {} /\ AbsPc' = "close" /\ AbsPc = "merge"
  <2>1. Elems(K) = Elems(List(open)) \cup Elems(List(succ))
    BY <1>4 DEF O, W
  <2>2. \A a \in Addr : a \notin Elems(K) => heap'[a] = heap[a]
    BY <1>3, <1>4
  <2>3. Chain(heap', K, open')
    BY <1>1, <1>3
  <2> QED
    BY <1>1, <1>3, <1>4, <2>1, <2>2, <2>3, Merged
<1>7. P!MergeFront
  BY <1>1, <1>2, <1>5, <1>6 DEF P!MergeFront, P!prepend, P!args, args
<1> QED
  BY <1>6, <1>7

LEMMA MergeBackHInv == HInv /\ P!IInv /\ MergeBack => HInv' /\ P!MergeBack
<1> SUFFICES ASSUME HInv, P!IInv, MergeBack PROVE HInv' /\ P!MergeBack
  OBVIOUS
<1>1. /\ pc = "merge" /\ strategy = "bfs" /\ pc' = "close"
      /\ open' = IF open = NULL THEN succ ELSE open
      /\ heap' = IF open = NULL THEN heap ELSE SetNext(heap, List(open)[Len(List(open))], succ)
      /\ UNCHANGED <<args, closed, cp, succ, loc, leaf, path, outcome, hist>>
  BY DEF MergeBack, Attached
<1> DEFINE O == List(open)
           W == List(succ)
           K == O \o W
<1>2. /\ Chain(heap, O, open) /\ Chain(heap, W, succ) /\ O \in Seq(Addr) /\ W \in Seq(Addr)
      /\ Elems(O) \cap Elems(W) = {} /\ Len(W) >= 1 /\ succ # NULL
      /\ AbsOpen = NodesIn(heap, O) /\ AbsSucc = NodesIn(heap, W)
  BY <1>1, BeforeMerge
<1> HIDE DEF O, W
<1>3. /\ HeapOK' /\ Addr' = Addr /\ DOMAIN heap' = Addr /\ Chain(heap', K, open')
      /\ \A a \in Addr : heap'[a].node = heap[a].node
      /\ \A a \in Addr : a \notin Elems(O) => heap'[a] = heap[a]
  <2>1. CASE open # NULL
    <3>1. heap' = IF succ = NULL THEN heap ELSE SetNext(heap, O[Len(O)], succ)
      BY <1>1, <1>2, <2>1 DEF O
    <3>2. Len(O) >= 1
      <4>1. Len(O) \in Nat /\ Len(O) # 0
        BY <1>2, <2>1, ListFacts
      <4> QED
        BY <4>1
    <3>3. open' = open
      BY <1>1, <2>1
    <3> QED
      BY <1>2, <3>1, <3>2, <3>3, Joined
  <2>2. CASE open = NULL
    <3>1. heap' = heap /\ open' = succ
      BY <1>1, <2>2
    <3>2. O = <<>>
      BY <1>2, <2>2, ListFacts
    <3>3. K = W
      BY <1>2, <3>2
    <3>4. HeapOK' /\ Addr' = Addr /\ DOMAIN heap' = Addr
      BY <3>1, HeapStays, HeapFacts DEF Addr
    <3> QED
      BY <1>2, <3>1, <3>3, <3>4
  <2> QED
    BY <2>1, <2>2
<1>4. K \in Seq(Addr) /\ Elems(K) = Elems(O) \cup Elems(W)
  BY <1>2, ConcatType, ElemsConcat
<1>5. NodesIn(heap, K) = NodesIn(heap, O) \o NodesIn(heap, W)
  BY <1>2, NodesInConcat
<1> HIDE DEF K
<1>6. /\ HInv' /\ AbsOpen' = NodesIn(heap, K)
      /\ Nodes(closed)' = Nodes(closed) /\ AbsCp' = AbsCp /\ AbsSucc' = AbsSucc
      /\ AbsTodo' = {} /\ AbsPc' = "close" /\ AbsPc = "merge"
  <2>1. Elems(K) = Elems(List(open)) \cup Elems(List(succ))
    BY <1>4 DEF O, W
  <2>2. \A a \in Addr : a \notin Elems(K) => heap'[a] = heap[a]
    BY <1>3, <1>4
  <2> QED
    BY <1>1, <1>3, <1>4, <2>1, <2>2, Merged
<1>7. P!MergeBack
  BY <1>1, <1>2, <1>5, <1>6 DEF P!MergeBack, P!append, P!args, args
<1> QED
  BY <1>6, <1>7

-----------------------------------------------------------------------------
(* The node that merge_smart takes out of its list.                        *)

LEMMA SmartLinkHInv == HInv /\ P!IInv /\ SmartLink => HInv' /\ P!MergeSmart
<1> SUFFICES ASSUME HInv, P!IInv, SmartLink PROVE HInv' /\ P!MergeSmart
  OBVIOUS
<1>1. /\ pc = "smart" /\ loc.csucc = NULL /\ loc.insert # NULL
      /\ UNCHANGED <<strategy, start, closed, cp, succ, leaf, path, outcome, pc, made, lastOpen>>
  BY DEF SmartLink, args, hist
<1>2. outcome = "searching" /\ path = <<>>
  BY <1>1, AbsFacts
<1>3. PICK O, C, W : O = List(open) /\ C = List(closed) /\ W = List(loc.succ)
  OBVIOUS
<1>4. /\ ~Filtering /\ ~Filtering' /\ WorkAt = loc.succ /\ WorkAt' = loc'.succ /\ List(WorkAt) = W
      /\ Hand = {cp} /\ Hand' = {cp} /\ ~Unlisted /\ ~Unlisted' /\ List(loc.succ)' = List(WorkAt)'
  <2>1. /\ ~Filtering /\ ~Filtering' /\ WorkAt = loc.succ /\ WorkAt' = loc'.succ /\ List(WorkAt) = W
        /\ Hand = {cp} /\ Hand' = {cp} /\ ~Unlisted /\ ~Unlisted'
    BY <1>1, <1>2, <1>3, WorkSmart DEF Filtering, WorkAt, Hand, Unlisted, InHand
  <2> QED
    BY <2>1, ListsNext
<1>5. /\ Chain(heap, O, open) /\ Chain(heap, C, closed) /\ Chain(heap, W, loc.succ)
      /\ Shared(O, C, W, {cp}, Addr) /\ heap[cp].next = NULL /\ cp \in Addr
  <2>1. /\ Chain(heap, O, open) /\ Chain(heap, C, closed) /\ Chain(heap, W, loc.succ)
        /\ Shared(O, C, W, {cp}, Addr) /\ heap[cp].next = NULL
    BY <1>3, <1>4, HeapFacts DEF ListsOK
  <2> QED
    BY <2>1 DEF Shared
<1>6. /\ W \in Seq(Addr) /\ Len(W) \in Nat /\ \A i \in 1 .. Len(W) : W[i] \in Addr
      /\ \A i, j \in 1 .. Len(W) : W[i] = W[j] => i = j
      /\ \A i \in 1 .. Len(W) : heap[W[i]].next = At(W, i + 1)
      /\ Elems(W) \subseteq Addr /\ NULL \notin Addr
      /\ O \in Seq(Addr) /\ C \in Seq(Addr)
      /\ Elems(O) \subseteq Addr
  BY <1>5, ListFacts, HeapFacts DEF Chain
<1>7. /\ \A i \in 1 .. Len(W) : \E m \in 1 .. Len(made) : W[i] = made[m].addr
      /\ \A i, j \in 1 .. Len(W) : \A m, n \in 1 .. Len(made) :
           W[i] = made[m].addr /\ W[j] = made[n].addr /\ i < j => m < n
      /\ strategy \notin {"dfs", "bfs"}
  BY <1>1, <1>3 DEF HInv, SmartOK
<1>8. PICK k \in 1 .. (Len(W) + 1) : SmartAt(W, k)
  BY <1>1, <1>3 DEF HInv, SmartOK
<1>9. k = Len(W) + 1 /\ k > 1
  <2>1. k \notin 1 .. Len(W)
    BY <1>1, <1>6, <1>8 DEF SmartAt, At
  <2>2. k # 1
    BY <1>1, <1>8 DEF SmartAt
  <2> QED
    BY <1>6, <2>1, <2>2
<1>10. PICK j \in 1 .. Len(W) :
         /\ loc.insert = W[j] /\ loc.insert_prev = Behind(W, j)
         /\ \A i \in 1 .. Len(W) : KeyAt(W, i) < KeyAt(W, j) \/ (KeyAt(W, i) = KeyAt(W, j) /\ i <= j)
  <2>1. PICK j \in 1 .. (k - 1) :
         /\ loc.insert = W[j] /\ loc.insert_prev = Behind(W, j)
         /\ \A i \in 1 .. (k - 1) : KeyAt(W, i) < KeyAt(W, j) \/ (KeyAt(W, i) = KeyAt(W, j) /\ i <= j)
    BY <1>8, <1>9 DEF SmartAt
  <2>2. k - 1 = Len(W)
    BY <1>6, <1>9
  <2> QED
    BY <2>1, <2>2
<1>11. loc.insert = loc.insert_prev <=> j = 1
  <2>1. CASE j = 1
    BY <1>10, <2>1 DEF Behind, At
  <2>2. CASE j # 1
    <3>1. j - 1 \in 1 .. Len(W) /\ j - 1 # j
      BY <1>10, <2>2
    <3> QED
      BY <1>6, <1>10, <2>2, <3>1 DEF Behind
  <2> QED
    BY <2>1, <2>2
<1>12. j # 1 => loc.insert_prev = W[j - 1] /\ j - 1 \in 1 .. Len(W) /\ j - 1 # j
  BY <1>10 DEF Behind
<1>13. loc.succ = W[1] /\ loc.succ \in Addr
  <2>1. Len(W) # 0
    BY <1>10
  <2> QED
    BY <1>5, <2>1, ListFacts
<1> DEFINE next == heap[W[j]].next
           g == IF j = 1 THEN heap ELSE SetNext(heap, W[j - 1], next)
           p == IF j = 1 THEN next ELSE loc.succ
<1>14. /\ heap' = SetNext(g, W[j], open) /\ open' = W[j]
       /\ loc' = SmartTurn(p)
  BY <1>10, <1>11, <1>12, <1>13 DEF SmartLink, Unlinked
<1>15. W[j] \in Elems(W) /\ W[j] \in Addr
  BY <1>6, <1>10 DEF Elems
<1>16. /\ DOMAIN g = Addr
       /\ \A c \in Addr : /\ g[c].node = heap[c].node
                          /\ g[c].next = IF j > 1 /\ c = W[j - 1] THEN next ELSE heap[c].next
                          /\ g[c] = [node |-> g[c].node, next |-> g[c].next]
                          /\ c \notin Elems(W) => g[c] = heap[c]
  <2>1. Addr = DOMAIN heap /\ \A c \in Addr : heap[c] = [node |-> heap[c].node, next |-> heap[c].next]
    BY HeapFacts
  <2>2. CASE j = 1
    BY <2>1, <2>2
  <2>3. CASE j # 1
    <3>1. j > 1 /\ W[j - 1] \in Elems(W)
      BY <1>10, <1>12, <2>3 DEF Elems
    <3> DEFINE x == W[j - 1]
    <3>2. g = SetNext(heap, x, next) /\ x \in Elems(W)
      BY <2>3, <3>1
    <3> HIDE DEF g, x, next
    <3>6. \A c \in DOMAIN heap : heap[c] = [node |-> heap[c].node, next |-> heap[c].next]
      BY <2>1
    <3>3. /\ DOMAIN g = DOMAIN heap
          /\ \A c \in DOMAIN heap : /\ g[c].node = heap[c].node
                                    /\ g[c].next = IF c = x THEN next ELSE heap[c].next
                                    /\ g[c] = [node |-> g[c].node, next |-> g[c].next]
                                    /\ c # x => g[c] = heap[c]
      BY <3>2, <3>6, SetNextFacts
    <3>4. \A c \in Addr : c \notin Elems(W) => c # x
      BY <3>2
    <3>5. \A c : (j > 1 /\ c = W[j - 1]) <=> c = x
      BY <3>1 DEF x
    <3> QED
      BY <2>1, <3>3, <3>4, <3>5
  <2> QED
    BY <2>2, <2>3
<1> HIDE DEF g
<1>17. /\ DOMAIN heap' = Addr
       /\ \A c \in Addr : /\ heap'[c].node = heap[c].node
                          /\ heap'[c].next = IF c = W[j] THEN open
                                             ELSE IF j > 1 /\ c = W[j - 1] THEN next ELSE heap[c].next
                          /\ heap'[c] = [node |-> heap'[c].node, next |-> heap'[c].next]
                          /\ c \notin Elems(W) => heap'[c] = heap[c]
  <2>1. \A c \in DOMAIN g : g[c] = [node |-> g[c].node, next |-> g[c].next]
    BY <1>16
  <2> HIDE DEF next
  <2>2. /\ DOMAIN heap' = DOMAIN g
        /\ \A c \in DOMAIN g : /\ heap'[c].node = g[c].node
                               /\ heap'[c].next = IF c = W[j] THEN open ELSE g[c].next
                               /\ heap'[c] = [node |-> heap'[c].node, next |-> heap'[c].next]
                               /\ c # W[j] => heap'[c] = g[c]
    BY <1>14, <2>1, SetNextFacts
  <2>3. \A c \in Addr : c \notin Elems(W) => c # W[j]
    BY <1>15
  <2> QED
    BY <1>16, <2>2, <2>3
<1>18. HeapOK' /\ Addr' = Addr
  <2>1. Addr' = Addr
    BY <1>17 DEF Addr
  <2> QED
    BY <1>17, <2>1, HeapFacts DEF HeapOK
<1> DEFINE V == Without(W, j)
<1>19. /\ V \in Seq(Addr) /\ Len(V) = Len(W) - 1 /\ Len(V) \in Nat
       /\ \A i \in 1 .. (Len(W) - 1) : V[i] = IF i < j THEN W[i] ELSE W[i + 1]
       /\ Elems(V) = Elems(W) \ {W[j]}
  <2>1. W \in Seq(Addr) /\ j \in 1 .. Len(W)
    BY <1>6, <1>10
  <2> HIDE DEF V
  <2>2. /\ V \in Seq(Addr) /\ Len(V) = Len(W) - 1
        /\ \A i \in 1 .. (Len(W) - 1) : V[i] = IF i < j THEN W[i] ELSE W[i + 1]
    BY <2>1, WithoutFacts DEF V
  <2>3. \A i, l \in 1 .. Len(W) : W[i] = W[l] => i = l
    BY <1>6
  <2>4. Elems(V) = Elems(W) \ {W[j]}
    BY <2>1, <2>3, ElemsWithout DEF V
  <2>5. Len(V) \in Nat
    BY <2>2
  <2> QED
    BY <2>2, <2>4, <2>5
<1>20. Chain(heap', V, p)
  <2>1. \A a \in Elems(W) \ {W[j]} :
            a \in DOMAIN heap' /\ heap'[a].next = IF j > 1 /\ a = W[j - 1] THEN heap[W[j]].next ELSE heap[a].next
    BY <1>6, <1>17
  <2> QED
    BY <1>5, <1>10, <2>1, ChainWithout
<1> HIDE DEF V, next, p
<1>21. /\ Chain(heap', O, open) /\ NodesIn(heap', O) = NodesIn(heap, O)
       /\ Chain(heap', C, closed) /\ NodesIn(heap', C) = NodesIn(heap, C)
  <2>1. /\ \A a \in Elems(O) : a \in DOMAIN heap' /\ heap'[a] = heap[a]
        /\ \A a \in Elems(C) : a \in DOMAIN heap' /\ heap'[a] = heap[a]
    BY <1>5, <1>17 DEF Shared
  <2> QED
    BY <1>5, <2>1, Untouched
<1>22. heap'[cp] = heap[cp]
  BY <1>5, <1>17 DEF Shared
<1> DEFINE K == <<W[j]>> \o O
<1>23. Chain(heap', K, open') /\ Elems(K) = {W[j]} \cup Elems(O)
  <2>1. W[j] \in DOMAIN heap' /\ heap'[W[j]].next = open /\ W[j] \notin Elems(O)
    BY <1>5, <1>15, <1>17 DEF Shared
  <2>2. Chain(heap', K, W[j])
    BY <1>21, <2>1, ChainCons
  <2>3. <<W[j]>> \in Seq(Addr)
    BY <1>15
  <2>4. Elems(K) = Elems(<<W[j]>>) \cup Elems(O)
    <3>1. O \in Seq(Addr)
      BY <1>6
    <3> QED
      BY <2>3, <3>1, ElemsConcat
  <2> QED
    BY <1>14, <2>2, <2>4, ElemsOne
<1>24. NodesIn(heap', K) = <<heap[W[j]].node>> \o NodesIn(heap, O)
  <2>1. <<W[j]>> \in Seq(Addr)
    BY <1>15
  <2>2. NodesIn(heap', K) = NodesIn(heap', <<W[j]>>) \o NodesIn(heap', O)
    BY <1>6, <2>1, NodesInConcat
  <2>3. NodesIn(heap', <<W[j]>>) = <<heap'[W[j]].node>>
    BY NodesInOne
  <2> QED
    BY <1>15, <1>17, <1>21, <2>2, <2>3
<1> HIDE DEF K
<1>25. loc'.succ = p
  BY <1>14 DEF SmartTurn
<1>26. List(open)' = K /\ List(closed)' = C /\ List(WorkAt)' = V /\ List(loc.succ)' = V
  <2>1. Chain(heap', C, closed') /\ Chain(heap', V, WorkAt')
    BY <1>1, <1>4, <1>20, <1>21, <1>25
  <2>2. List(open)' = K /\ List(closed)' = C /\ List(WorkAt)' = V
    BY <1>18, <1>23, <2>1, ListsAfter
  <2> QED
    BY <1>4, <2>2
<1>27. ListsOK'
  <2>1. Shared(K, C, V, {cp}, Addr)
    BY <1>5, <1>15, <1>19, <1>23 DEF Shared
  <2>2. Chain(heap', C, closed') /\ Chain(heap', V, WorkAt')
    BY <1>1, <1>4, <1>20, <1>21, <1>25
  <2>3. heap'[cp].next = NULL
    BY <1>5, <1>22
  <2> QED
    BY <1>4, <1>18, <1>23, <1>26, <2>1, <2>2, <2>3 DEF ListsOK
<1>28. \A i \in 1 .. Len(V) : \E t \in 1 .. Len(W) : V[i] = W[t] /\ t = IF i < j THEN i ELSE i + 1
  <2> SUFFICES ASSUME NEW i \in 1 .. Len(V)
               PROVE  \E t \in 1 .. Len(W) : V[i] = W[t] /\ t = IF i < j THEN i ELSE i + 1
    OBVIOUS
  <2>1. i \in 1 .. Len(W) /\ i + 1 \in 1 .. Len(W) /\ i \in 1 .. (Len(W) - 1)
    BY <1>6, <1>19
  <2> QED
    BY <1>19, <2>1
<1>29. SmartOK'
  <2>1. \A i \in 1 .. Len(V) : \E m \in 1 .. Len(made) : V[i] = made[m].addr
    BY <1>7, <1>28
  <2>2. \A i, i2 \in 1 .. Len(V) : \A m, n \in 1 .. Len(made) :
           V[i] = made[m].addr /\ V[i2] = made[n].addr /\ i < i2 => m < n
    <3> SUFFICES ASSUME NEW i \in 1 .. Len(V), NEW i2 \in 1 .. Len(V), NEW m \in 1 .. Len(made),
                        NEW n \in 1 .. Len(made), V[i] = made[m].addr, V[i2] = made[n].addr, i < i2
                 PROVE  m < n
      OBVIOUS
    <3>1. PICK t \in 1 .. Len(W) : V[i] = W[t] /\ t = IF i < j THEN i ELSE i + 1
      BY <1>28
    <3>2. PICK t2 \in 1 .. Len(W) : V[i2] = W[t2] /\ t2 = IF i2 < j THEN i2 ELSE i2 + 1
      BY <1>28
    <3>3. t < t2
      BY <3>1, <3>2
    <3> QED
      BY <1>7, <3>1, <3>2, <3>3
  <2>3. p = At(V, 1)
    BY <1>20 DEF Chain
  <2>4. PICK n : n = 1
    OBVIOUS
  <2>5. /\ loc'.csucc = At(V, n) /\ loc'.prev = Behind(V, n)
        /\ n = 1 => loc'.insert = NULL /\ loc'.max_f = -1
        /\ n \in 1 .. (Len(V) + 1) /\ ~(n > 1)
    BY <1>14, <1>19, <2>3, <2>4 DEF SmartTurn, Behind
  <2>6. loc' = [succ |-> loc'.succ, csucc |-> loc'.csucc, prev |-> loc'.prev, insert |-> loc'.insert,
                insert_prev |-> loc'.insert_prev, max_f |-> loc'.max_f]
    BY <1>14 DEF SmartTurn
  <2>7. strategy' = strategy /\ made' = made /\ V = List(loc.succ)'
    BY <1>1, <1>26
  <2> QED
    BY <1>7, <2>1, <2>2, <2>5, <2>6, <2>7, SmartNext
<1>30. \A i \in 1 .. Len(made) : /\ made[i].addr \in Elems(O) \cup Elems(W) /\ made[i].addr \in Addr
                                 /\ heap[made[i].addr].node = made[i].node /\ made[i].node \in P!Node
  <2>1. \A i \in 1 .. Len(made) : made[i].addr \in Elems(O) \cup Elems(W)
    BY <1>1, <1>3, <1>4 DEF HInv, MadeOK
  <2> QED
    BY <1>1, <2>1, MadeNodes
<1>31. /\ made = [i \in 1 .. Len(made) |-> made[i]] /\ Len(made) \in Nat
       /\ \A i, l \in 1 .. Len(made) : made[i].addr = made[l].addr => i = l
       /\ succ = IF Len(made) = 0 THEN NULL ELSE made[1].addr
       /\ Len(made) >= 1
  BY <1>1 DEF HInv, MadeOK
<1>32. MadeOK'
  <2>1. \A i \in 1 .. Len(made') : /\ made'[i].addr \in Elems(List(open)') \cup Elems(List(WorkAt)')
                                   /\ heap'[made'[i].addr].node = made'[i].node
    BY <1>1, <1>17, <1>19, <1>23, <1>26, <1>30
  <2> QED
    BY <1>1, <1>31, <2>1 DEF MadeOK
<1>33. FilterOK' /\ StartOK' /\ PointersOK'
  <2>1. FilterOK'
    BY <1>4 DEF FilterOK
  <2>2. StartOK'
    <3>1. 1 \in Addr /\ heap[1].node.board = start /\ 1 \notin Elems(W)
      BY <1>4 DEF HInv, StartOK
    <3> QED
      BY <1>1, <1>17, <1>18, <1>19, <1>26, <3>1 DEF StartOK
  <2>3. PointersOK'
    BY <1>1, <1>4, <1>18 DEF PointersOK, HInv
  <2> QED
    BY <2>1, <2>2, <2>3
<1>34. HInv'
  BY <1>18, <1>27, <1>29, <1>32, <1>33 DEF HInv
<1>35. AbsOpen' = <<heap[W[j]].node>> \o AbsOpen /\ Nodes(closed)' = Nodes(closed) /\ AbsCp' = AbsCp
  <2>1. AbsOpen = NodesIn(heap, O)
    BY <1>1, <1>3, AbsFacts, NodesHere
  <2>2. AbsOpen' = NodesIn(heap', K)
    BY <1>1, <1>2, <1>26, NodesNext DEF AbsOpen
  <2>3. Nodes(closed)' = Nodes(closed)
    BY <1>3, <1>21, <1>26, NodesHere, NodesNext
  <2>4. AbsCp' = AbsCp
    BY <1>1, <1>22 DEF AbsCp
  <2> QED
    BY <1>24, <2>1, <2>2, <2>3, <2>4
<1>36. PICK m \in 1 .. Len(made) : W[j] = made[m].addr
  BY <1>7, <1>10
<1>37. /\ AbsSucc' = AbsSucc
       /\ \A i \in 1 .. Len(made) : AbsSucc[i] = made[i].node
       /\ AbsTodo = {i \in 1 .. Len(made) : made[i].addr \in Elems(W)}
       /\ AbsPc = "merge" /\ m \in AbsTodo
  <2>1. \A i \in 1 .. Len(made) : AbsSucc[i] = made[i].node
    BY <1>1, MadeNodes
  <2>2. AbsTodo = {i \in 1 .. Len(made) : made[i].addr \in Elems(W)}
        /\ AbsPc = IF AbsTodo = {} THEN "close" ELSE "merge"
    BY <1>1, <1>3, SmartAbs
  <2>3. m \in AbsTodo
    BY <1>15, <1>36, <2>2
  <2>4. AbsSucc' = AbsSucc
    BY <1>1, <1>4 DEF AbsSucc
  <2> QED
    BY <2>1, <2>2, <2>3, <2>4
<1>38. AbsTodo' = AbsTodo \ {m} /\ AbsPc' = IF AbsTodo' = {} THEN "close" ELSE "merge"
  <2>1. On(loc.succ)' = Elems(V)
    <3>1. DOMAIN V = 1 .. Len(V)
      BY <1>19
    <3> QED
      BY <1>26, <3>1 DEF On, Elems
  <2>2. AbsTodo' = {i \in DOMAIN made : made[i].addr \in On(loc.succ)'}
    BY <1>1, <1>4 DEF AbsTodo
  <2>3. AbsTodo' = {i \in 1 .. Len(made) : made[i].addr \in Elems(W) \ {W[j]}}
    BY <1>19, <2>1, <2>2, MadeFacts
  <2>4. \A i \in 1 .. Len(made) : made[i].addr = W[j] <=> i = m
    BY <1>31, <1>36
  <2>5. AbsTodo' = AbsTodo \ {m}
    BY <1>37, <2>3, <2>4
  <2>6. AbsPc' = IF AbsTodo' = {} THEN "close" ELSE "merge"
    BY <1>1, <1>4 DEF AbsPc
  <2> QED
    BY <2>5, <2>6
<1>39. AbsSucc[m] = heap[W[j]].node
  BY <1>30, <1>36, <1>37
<1>40. P!LastOfGreatest(m)
  <2> SUFFICES ASSUME NEW q \in AbsTodo
               PROVE  \/ P!Key(AbsSucc[q]) < P!Key(AbsSucc[m])
                      \/ P!Key(AbsSucc[q]) = P!Key(AbsSucc[m]) /\ q <= m
    BY DEF P!LastOfGreatest
  <2>1. q \in 1 .. Len(made) /\ made[q].addr \in Elems(W)
    BY <1>37
  <2>2. PICK t \in 1 .. Len(W) : made[q].addr = W[t]
    BY <2>1 DEF Elems
  <2>3. P!Key(AbsSucc[q]) = KeyAt(W, t) /\ P!Key(AbsSucc[m]) = KeyAt(W, j)
    BY <1>30, <1>37, <1>39, <2>1, <2>2 DEF KeyAt
  <2>4. KeyAt(W, t) < KeyAt(W, j) \/ (KeyAt(W, t) = KeyAt(W, j) /\ t <= j)
    BY <1>10
  <2>5. t <= j => q <= m
    <3>1. CASE t = j
      BY <1>31, <1>36, <2>1, <2>2, <3>1
    <3>2. CASE t < j
      <4>1. q < m
        BY <1>7, <1>36, <2>1, <2>2, <3>2
      <4> QED
        BY <4>1, <2>1
    <3> QED
      BY <3>1, <3>2
  <2> QED
    BY <2>3, <2>4, <2>5
<1>41. P!MergeSmart
  <2>1. AbsOpen' = P!prepend(<<AbsSucc[m]>>, AbsOpen)
    BY <1>35, <1>39 DEF P!prepend
  <2>2. \E i \in AbsTodo : /\ P!LastOfGreatest(i)
                           /\ AbsOpen' = P!prepend(<<AbsSucc[i]>>, AbsOpen)
                           /\ AbsTodo' = AbsTodo \ {i}
    BY <1>37, <1>38, <1>40, <2>1
  <2> QED
    BY <1>1, <1>7, <1>35, <1>37, <1>38, <2>2 DEF P!MergeSmart, P!args
<1> QED
  BY <1>34, <1>41

-----------------------------------------------------------------------------
(* The end of a turn of the loop.                                          *)

\* The list closed once the node in hand is behind it.
LEMMA ClosedGrows ==
  ASSUME HInv, cp \in Addr, heap[cp].next = NULL,
         NEW C, C = List(closed), Chain(heap, C, closed), cp \notin Elems(C),
         heap' = IF closed = NULL THEN heap ELSE Attached(heap, closed, cp),
         closed' = IF closed = NULL THEN cp ELSE closed
  PROVE  /\ HeapOK' /\ Addr' = Addr /\ DOMAIN heap' = Addr
         /\ Chain(heap', C \o <<cp>>, closed')
         /\ \A a \in Addr : heap'[a].node = heap[a].node
         /\ \A a \in Addr : a \notin Elems(C) => heap'[a] = heap[a]
<1>1. Addr = DOMAIN heap /\ NULL \notin Addr
  BY HeapFacts
<1>2. Chain(heap, <<cp>>, cp) /\ Elems(<<cp>>) = {cp}
  BY <1>1, ChainOne, ElemsOne
<1>3. C \in Seq(Addr) /\ Len(C) \in Nat /\ (closed = NULL <=> Len(C) = 0) /\ (closed = NULL <=> C = <<>>)
  BY ListFacts
<1>4. CASE closed = NULL
  <2>1. heap' = heap /\ closed' = cp /\ C = <<>>
    BY <1>3, <1>4
  <2>2. C \o <<cp>> = <<cp>>
    BY <2>1
  <2>3. HeapOK' /\ Addr' = Addr
    BY <2>1, HeapStays, HeapFacts DEF Addr
  <2> QED
    BY <1>1, <1>2, <2>1, <2>2, <2>3
<1>5. CASE closed # NULL
  <2>1. heap' = IF cp = NULL THEN heap ELSE SetNext(heap, C[Len(C)], cp)
    BY <1>1, <1>5 DEF Attached
  <2>2. closed' = closed /\ Len(C) >= 1
    BY <1>3, <1>5
  <2>3. Elems(C) \cap Elems(<<cp>>) = {}
    BY <1>2
  <2>4. PICK M : M = <<cp>>
    OBVIOUS
  <2> QED
    BY <1>2, <2>1, <2>2, <2>3, <2>4, Joined
<1> QED
  BY <1>4, <1>5

LEMMA CloseHInv == HInv /\ P!IInv /\ Close => HInv' /\ P!Close
<1> SUFFICES ASSUME HInv, P!IInv, Close PROVE HInv' /\ P!Close
  OBVIOUS
<1>1. /\ pc = "close"
      /\ heap' = IF closed = NULL THEN heap ELSE Attached(heap, closed, cp)
      /\ closed' = IF closed = NULL THEN cp ELSE closed
      /\ UNCHANGED <<strategy, start, open, succ, loc, path, made, lastOpen>>
      /\ pc' \in {"path", "loop"}
  BY DEF Close, args, hist
<1>2. outcome = "searching" /\ path = <<>>
  BY <1>1, AbsFacts
<1>3. PICK O, C : O = List(open) /\ C = List(closed)
  OBVIOUS
<1>4. /\ ~Filtering /\ WorkAt = NULL /\ ~Filtering' /\ WorkAt' = NULL
      /\ Hand = {cp} /\ ~Unlisted /\ ~InHand'
  <2>1. ~Filtering /\ ~Filtering' /\ InHand /\ ~InHand'
    BY <1>1 DEF Filtering, InHand
  <2>2. ~Unlisted
    BY <1>1, <1>2 DEF Unlisted
  <2>3. WorkAt = NULL /\ WorkAt' = NULL
    BY <1>1, <2>1 DEF WorkAt
  <2> QED
    BY <2>1, <2>2, <2>3 DEF Hand
<1>5. List(WorkAt) = <<>>
  <2>1. Chain(heap, List(WorkAt), WorkAt)
    BY HeapFacts DEF ListsOK
  <2> QED
    BY <1>4, <2>1, ListFacts
<1>6. /\ Chain(heap, O, open) /\ Chain(heap, C, closed)
      /\ Shared(O, C, <<>>, {cp}, Addr) /\ heap[cp].next = NULL /\ cp \in Addr
  <2>1. /\ Chain(heap, O, open) /\ Chain(heap, C, closed)
        /\ Shared(O, C, <<>>, {cp}, Addr) /\ heap[cp].next = NULL
    BY <1>3, <1>4, <1>5, HeapFacts DEF ListsOK
  <2> QED
    BY <2>1 DEF Shared
<1>7. /\ Elems(O) \cap Elems(C) = {} /\ cp \notin Elems(O) /\ cp \notin Elems(C)
      /\ Elems(O) \cup Elems(C) \cup {cp} = Addr
  BY <1>6, ElemsEmpty DEF Shared
<1> DEFINE K == C \o <<cp>>
<1>8. /\ HeapOK' /\ Addr' = Addr /\ DOMAIN heap' = Addr
      /\ Chain(heap', K, closed')
      /\ \A a \in Addr : heap'[a].node = heap[a].node
      /\ \A a \in Addr : a \notin Elems(C) => heap'[a] = heap[a]
  BY <1>1, <1>3, <1>6, <1>7, ClosedGrows
<1>9. O \in Seq(Addr) /\ C \in Seq(Addr) /\ <<cp>> \in Seq(Addr) /\ NULL \notin Addr
  BY <1>6, ListFacts, HeapFacts
<1>10. /\ K \in Seq(Addr) /\ Elems(K) = Elems(C) \cup {cp}
       /\ NodesIn(heap, K) = NodesIn(heap, C) \o <<heap[cp].node>>
  <2>1. C \in Seq(Addr) /\ <<cp>> \in Seq(Addr)
    BY <1>9
  <2>2. Elems(K) = Elems(C) \cup Elems(<<cp>>)
    BY <2>1, ElemsConcat
  <2>3. NodesIn(heap, K) = NodesIn(heap, C) \o NodesIn(heap, <<cp>>)
    BY <2>1, NodesInConcat
  <2>4. K \in Seq(Addr)
    BY <2>1, ConcatType
  <2> QED
    BY <2>2, <2>3, <2>4, ElemsOne, NodesInOne
<1>11. Len(K) >= 1 /\ K[Len(K)] = cp
  BY <1>9
<1> HIDE DEF K
<1>12. Chain(heap', O, open') /\ NodesIn(heap', O) = NodesIn(heap, O)
  <2>1. \A a \in Elems(O) : a \in DOMAIN heap' /\ heap'[a] = heap[a]
    BY <1>7, <1>8
  <2> QED
    BY <1>1, <1>6, <2>1, Untouched
<1>13. NodesIn(heap', K) = NodesIn(heap, K)
  <2>1. \A a \in Elems(K) : heap'[a].node = heap[a].node
    BY <1>7, <1>8, <1>10
  <2> QED
    BY <1>10, <2>1, NodesInSame
<1>14. List(open)' = O /\ List(closed)' = K /\ List(WorkAt)' = <<>> /\ Chain(heap', <<>>, WorkAt')
  <2>1. Chain(heap', <<>>, WorkAt')
    BY <1>4, ChainEmpty
  <2> QED
    BY <1>8, <1>12, <2>1, ListsAfter
<1>15. /\ made = [i \in 1 .. Len(made) |-> made[i]] /\ Len(made) \in Nat
       /\ succ = IF Len(made) = 0 THEN NULL ELSE made[1].addr
       /\ \A i \in 1 .. Len(made) : made[i].addr \in Elems(O)
  <2>1. \A i \in 1 .. Len(made) : made[i].addr \in Elems(O) \cup Elems(<<>>)
    BY <1>1, <1>3, <1>5 DEF HInv, MadeOK
  <2>2. /\ made = [i \in 1 .. Len(made) |-> made[i]] /\ Len(made) \in Nat
        /\ succ = IF Len(made) = 0 THEN NULL ELSE made[1].addr
    BY <1>1 DEF HInv, MadeOK
  <2> QED
    BY <2>1, <2>2, ElemsEmpty
<1>16. /\ AbsSucc \in Seq(P!Node) /\ Len(AbsSucc) = Len(made)
       /\ \A i \in 1 .. Len(made) : heap[made[i].addr].node = AbsSucc[i] /\ made[i].addr \in Addr
  BY <1>1, MadeNodes, AbsFacts
<1>17. /\ succ # NULL <=> AbsSucc # <<>>
       /\ succ # NULL => succ \in Elems(O) /\ succ \in Addr /\ heap[succ].node = AbsSucc[1]
  BY <1>9, <1>15, <1>16
<1>18. open = NULL <=> AbsOpen = <<>>
  <2>1. AbsOpen = NodesIn(heap, O)
    BY <1>1, <1>3, AbsFacts, NodesHere
  <2>2. Len(NodesIn(heap, O)) = Len(O)
    BY <1>9, NodesInFacts
  <2>3. open = NULL <=> Len(O) = 0
    BY <1>6, ListFacts
  <2>4. AbsOpen = <<>> <=> Len(AbsOpen) = 0
    BY AbsFacts
  <2> QED
    BY <2>1, <2>2, <2>3, <2>4
<1>19. open = NULL => succ = NULL
  <2>1. P!WalkIsSafe
    BY P!IInvIsSafe, Assumptions
  <2>2. AbsPc = "close"
    BY <1>1, CloseAbs
  <2> QED
    BY <1>17, <1>18, <2>1, <2>2 DEF P!WalkIsSafe
<1> DEFINE found == succ # NULL /\ heap[succ].node.board = GoalBoard
<1>20. \/ /\ found /\ cp' = succ /\ leaf' = GoalBoard /\ outcome' = "found" /\ pc' = "path"
       \/ /\ ~found /\ open = NULL /\ succ = NULL /\ cp' = cp
          /\ leaf' = heap[cp].node.board /\ outcome' = "exhausted" /\ pc' = "path"
       \/ /\ ~found /\ open # NULL /\ cp' = IF succ = NULL THEN cp ELSE NULL
          /\ leaf' = leaf /\ outcome' = outcome /\ pc' = "loop"
  BY <1>19 DEF Close
<1>21. found <=> AbsSucc # <<>> /\ P!goal_found(AbsSucc[1])
  BY <1>17, SameGoal DEF P!goal_found
<1> HIDE DEF found
<1>22. ~Unlisted' /\ Hand' = {}
  <2>1. pc' # "solvable" /\ outcome' # "rejected"
    BY <1>1, <1>2, <1>20
  <2>2. ~Unlisted'
    BY <1>1, <2>1 DEF Unlisted
  <2> QED
    BY <1>4, <2>2 DEF Hand
<1>23. ListsOK'
  <2>1. Shared(O, K, <<>>, {}, Addr)
    BY <1>7, <1>10, ElemsEmpty DEF Shared
  <2> QED
    BY <1>8, <1>12, <1>14, <1>22, <2>1 DEF ListsOK
<1>24. FilterOK' /\ SmartOK' /\ MadeOK' /\ StartOK'
  <2>1. FilterOK' /\ SmartOK'
    BY <1>1, <1>4 DEF FilterOK, SmartOK
  <2>2. MadeOK'
    BY <1>1, <1>15 DEF MadeOK
  <2>3. StartOK'
    <3>1. 1 \in Addr /\ heap[1].node.board = start
      BY DEF HInv, StartOK
    <3> QED
      BY <1>1, <1>8, <1>14, <3>1, ElemsEmpty DEF StartOK
  <2> QED
    BY <2>1, <2>2, <2>3
<1>25. PointersOK'
  <2>1. /\ cp' = NULL \/ cp' \in Addr' 
        /\ succ' = NULL \/ succ' \in Addr'
    BY <1>1, <1>6, <1>8, <1>17, <1>20 DEF found
  <2>2. pc' = "path" => /\ cp' \in Addr' /\ outcome' \in {"found", "exhausted"}
                        /\ outcome' = "found" => cp' \in Elems(List(open)')
                        /\ outcome' = "exhausted" =>
                             Len(List(closed)') >= 1 /\ cp' = List(closed)'[Len(List(closed)')]
    BY <1>6, <1>8, <1>11, <1>14, <1>17, <1>20 DEF found
  <2> QED
    BY <1>1, <1>22, <2>1, <2>2 DEF PointersOK
<1>26. HInv'
  BY <1>8, <1>23, <1>24, <1>25 DEF HInv
<1>27. /\ AbsOpen' = AbsOpen /\ AbsSucc' = AbsSucc /\ AbsTodo' = AbsTodo
       /\ AbsPc = "close" /\ AbsPc' = pc' /\ AbsCp = heap[cp].node
       /\ Nodes(closed)' = Append(Nodes(closed), AbsCp)
  <2>1. AbsOpen' = AbsOpen
    <3>1. AbsOpen = NodesIn(heap, O)
      BY <1>1, <1>3, AbsFacts, NodesHere
    <3>2. AbsOpen' = NodesIn(heap', O)
      BY <1>1, <1>2, <1>14, NodesNext DEF AbsOpen
    <3> QED
      BY <1>12, <3>1, <3>2
  <2>2. AbsSucc' = AbsSucc
    BY <1>1, <1>4 DEF AbsSucc
  <2>3. AbsTodo' = {} /\ AbsPc' = pc' /\ AbsTodo = {} /\ AbsPc = "close"
    BY <1>1, <1>4, CloseAbs DEF AbsTodo, AbsPc
  <2>4. AbsCp = heap[cp].node
    BY <1>6, <1>9 DEF AbsCp
  <2>5. Nodes(closed)' = Nodes(closed) \o <<AbsCp>>
    BY <1>3, <1>10, <1>13, <1>14, <2>4, NodesHere, NodesNext
  <2>6. Nodes(closed) \o <<AbsCp>> = Append(Nodes(closed), AbsCp)
    <3>1. Nodes(closed) \in Seq(P!Node)
      BY AbsFacts
    <3> QED
      BY <3>1
  <2> QED
    BY <2>1, <2>2, <2>3, <2>4, <2>5, <2>6
<1>28. P!Close
  <2>1. CASE found
    <3>1. /\ cp' = succ /\ leaf' = GoalBoard /\ outcome' = "found" /\ pc' = "path"
      BY <1>20, <2>1
    <3>2. AbsCp' = AbsSucc[1]
      BY <1>8, <1>9, <1>17, <2>1, <3>1 DEF AbsCp, found
    <3> QED
      BY <1>1, <1>21, <1>27, <2>1, <3>1, <3>2, SameGoal DEF P!Close, P!args, P!search
  <2>2. CASE ~found /\ open = NULL
    <3>1. /\ succ = NULL /\ cp' = cp
          /\ leaf' = heap[cp].node.board /\ outcome' = "exhausted" /\ pc' = "path"
      BY <1>20, <2>2
    <3>2. AbsCp' = AbsCp
      BY <1>6, <1>8, <1>9, <3>1 DEF AbsCp
    <3> QED
      BY <1>1, <1>17, <1>18, <1>21, <1>27, <2>2, <3>1, <3>2 DEF P!Close, P!args, P!search
  <2>3. CASE ~found /\ open # NULL
    <3>1. /\ cp' = IF succ = NULL THEN cp ELSE NULL
          /\ leaf' = leaf /\ outcome' = outcome /\ pc' = "loop"
      BY <1>20, <2>3
    <3>2. AbsCp' = IF AbsSucc = <<>> THEN AbsCp ELSE NULL
      BY <1>6, <1>8, <1>9, <1>17, <3>1 DEF AbsCp
    <3> QED
      BY <1>1, <1>18, <1>21, <1>27, <2>3, <3>1, <3>2 DEF P!Close, P!args, P!search
  <2> QED
    BY <2>1, <2>2, <2>3
<1> QED
  BY <1>26, <1>28

-----------------------------------------------------------------------------
(* find_parent, which writes to a node of the lists.                       *)

\* The first node with a board, which both programs look for.
LEMMA FirstMatch ==
  ASSUME NEW s \in Seq(P!Node), NEW b, \E j \in 1 .. Len(s) : s[j].board = b
  PROVE  \E m \in 1 .. Len(s) :
           /\ s[m].board = b
           /\ (CHOOSE j \in DOMAIN s : P!IsFirstMatch(s, b, j)) = m
           /\ (CHOOSE j \in DOMAIN s : s[j].board = b /\ \A i \in 1 .. (j - 1) : s[i].board # b) = m
<1> DEFINE S == {j \in 1 .. Len(s) : s[j].board = b}
           Q(j) == s[j].board = b /\ \A i \in 1 .. (j - 1) : s[i].board # b
<1>1. S \in SUBSET Nat /\ S # {} /\ DOMAIN s = 1 .. Len(s) /\ Len(s) \in Nat
  OBVIOUS
<1>2. PICK m \in S : \A k \in S : m <= k
  BY <1>1, LeastElement
<1>3. m \in 1 .. Len(s) /\ s[m].board = b /\ \A i \in 1 .. Len(s) : s[i].board = b => m <= i
  BY <1>2
<1>4. \A j \in DOMAIN s : P!IsFirstMatch(s, b, j) <=> j = m
  BY <1>1, <1>3 DEF P!IsFirstMatch
<1>5. \A j \in DOMAIN s : Q(j) <=> j = m
  <2>1. Q(m)
    BY <1>1, <1>3
  <2>2. ASSUME NEW j \in 1 .. Len(s), Q(j) PROVE j = m
    <3>1. m <= j
      BY <1>3, <2>2
    <3>2. m \in 1 .. (j - 1) => FALSE
      BY <1>3, <2>2
    <3> QED
      BY <1>1, <1>3, <3>1, <3>2
  <2> HIDE DEF Q
  <2> QED
    BY <1>1, <2>1, <2>2
<1> HIDE DEF Q
<1>6. (CHOOSE j \in DOMAIN s : P!IsFirstMatch(s, b, j)) = m
  BY <1>1, <1>3, <1>4
<1>7. (CHOOSE j \in DOMAIN s : Q(j)) = m
  BY <1>1, <1>3, <1>5
<1> QED
  BY <1>3, <1>6, <1>7 DEF Q

\* A write to the nodes alone leaves every list as it is linked.
LEMMA WritesKeepLists ==
  ASSUME HInv, NEW L, NEW p, Chain(heap, L, p), DOMAIN heap' = Addr,
         \A a \in Addr : heap'[a].next = heap[a].next
  PROVE  Chain(heap', L, p)
<1>1. Elems(L) \subseteq Addr
  BY ListFacts
<1>2. \A a \in Elems(L) : a \in DOMAIN heap' /\ heap'[a].next = heap[a].next
  BY <1>1
<1> QED
  BY <1>2, ChainSame

LEMMA FindParentHInv == HInv /\ P!IInv /\ FindParent => HInv' /\ P!FindParent
<1> SUFFICES ASSUME HInv, P!IInv, FindParent PROVE HInv' /\ P!FindParent
  OBVIOUS
<1> DEFINE dir == heap[cp].node.dir
           b == Undo(heap[cp].node.board, dir)
           h == [heap EXCEPT ![cp].node.board = b]
           row == h[RowFrom(h)].node
<1>1. /\ pc = "path" /\ heap[cp].node.board # StartBoard
      /\ heap' = [h EXCEPT ![cp].node = [row EXCEPT !.board = b]]
      /\ path' = Append(path, dir)
      /\ pc' = IF Len(path') >= MaxPath THEN "done" ELSE "path"
      /\ lastOpen' = IF path = <<>> THEN Nodes(open) ELSE lastOpen
      /\ UNCHANGED <<strategy, start, open, closed, cp, succ, loc, leaf, outcome, made>>
  BY DEF FindParent, args
<1>2. PICK O, C : O = List(open) /\ C = List(closed)
  OBVIOUS
<1>3. /\ cp \in Addr /\ outcome \in {"found", "exhausted"}
      /\ outcome = "found" => cp \in Elems(O)
      /\ outcome = "exhausted" => Len(C) >= 1 /\ cp = C[Len(C)]
  BY <1>1, <1>2 DEF HInv, PointersOK
<1>4. /\ ~Filtering /\ WorkAt = NULL /\ ~Filtering' /\ WorkAt' = NULL
      /\ ~Unlisted /\ Hand = {} /\ ~Unlisted' /\ Hand' = {}
  <2>1. ~Filtering /\ ~Filtering' /\ ~InHand /\ ~InHand'
    BY <1>1 DEF Filtering, InHand
  <2>2. ~Unlisted /\ ~Unlisted'
    BY <1>1, <1>3 DEF Unlisted
  <2>3. WorkAt = NULL /\ WorkAt' = NULL
    BY <1>1, <2>1 DEF WorkAt
  <2> QED
    BY <2>1, <2>2, <2>3 DEF Hand
<1>5. List(WorkAt) = <<>>
  <2>1. Chain(heap, List(WorkAt), WorkAt)
    BY HeapFacts DEF ListsOK
  <2> QED
    BY <1>4, <2>1, ListFacts
<1>6. /\ Chain(heap, O, open) /\ Chain(heap, C, closed) /\ Shared(O, C, <<>>, {}, Addr)
      /\ Elems(O) \cap Elems(C) = {}
  <2>1. Chain(heap, O, open) /\ Chain(heap, C, closed) /\ Shared(O, C, <<>>, {}, Addr)
    BY <1>2, <1>4, <1>5, HeapFacts DEF ListsOK
  <2> QED
    BY <2>1 DEF Shared
<1>7. /\ C \in Seq(Addr) /\ Len(C) \in Nat /\ DOMAIN C = 1 .. Len(C)
      /\ \A i \in 1 .. Len(C) : C[i] \in Addr
      /\ \A i, j \in 1 .. Len(C) : C[i] = C[j] => i = j
  BY <1>6, ListFacts
<1>8. O \in Seq(Addr)
  BY <1>6, ListFacts
<1>9. /\ Addr = DOMAIN heap /\ NULL \notin Addr
      /\ \A a \in Addr : heap[a] = [node |-> heap[a].node, next |-> heap[a].next]
  BY HeapFacts
<1>10. AbsCp = heap[cp].node /\ AbsCp \in P!Node
  <2>1. AbsCp = heap[cp].node
    BY <1>3, <1>9 DEF AbsCp
  <2>2. AbsPc = "path"
    BY <1>1, <1>4 DEF AbsPc
  <2> QED
    BY <2>1, <2>2 DEF P!IInv, P!WalkHasParent
<1>11. b = P!Undo(AbsCp.board, AbsCp.dir) /\ dir = AbsCp.dir
  BY <1>10, SameUndo
<1> HIDE DEF b, dir, row
<1>12. /\ DOMAIN h = Addr
       /\ \A a \in Addr : a # cp => h[a] = heap[a]
       /\ h[cp] = [node |-> [heap[cp].node EXCEPT !.board = b], next |-> heap[cp].next]
       /\ h[cp].node = [heap[cp].node EXCEPT !.board = b] /\ h[cp].node.board = b
  <2>1. h = [heap EXCEPT ![cp] = [heap[cp] EXCEPT !.node = [heap[cp].node EXCEPT !.board = b]]]
    OBVIOUS
  <2>2. [heap[cp] EXCEPT !.node = [heap[cp].node EXCEPT !.board = b]]
          = [node |-> [heap[cp].node EXCEPT !.board = b], next |-> heap[cp].next]
    BY <1>3, <1>9
  <2>3. [heap[cp].node EXCEPT !.board = b].board = b
    BY <1>10 DEF P!Node
  <2> QED
    BY <1>3, <1>9, <2>1, <2>2, <2>3
<1> HIDE DEF h
<1>13. /\ DOMAIN heap' = Addr
       /\ \A a \in Addr : a # cp => heap'[a] = heap[a]
       /\ heap'[cp] = [node |-> [row EXCEPT !.board = b], next |-> heap[cp].next]
       /\ heap'[cp].node = [row EXCEPT !.board = b]
       /\ \A a \in Addr : heap'[a].next = heap[a].next
  <2>1. heap' = [h EXCEPT ![cp] = [@ EXCEPT !.node = [row EXCEPT !.board = b]]]
    BY <1>1
  <2>2. [h[cp] EXCEPT !.node = [row EXCEPT !.board = b]] = [node |-> [row EXCEPT !.board = b], next |-> heap[cp].next]
    BY <1>12
  <2> QED
    BY <1>3, <1>12, <2>1, <2>2
<1>14. HeapOK' /\ Addr' = Addr
  <2>1. Addr' = Addr
    BY <1>13 DEF Addr
  <2>2. \A a \in Addr : heap'[a] = [node |-> heap'[a].node, next |-> heap'[a].next]
    BY <1>9, <1>13
  <2> QED
    BY <2>1, <2>2, HeapFacts DEF HeapOK
<1>15. Chain(heap', O, open') /\ Chain(heap', C, closed') /\ Chain(heap', <<>>, WorkAt')
  BY <1>1, <1>4, <1>6, <1>13, WritesKeepLists, ChainEmpty
<1>16. List(open)' = O /\ List(closed)' = C /\ List(WorkAt)' = <<>>
  BY <1>14, <1>15, ListsAfter
<1>17. ListsOK'
  BY <1>4, <1>6, <1>14, <1>15, <1>16 DEF ListsOK
<1>18. cp # 1 /\ 1 \in Addr /\ heap[1].node.board = start
  BY <1>1 DEF StartBoard, HInv, StartOK
<1>19. HInv'
  <2>1. FilterOK' /\ SmartOK'
    BY <1>1, <1>4 DEF FilterOK, SmartOK
  <2>2. MadeOK'
    <3>1. made = [i \in 1 .. Len(made) |-> made[i]] /\ Len(made) \in Nat
      BY DEF HInv, MadeOK
    <3> QED
      BY <1>1, <3>1 DEF MadeOK
  <2>3. StartOK'
    BY <1>1, <1>13, <1>14, <1>16, <1>18, ElemsEmpty DEF StartOK
  <2>4. PointersOK'
    <3>1. /\ cp' \in Addr' /\ (succ' = NULL \/ succ' \in Addr')
          /\ pc' \in {"path", "done"} /\ outcome' \in {"found", "exhausted"}
      BY <1>1, <1>3, <1>14 DEF HInv, PointersOK
    <3>2. /\ outcome' = "found" => cp' \in Elems(List(open)')
          /\ outcome' = "exhausted" =>
               Len(List(closed)') >= 1 /\ cp' = List(closed)'[Len(List(closed)')]
      BY <1>1, <1>3, <1>16
    <3> QED
      BY <1>4, <3>1, <3>2 DEF PointersOK
  <2> QED
    BY <1>14, <1>17, <2>1, <2>2, <2>3, <2>4 DEF HInv
<1> DEFINE cl == NodesIn(h, C)
<1>20. /\ Nodes(closed) = NodesIn(heap, C) /\ Nodes(closed)' = NodesIn(heap', C)
       /\ Nodes(closed) \in Seq(P!Node)
  <2>1. Nodes(closed) \in Seq(P!Node)
    BY AbsFacts
  <2> QED
    BY <1>2, <1>16, <2>1, NodesHere, NodesNext
<1>21. /\ cl = [i \in 1 .. Len(C) |-> h[C[i]].node]
       /\ Nodes(closed) = [i \in 1 .. Len(C) |-> heap[C[i]].node]
       /\ Nodes(closed)' = [i \in 1 .. Len(C) |-> heap'[C[i]].node]
       /\ Len(cl) = Len(C) /\ DOMAIN cl = 1 .. Len(C)
       /\ Len(Nodes(closed)) = Len(C) /\ DOMAIN Nodes(closed) = 1 .. Len(C)
  <2>1. \A f : /\ NodesIn(f, C) = [i \in 1 .. Len(C) |-> f[C[i]].node]
              /\ Len(NodesIn(f, C)) = Len(C) /\ DOMAIN NodesIn(f, C) = 1 .. Len(C)
    <3>1. C \in Seq(Addr)
      BY <1>7
    <3> QED
      BY <3>1, NodesInFacts
  <2> QED
    BY <1>20, <2>1
<1> HIDE DEF cl
<1>22. cl = P!Undone(b)
  <2>1. CASE outcome = "exhausted"
    <3>1. Len(C) \in 1 .. Len(C) /\ cp = C[Len(C)]
      BY <1>3, <1>7, <2>1
    <3>2. \A i \in 1 .. Len(C) : i # Len(C) => C[i] # cp
      BY <1>7, <3>1
    <3>3. Nodes(closed)[Len(C)] = heap[cp].node
      BY <1>21, <3>1
    <3>4. P!Undone(b) = [Nodes(closed) EXCEPT ![Len(C)].board = b]
      BY <1>21, <2>1 DEF P!Undone
    <3>5. [Nodes(closed) EXCEPT ![Len(C)].board = b]
            = [i \in 1 .. Len(C) |-> IF i = Len(C) THEN [heap[cp].node EXCEPT !.board = b]
                                                   ELSE heap[C[i]].node]
      BY <1>21, <3>1, <3>3
    <3>6. \A i \in 1 .. Len(C) : h[C[i]].node = IF i = Len(C) THEN [heap[cp].node EXCEPT !.board = b]
                                                              ELSE heap[C[i]].node
      BY <1>7, <1>12, <3>1, <3>2
    <3>7. cl = [i \in 1 .. Len(C) |-> h[C[i]].node]
      BY <1>21
    <3>8. cl = [i \in 1 .. Len(C) |-> IF i = Len(C) THEN [heap[cp].node EXCEPT !.board = b]
                                                     ELSE heap[C[i]].node]
      BY <3>6, <3>7
    <3> QED
      BY <3>4, <3>5, <3>8
  <2>2. CASE outcome = "found"
    <3>1. \A i \in 1 .. Len(C) : C[i] # cp
      BY <1>3, <1>6, <2>2 DEF Elems
    <3>2. \A i \in 1 .. Len(C) : h[C[i]].node = heap[C[i]].node
      BY <1>7, <1>12, <3>1
    <3>3. P!Undone(b) = Nodes(closed)
      BY <2>2 DEF P!Undone
    <3> QED
      BY <1>21, <3>2, <3>3
  <2> QED
    BY <1>3, <2>1, <2>2
<1>23. b \in P!Board
  <2>1. AbsPc = "path" /\ P!WalkIsSafe
    BY <1>1, <1>4, P!IInvIsSafe, Assumptions DEF AbsPc
  <2>2. \E j \in P!Intact : Nodes(closed)[j].board = b
    BY <1>1, <1>10, <1>11, <1>18, <2>1 DEF P!WalkIsSafe, StartBoard
  <2>3. \A j \in P!Intact : Nodes(closed)[j] \in P!Node
    BY <1>7, <1>20, <1>21 DEF P!Intact
  <2> QED
    BY <2>2, <2>3 DEF P!Node
<1>24. cl \in Seq(P!Node) /\ \E j \in 1 .. Len(cl) : cl[j].board = b
  <2>1. \A i \in 1 .. Len(C) : cl[i] \in P!Node
    <3> SUFFICES ASSUME NEW i \in 1 .. Len(C) PROVE h[C[i]].node \in P!Node
      BY <1>21
    <3>1. heap[C[i]].node \in P!Node /\ C[i] \in Addr
      BY <1>7, <1>20, <1>21
    <3>2. [heap[cp].node EXCEPT !.board = b] \in P!Node
      BY <1>10, <1>23 DEF P!Node
    <3> QED
      BY <1>12, <3>1, <3>2
  <2>2. cl \in Seq(P!Node)
    <3>1. cl = [i \in 1 .. Len(C) |-> cl[i]]
      BY <1>21
    <3> QED
      BY <1>7, <2>1, <3>1, SeqIs
  <2>3. AbsPc = "path" /\ P!WalkIsSafe
    BY <1>1, <1>4, P!IInvIsSafe, Assumptions DEF AbsPc
  <2>4. PICK j \in P!Intact : Nodes(closed)[j].board = b
    BY <1>1, <1>10, <1>11, <1>18, <2>3 DEF P!WalkIsSafe, StartBoard
  <2>5. j \in 1 .. Len(C) /\ (outcome = "exhausted" => j # Len(C))
    <3>1. P!Intact = IF outcome = "exhausted" THEN 1 .. (Len(C) - 1) ELSE 1 .. Len(C)
      BY <1>21 DEF P!Intact
    <3>2. j \in IF outcome = "exhausted" THEN 1 .. (Len(C) - 1) ELSE 1 .. Len(C)
      BY <2>4, <3>1
    <3>3. PICK n : n = Len(C)
      OBVIOUS
    <3>4. n \in Nat /\ j \in IF outcome = "exhausted" THEN 1 .. (n - 1) ELSE 1 .. n
      BY <1>7, <3>2, <3>3
    <3>5. j \in 1 .. n /\ (outcome = "exhausted" => j # n)
      <4>1. CASE outcome = "exhausted"
        BY <3>4, <4>1
      <4>2. CASE outcome # "exhausted"
        BY <3>4, <4>2
      <4> QED
        BY <4>1, <4>2
    <3> QED
      BY <3>3, <3>5
  <2>6. C[j] # cp
    <3>1. CASE outcome = "found"
      <4>1. C[j] \in Elems(C)
        BY <2>5 DEF Elems
      <4> QED
        BY <1>3, <1>6, <3>1, <4>1
    <3>2. CASE outcome = "exhausted"
      <4>1. Len(C) \in 1 .. Len(C)
        BY <1>3, <1>7, <3>2
      <4> QED
        BY <1>3, <1>7, <2>5, <3>2, <4>1
    <3> QED
      BY <1>3, <3>1, <3>2
  <2>7. cl[j].board = b
    BY <1>7, <1>12, <1>21, <2>4, <2>5, <2>6
  <2> QED
    BY <1>21, <2>2, <2>5, <2>7
<1>25. PICK m \in 1 .. Len(cl) :
         /\ cl[m].board = b
         /\ (CHOOSE j \in DOMAIN cl : P!IsFirstMatch(cl, b, j)) = m
         /\ (CHOOSE j \in DOMAIN cl : cl[j].board = b /\ \A i \in 1 .. (j - 1) : cl[i].board # b) = m
  BY <1>24, FirstMatch
<1>26. RowFrom(h) = C[m]
  <2> DEFINE Q(j) == h[C[j]].node.board = h[cp].node.board
                     /\ \A i \in 1 .. (j - 1) : h[C[i]].node.board # h[cp].node.board
             R(j) == cl[j].board = b /\ \A i \in 1 .. (j - 1) : cl[i].board # b
  <2>1. RowFrom(h) = C[CHOOSE j \in DOMAIN C : Q(j)]
    BY <1>2 DEF RowFrom
  <2>2. \A j \in 1 .. Len(C) : Q(j) <=> R(j)
    <3>1. \A j \in 1 .. Len(C) : cl[j] = h[C[j]].node
      BY <1>21
    <3>2. \A j \in 1 .. Len(C) : \A i \in 1 .. (j - 1) : i \in 1 .. Len(C)
      BY <1>7
    <3> QED
      BY <1>12, <3>1, <3>2
  <2> HIDE DEF Q, R
  <2>3. (CHOOSE j \in DOMAIN C : Q(j)) = (CHOOSE j \in DOMAIN cl : R(j))
    BY <1>7, <1>21, <2>2
  <2>4. (CHOOSE j \in DOMAIN cl : R(j)) = m
    BY <1>25 DEF R
  <2> QED
    BY <2>1, <2>3, <2>4
<1>27. row = cl[m] /\ row \in P!Node /\ row.board = b
  <2>1. row = h[C[m]].node
    BY <1>26 DEF row
  <2> QED
    BY <1>21, <1>24, <1>25, <2>1
<1>28. heap'[cp].node = cl[m]
  <2>1. [row EXCEPT !.board = b] = row
    BY <1>27 DEF P!Node
  <2> QED
    BY <1>13, <1>27, <2>1
<1>29. AbsCp' = cl[CHOOSE j \in DOMAIN cl : P!IsFirstMatch(cl, b, j)]
  BY <1>1, <1>3, <1>9, <1>25, <1>28 DEF AbsCp
<1>30. Nodes(closed)' = IF outcome = "exhausted" THEN [cl EXCEPT ![Len(cl)] = AbsCp'] ELSE cl
  <2>1. AbsCp' = heap'[cp].node
    BY <1>1, <1>3, <1>9 DEF AbsCp
  <2>2. CASE outcome = "exhausted"
    <3>1. Len(C) \in 1 .. Len(C) /\ cp = C[Len(C)]
      BY <1>3, <1>7, <2>2
    <3>2. \A i \in 1 .. Len(C) : i # Len(C) => C[i] # cp
      BY <1>7, <3>1
    <3>3. \A i \in 1 .. Len(C) : heap'[C[i]].node = IF i = Len(C) THEN AbsCp' ELSE cl[i]
      <4>1. \A i \in 1 .. Len(C) : cl[i] = h[C[i]].node
        BY <1>21
      <4>2. \A i \in 1 .. Len(C) : i # Len(C) => heap'[C[i]].node = h[C[i]].node
        BY <1>7, <1>12, <1>13, <3>2
      <4> QED
        BY <2>1, <3>1, <4>1, <4>2
    <3>4. [cl EXCEPT ![Len(cl)] = AbsCp'] = [i \in 1 .. Len(C) |-> IF i = Len(C) THEN AbsCp' ELSE cl[i]]
      BY <1>21, <3>1
    <3>5. Nodes(closed)' = [i \in 1 .. Len(C) |-> heap'[C[i]].node]
      BY <1>21
    <3>6. Nodes(closed)' = [i \in 1 .. Len(C) |-> IF i = Len(C) THEN AbsCp' ELSE cl[i]]
      BY <3>3, <3>5
    <3> QED
      BY <2>2, <3>4, <3>6
  <2>3. CASE outcome # "exhausted"
    <3>1. \A i \in 1 .. Len(C) : C[i] # cp
      BY <1>3, <1>6, <2>3 DEF Elems
    <3>2. \A i \in 1 .. Len(C) : heap'[C[i]].node = h[C[i]].node
      BY <1>7, <1>12, <1>13, <3>1
    <3> QED
      BY <1>21, <2>3, <3>2
  <2> QED
    BY <2>2, <2>3
<1>31. AbsOpen' = AbsOpen /\ AbsSucc' = AbsSucc /\ AbsTodo' = AbsTodo /\ AbsPc = "path" /\ AbsPc' = pc'
  <2>1. path' # <<>>
    <3>1. path \in Seq(P!Dir)
      BY DEF P!IInv, P!TypeOK
    <3> QED
      BY <1>1, <3>1
  <2>2. AbsOpen' = AbsOpen
    BY <1>1, <2>1 DEF AbsOpen
  <2>3. AbsSucc' = AbsSucc
    BY <1>1, <1>4 DEF AbsSucc
  <2>4. AbsTodo' = AbsTodo /\ AbsPc = "path" /\ AbsPc' = pc'
    BY <1>1, <1>4 DEF AbsTodo, AbsPc
  <2> QED
    BY <2>2, <2>3, <2>4
<1>32. P!FindParent
  <2>1. AbsCp.board # start
    BY <1>1, <1>10, <1>18 DEF StartBoard
  <2>2. pc' = IF P!PathFull(path') THEN "done" ELSE "path"
    BY <1>1 DEF P!PathFull
  <2>3. path' = Append(path, AbsCp.dir)
    BY <1>1, <1>11
  <2> QED
    BY <1>1, <1>11, <1>22, <1>29, <1>30, <1>31, <2>1, <2>2, <2>3 DEF P!FindParent, P!args, P!search
<1> QED
  BY <1>19, <1>32

-----------------------------------------------------------------------------
(* The steps that change nothing.                                          *)

LEMMA StutterLists ==
  ASSUME UNCHANGED vars
  PROVE  /\ List(open)' = List(open) /\ List(closed)' = List(closed) /\ List(WorkAt)' = List(WorkAt)
         /\ List(succ)' = List(succ) /\ List(loc.succ)' = List(loc.succ)
         /\ Nodes(open)' = Nodes(open) /\ Nodes(closed)' = Nodes(closed) /\ Nodes(succ)' = Nodes(succ)
         /\ Addr' = Addr
         /\ Filtering' = Filtering /\ WorkAt' = WorkAt /\ hp' = hp /\ Nodes(hp)' = Nodes(hp)
<1>1. Addr' = Addr /\ Filtering' = Filtering /\ hp' = hp
  BY DEF vars, Addr, Filtering, hp
<1>2. WorkAt' = WorkAt
  BY DEF vars, WorkAt, Filtering
<1>3. /\ List(open)' = List(open) /\ List(closed)' = List(closed) /\ List(WorkAt)' = List(WorkAt)
      /\ List(succ)' = List(succ) /\ List(loc.succ)' = List(loc.succ)
  BY <1>2, ListsHere, ListsNext DEF vars
<1>4. Nodes(open)' = Nodes(open) /\ Nodes(closed)' = Nodes(closed) /\ Nodes(succ)' = Nodes(succ)
  BY <1>3, NodesHere, NodesNext DEF vars
<1>5. Nodes(hp)' = Nodes(hp)
  BY <1>4 DEF hp, vars
<1> QED
  BY <1>1, <1>2, <1>3, <1>4, <1>5

LEMMA StutterFilter == HInv /\ UNCHANGED vars => FilterOK'
<1> SUFFICES ASSUME HInv, UNCHANGED vars, Filtering PROVE FilterOK'
  BY StutterLists DEF FilterOK
<1>1. PICK W : W = List(succ)
  OBVIOUS
<1>2. /\ Len(W) <= 4 /\ loc = [lsp |-> loc.lsp, rsp |-> loc.sp, sp |-> loc.sp]
      /\ \A i \in 1 .. Len(W) : heap[W[i]].node \in P!Node
      /\ pc = "filterClosed" => \A i \in 1 .. Len(W) : ~Listed(heap[W[i]].node.board, open)
  BY <1>1 DEF HInv, FilterOK
<1>3. PICK k \in 1 .. (Len(W) + 1) : FilterAt(W, k)
  BY <1>1 DEF HInv, FilterOK
<1>4. /\ loc' = loc /\ heap' = heap /\ pc' = pc /\ List(succ)' = W
      /\ Nodes(open)' = Nodes(open) /\ Nodes(hp)' = Nodes(hp)
  BY <1>1, StutterLists DEF vars
<1>5. /\ loc'.sp = At(W, k) /\ loc'.lsp = Behind(W, k)
      /\ \A i \in 1 .. (k - 1) : heap'[W[i]].node.board \notin P!Boards(Nodes(hp)')
  BY <1>3, <1>4, ListedIs DEF FilterAt
<1>6. pc' = "filterClosed" =>
        \A i \in 1 .. Len(W) : heap'[W[i]].node.board \notin P!Boards(Nodes(open)')
  BY <1>2, <1>4, ListedIs
<1>7. \A i \in 1 .. Len(W) : heap'[W[i]].node \in P!Node
  BY <1>2, <1>4
<1>8. Filtering' => W = List(succ)'
  BY <1>4
<1>9. loc' = [lsp |-> loc'.lsp, rsp |-> loc'.sp, sp |-> loc'.sp]
  BY <1>2, <1>4
<1> QED
  BY <1>2, <1>5, <1>6, <1>7, <1>8, <1>9, FilterNext

LEMMA StutterSmart == HInv /\ UNCHANGED vars => SmartOK'
<1> SUFFICES ASSUME HInv, UNCHANGED vars, pc = "smart" PROVE SmartOK'
  BY DEF SmartOK, vars
<1>1. PICK W : W = List(loc.succ)
  OBVIOUS
<1>2. /\ strategy \notin {"dfs", "bfs"}
      /\ loc = [succ |-> loc.succ, csucc |-> loc.csucc, prev |-> loc.prev, insert |-> loc.insert,
                insert_prev |-> loc.insert_prev, max_f |-> loc.max_f]
      /\ \A i \in 1 .. Len(W) : \E m \in 1 .. Len(made) : W[i] = made[m].addr
      /\ \A i, j \in 1 .. Len(W) : \A m, n \in 1 .. Len(made) :
           W[i] = made[m].addr /\ W[j] = made[n].addr /\ i < j => m < n
  BY <1>1 DEF HInv, SmartOK
<1>3. PICK k \in 1 .. (Len(W) + 1) : SmartAt(W, k)
  BY <1>1 DEF HInv, SmartOK
<1>4. /\ loc' = loc /\ heap' = heap /\ made' = made /\ strategy' = strategy /\ List(loc.succ)' = W
  BY <1>1, StutterLists DEF vars
<1>5. /\ loc'.csucc = At(W, k) /\ loc'.prev = Behind(W, k)
      /\ k = 1 => loc'.insert = NULL /\ loc'.max_f = -1
  BY <1>3, <1>4 DEF SmartAt
<1>6. k > 1 => \E j \in 1 .. (k - 1) :
           /\ loc'.insert = W[j] /\ loc'.insert_prev = Behind(W, j)
           /\ loc'.max_f = P!Key(heap'[W[j]].node)
           /\ \A i \in 1 .. (k - 1) :
                \/ P!Key(heap'[W[i]].node) < P!Key(heap'[W[j]].node)
                \/ P!Key(heap'[W[i]].node) = P!Key(heap'[W[j]].node) /\ i <= j
  BY <1>3, <1>4 DEF SmartAt, KeyAt
<1>7. /\ \A i \in 1 .. Len(W) : \E m \in 1 .. Len(made') : W[i] = made'[m].addr
      /\ \A i, j \in 1 .. Len(W) : \A m, n \in 1 .. Len(made') :
           W[i] = made'[m].addr /\ W[j] = made'[n].addr /\ i < j => m < n
      /\ loc' = [succ |-> loc'.succ, csucc |-> loc'.csucc, prev |-> loc'.prev, insert |-> loc'.insert,
                 insert_prev |-> loc'.insert_prev, max_f |-> loc'.max_f]
  BY <1>2, <1>4
<1>8. pc' = "smart" => W = List(loc.succ)'
  BY <1>4
<1> QED
  BY <1>2, <1>4, <1>5, <1>6, <1>7, <1>8, SmartNext

LEMMA StutterHInv == HInv /\ UNCHANGED vars => HInv' /\ UNCHANGED P!vars
<1> SUFFICES ASSUME HInv, UNCHANGED vars PROVE HInv' /\ UNCHANGED P!vars
  OBVIOUS
<1>1. /\ strategy' = strategy /\ start' = start /\ heap' = heap /\ open' = open /\ closed' = closed
      /\ cp' = cp /\ succ' = succ /\ loc' = loc /\ leaf' = leaf /\ path' = path /\ outcome' = outcome
      /\ pc' = pc /\ made' = made /\ lastOpen' = lastOpen
  BY DEF vars
<1>2. /\ List(open)' = List(open) /\ List(closed)' = List(closed) /\ List(WorkAt)' = List(WorkAt)
      /\ List(succ)' = List(succ) /\ List(loc.succ)' = List(loc.succ)
      /\ Nodes(open)' = Nodes(open) /\ Nodes(closed)' = Nodes(closed) /\ Nodes(succ)' = Nodes(succ)
      /\ Addr' = Addr /\ WorkAt' = WorkAt
  BY StutterLists
<1>3. (Unlisted' <=> Unlisted) /\ (InHand' <=> InHand) /\ (Filtering' <=> Filtering)
  BY <1>1 DEF Unlisted, InHand, Filtering
<1>4. Hand' = Hand
  BY <1>1, <1>3 DEF Hand
<1>5. HeapOK' /\ ListsOK'
  <2>1. HeapOK'
    BY <1>1, HeapStays, HeapFacts
  <2>2. ListsOK'
    BY <1>1, <1>2, <1>4, HeapFacts DEF ListsOK
  <2> QED
    BY <2>1, <2>2
<1>6. MadeOK'
  BY <1>1, <1>2 DEF HInv, MadeOK
<1>7. StartOK'
  BY <1>1, <1>2 DEF HInv, StartOK
<1>8. PointersOK'
  BY <1>1, <1>2, <1>3 DEF HInv, PointersOK
<1>9. HInv'
  BY <1>5, <1>6, <1>7, <1>8, StutterFilter, StutterSmart DEF HInv
<1>10. AbsOpen' = AbsOpen /\ Nodes(closed)' = Nodes(closed) /\ AbsCp' = AbsCp
  BY <1>1, <1>2 DEF AbsOpen, AbsCp
<1>11. AbsSucc' = AbsSucc /\ AbsTodo' = AbsTodo /\ AbsPc' = AbsPc
  <2>1. CASE Filtering
    BY <1>2, <1>3, <2>1, FilterAbs, FilterAbsNext
  <2>2. CASE ~Filtering
    <3>1. AbsSucc' = AbsSucc
      BY <1>1, <1>3, <2>2 DEF AbsSucc
    <3>2. On(loc.succ)' = On(loc.succ)
      BY <1>2 DEF On
    <3>3. AbsTodo' = AbsTodo
      BY <1>1, <1>3, <2>2, <3>2 DEF AbsTodo
    <3> QED
      BY <1>1, <1>3, <2>2, <3>1, <3>3 DEF AbsPc
  <2> QED
    BY <2>1, <2>2
<1> QED
  BY <1>1, <1>9, <1>10, <1>11 DEF P!vars

-----------------------------------------------------------------------------
(* The steps together.                                                     *)

LEMMA NextHInv == HInv /\ P!IInv /\ [Next]_vars => HInv' /\ [P!Next]_(P!vars)
<1> SUFFICES ASSUME HInv, P!IInv, [Next]_vars PROVE HInv' /\ [P!Next]_(P!vars)
  OBVIOUS
<1>1. CASE Accept
  BY <1>1, AcceptHInv DEF P!Next
<1>2. CASE Reject
  BY <1>2, RejectHInv DEF P!Next
<1>3. CASE GoalTest
  BY <1>3, GoalTestHInv DEF P!Next
<1>4. CASE Expand
  BY <1>4, ExpandHInv DEF P!Next
<1>5. CASE FilterKeeps
  BY <1>5, FilterKeepsHInv
<1>6. CASE FilterDrops
  BY <1>6, FilterDropsHInv
<1>7. CASE FilterReturns
  BY <1>7, FilterReturnsHInv
<1>8. CASE MergeFront
  BY <1>8, MergeFrontHInv DEF P!Next
<1>9. CASE MergeBack
  BY <1>9, MergeBackHInv DEF P!Next
<1>10. CASE MergeSmart
  BY <1>10, MergeSmartHInv
<1>11. CASE SmartScan
  BY <1>11, SmartScanHInv
<1>12. CASE SmartLink
  BY <1>12, SmartLinkHInv DEF P!Next
<1>13. CASE SmartReturns
  BY <1>13, SmartReturnsHInv
<1>14. CASE Close
  BY <1>14, CloseHInv DEF P!Next
<1>15. CASE FindParent
  BY <1>15, FindParentHInv DEF P!Next
<1>16. CASE PathEnds
  BY <1>16, PathEndsHInv DEF P!Next
<1>17. CASE Stopped \/ UNCHANGED vars
  BY <1>17, StutterHInv DEF Stopped
<1> QED
  BY <1>1, <1>2, <1>3, <1>4, <1>5, <1>6, <1>7, <1>8, <1>9, <1>10, <1>11, <1>12, <1>13, <1>14,
     <1>15, <1>16, <1>17 DEF Next

LEMMA BothInvariants == HInv /\ P!IInv /\ [Next]_vars => HInv' /\ P!IInv' /\ [P!Next]_(P!vars)
<1>1. P!IInv /\ [P!Next]_(P!vars) => P!IInv'
  BY P!NextIInv, Assumptions
<1> QED
  BY <1>1, NextHInv

LEMMA BothFromTheStart == Init => HInv /\ P!IInv
<1>1. P!Init => P!IInv
  BY P!InitIInv, Assumptions
<1> QED
  BY <1>1, InitHInv, InitRefines

LEMMA HInvHolds == Spec => [](HInv /\ P!IInv)
BY BothInvariants, BothFromTheStart, PTL DEF Spec

-----------------------------------------------------------------------------
(* What the invariant means.                                               *)

LEMMA ConcatDistinct ==
  ASSUME NEW S, NEW L \in Seq(S), NEW M \in Seq(S),
         \A i, j \in 1 .. Len(L) : L[i] = L[j] => i = j,
         \A i, j \in 1 .. Len(M) : M[i] = M[j] => i = j,
         Elems(L) \cap Elems(M) = {}
  PROVE  /\ L \o M \in Seq(S)
         /\ \A i, j \in 1 .. Len(L \o M) : (L \o M)[i] = (L \o M)[j] => i = j
         /\ Elems(L \o M) = Elems(L) \cup Elems(M)
<1> DEFINE K == L \o M
           m == Len(L)
           n == Len(M)
<1>1. /\ K \in Seq(S) /\ Len(K) = m + n /\ m \in Nat /\ n \in Nat
      /\ \A i \in 1 .. (m + n) : \/ i \in 1 .. m /\ K[i] = L[i]
                                 \/ i - m \in 1 .. n /\ K[i] = M[i - m]
  BY ConcatFacts
<1>2. \A i \in 1 .. m : L[i] \in Elems(L)
  BY DEF Elems
<1>3. \A i \in 1 .. n : M[i] \in Elems(M)
  BY DEF Elems
<1>4. Elems(K) = Elems(L) \cup Elems(M)
  BY ElemsConcat
<1> HIDE DEF K, m, n
<1>5. ASSUME NEW i \in 1 .. (m + n), NEW j \in 1 .. (m + n), K[i] = K[j] PROVE i = j
  <2>1. CASE i \in 1 .. m /\ K[i] = L[i] /\ j \in 1 .. m /\ K[j] = L[j]
    BY <1>5, <2>1 DEF m
  <2>2. CASE i - m \in 1 .. n /\ K[i] = M[i - m] /\ j - m \in 1 .. n /\ K[j] = M[j - m]
    <3>1. i - m = j - m
      BY <1>5, <2>2 DEF n
    <3> QED
      BY <1>1, <3>1
  <2>3. CASE i \in 1 .. m /\ K[i] = L[i] /\ j - m \in 1 .. n /\ K[j] = M[j - m]
    BY <1>2, <1>3, <1>5, <2>3
  <2>4. CASE i - m \in 1 .. n /\ K[i] = M[i - m] /\ j \in 1 .. m /\ K[j] = L[j]
    BY <1>2, <1>3, <1>5, <2>4
  <2> QED
    BY <1>1, <2>1, <2>2, <2>3, <2>4
<1> QED
  BY <1>1, <1>4, <1>5 DEF K

LEMMA HInvDangles == HInv => NothingDangles
<1> SUFFICES ASSUME HInv PROVE NothingDangles
  OBVIOUS
<1> DEFINE live(p) == p = NULL \/ p \in Addr
<1>1. PICK O, C, W : O = List(open) /\ C = List(closed) /\ W = List(WorkAt)
  OBVIOUS
<1>2. /\ Chain(heap, O, open) /\ Chain(heap, C, closed) /\ Chain(heap, W, WorkAt)
      /\ Elems(O) \cup Elems(C) \cup Elems(W) \cup Hand = Addr
      /\ \A a \in Hand : heap[a].next = NULL
  BY <1>1, HeapFacts DEF ListsOK, Shared
<1>3. live(open) /\ live(closed)
  BY <1>2, ListFacts
<1>4. live(cp) /\ live(succ)
  BY DEF HInv, PointersOK
<1>5. ASSUME NEW L, NEW p, Chain(heap, L, p)
      PROVE  /\ Len(L) \in Nat /\ \A i : live(At(L, i))
             /\ \A i \in 1 .. Len(L) : live(L[i])
             /\ \A a \in Elems(L) : live(heap[a].next)
  <2>1. Len(L) \in Nat /\ \A i \in 1 .. Len(L) : L[i] \in Addr
    BY <1>5, ListFacts
  <2>2. \A i : live(At(L, i))
    BY <2>1 DEF At
  <2>3. \A a \in Elems(L) : live(heap[a].next)
    <3>1. \A i \in 1 .. Len(L) : heap[L[i]].next = At(L, i + 1)
      BY <1>5 DEF Chain
    <3> HIDE DEF live
    <3> QED
      BY <2>2, <3>1 DEF Elems
  <2> QED
    BY <2>1, <2>2, <2>3
<1>6. \A a \in Addr : live(heap[a].next)
  <2> SUFFICES ASSUME NEW a \in Addr PROVE live(heap[a].next)
    OBVIOUS
  <2>1. CASE a \in Elems(O)
    BY <1>2, <1>5, <2>1
  <2>2. CASE a \in Elems(C)
    BY <1>2, <1>5, <2>2
  <2>3. CASE a \in Elems(W)
    BY <1>2, <1>5, <2>3
  <2>4. CASE a \in Hand
    BY <1>2, <2>4
  <2> QED
    BY <1>2, <2>1, <2>2, <2>3, <2>4
<1>7. ASSUME Filtering PROVE live(loc.lsp) /\ live(loc.rsp) /\ live(loc.sp)
  <2>1. W = List(succ)
    BY <1>1, <1>7, WorkFilter
  <2>2. /\ loc = [lsp |-> loc.lsp, rsp |-> loc.sp, sp |-> loc.sp]
        /\ \E k \in 1 .. (Len(W) + 1) : FilterAt(W, k)
    BY <1>7, <2>1 DEF HInv, FilterOK
  <2>3. PICK k \in 1 .. (Len(W) + 1) : loc.sp = At(W, k) /\ loc.lsp = Behind(W, k)
    BY <2>2 DEF FilterAt
  <2>4. Len(W) \in Nat /\ (\A i : live(At(W, i))) /\ \A i \in 1 .. Len(W) : live(W[i])
    BY <1>2, <1>5
  <2> HIDE DEF live
  <2>5. loc.rsp = loc.sp
    BY <2>2
  <2>6. CASE k = 1
    BY <2>3, <2>4, <2>5, <2>6 DEF Behind
  <2>7. CASE k # 1
    <3>1. k - 1 \in 1 .. Len(W)
      BY <2>3, <2>4, <2>7
    <3> QED
      BY <2>3, <2>4, <2>5, <2>7, <3>1 DEF Behind
  <2> QED
    BY <2>6, <2>7
<1> QED
  BY <1>3, <1>4, <1>6, <1>7 DEF NothingDangles

LEMMA HInvWhole == HInv => ListsAreWhole
<1> SUFFICES ASSUME HInv, ~Unlisted PROVE ListsAreWhole
  BY DEF ListsAreWhole, Unlisted
<1> DEFINE hand == IF InHand THEN <<cp>> ELSE <<>>
<1>1. PICK O, C, W : O = List(open) /\ C = List(closed) /\ W = List(WorkAt)
  OBVIOUS
<1>2. /\ Chain(heap, O, open) /\ Chain(heap, C, closed) /\ Chain(heap, W, WorkAt)
      /\ Shared(O, C, W, Hand, Addr)
  BY <1>1, HeapFacts DEF ListsOK
<1>3. /\ Elems(O) \cap Elems(C) = {} /\ Elems(O) \cap Elems(W) = {} /\ Elems(C) \cap Elems(W) = {}
      /\ Hand \cap (Elems(O) \cup Elems(C) \cup Elems(W)) = {}
      /\ Elems(O) \cup Elems(C) \cup Elems(W) \cup Hand = Addr
  BY <1>2 DEF Shared
<1>4. /\ O \in Seq(Addr) /\ C \in Seq(Addr) /\ W \in Seq(Addr)
      /\ \A i, j \in 1 .. Len(O) : O[i] = O[j] => i = j
      /\ \A i, j \in 1 .. Len(C) : C[i] = C[j] => i = j
      /\ \A i, j \in 1 .. Len(W) : W[i] = W[j] => i = j
  BY <1>2, ListFacts
<1>5. InWork = W
  <2>1. CASE Filtering \/ pc = "merge"
    <3>1. WorkAt = succ
      BY <2>1 DEF WorkAt
    <3>2. pc # "smart"
      BY <2>1 DEF Filtering
    <3>3. List(WorkAt) = List(succ)
      BY <3>1, ListsHere
    <3> QED
      BY <1>1, <2>1, <3>2, <3>3 DEF InWork
  <2>2. CASE ~(Filtering \/ pc = "merge") /\ pc = "smart"
    BY <1>1, <2>2, WorkSmart DEF InWork
  <2>3. CASE ~(Filtering \/ pc = "merge") /\ pc # "smart"
    <3>1. WorkAt = NULL
      BY <2>3 DEF WorkAt
    <3>2. W = <<>>
      BY <1>2, <3>1, ListFacts
    <3> QED
      BY <2>3, <3>2 DEF InWork
  <2> QED
    BY <2>1, <2>2, <2>3
<1>6. /\ hand \in Seq(Addr) /\ Elems(hand) = Hand
      /\ \A i, j \in 1 .. Len(hand) : hand[i] = hand[j] => i = j
  <2>1. CASE InHand
    <3>1. Hand = {cp} /\ hand = <<cp>>
      BY <2>1 DEF Hand
    <3>2. cp \in Addr
      BY <1>3, <3>1
    <3> HIDE DEF hand
    <3> QED
      BY <3>1, <3>2, ElemsOne
  <2>2. CASE ~InHand
    <3>1. Hand = {} /\ hand = <<>>
      BY <2>2 DEF Hand
    <3> HIDE DEF hand
    <3> QED
      BY <3>1, ElemsEmpty
  <2> QED
    BY <2>1, <2>2
<1>7. PICK X : X = hand
  OBVIOUS
<1> HIDE DEF hand
<1>8. PICK A : A = O \o C
  OBVIOUS
<1>9. PICK B : B = A \o X
  OBVIOUS
<1>10. PICK all : all = B \o W
  OBVIOUS
<1>11. /\ A \in Seq(Addr) /\ \A i, j \in 1 .. Len(A) : A[i] = A[j] => i = j
       /\ Elems(A) = Elems(O) \cup Elems(C)
  <2>1. O \in Seq(Addr) /\ \A i, j \in 1 .. Len(O) : O[i] = O[j] => i = j
    BY <1>4
  <2>2. C \in Seq(Addr) /\ \A i, j \in 1 .. Len(C) : C[i] = C[j] => i = j
    BY <1>4
  <2>3. Elems(O) \cap Elems(C) = {}
    BY <1>3
  <2> QED
    BY <1>8, <2>1, <2>2, <2>3, ConcatDistinct
<1>12. /\ B \in Seq(Addr) /\ \A i, j \in 1 .. Len(B) : B[i] = B[j] => i = j
       /\ Elems(B) = Elems(A) \cup Elems(X)
  <2>1. Elems(A) \cap Elems(X) = {} /\ X \in Seq(Addr) /\ \A i, j \in 1 .. Len(X) : X[i] = X[j] => i = j
    BY <1>3, <1>6, <1>7, <1>11
  <2> QED
    BY <1>9, <1>11, <2>1, ConcatDistinct
<1>13. /\ all \in Seq(Addr) /\ \A i, j \in 1 .. Len(all) : all[i] = all[j] => i = j
       /\ Elems(all) = Elems(B) \cup Elems(W)
  <2>1. Elems(B) \cap Elems(W) = {}
    BY <1>3, <1>6, <1>7, <1>11, <1>12
  <2>2. B \in Seq(Addr) /\ \A i, j \in 1 .. Len(B) : B[i] = B[j] => i = j
    BY <1>12
  <2>3. W \in Seq(Addr) /\ \A i, j \in 1 .. Len(W) : W[i] = W[j] => i = j
    BY <1>4
  <2> QED
    BY <1>10, <2>1, <2>2, <2>3, ConcatDistinct
<1>14. Elems(all) = Addr
  BY <1>3, <1>6, <1>7, <1>11, <1>12, <1>13
<1>15. Cardinality(Addr) = Len(all)
  BY <1>13, <1>14, CountElems
<1>16. {all[i] : i \in DOMAIN all} = Addr
  BY <1>13, <1>14 DEF Elems
<1>17. all = ((List(open) \o List(closed))
                \o (IF Filtering \/ pc \in {"merge", "smart", "close"} THEN <<cp>> ELSE <<>>)) \o InWork
  BY <1>1, <1>5, <1>7, <1>8, <1>9, <1>10 DEF hand, InHand
<1> QED
  BY <1>15, <1>16, <1>17 DEF ListsAreWhole

-----------------------------------------------------------------------------
(* Fifteen as F names it, and as P does.                                   *)

LEMMA TwiceCell == P!Cell = F!Cell
BY DEF P!Cell, F!Cell, P!Row, F!Row

LEMMA TwiceGoal == P!GoalBoard = F!GoalBoard
BY SameGoal

LEMMA TwiceUndo == ASSUME NEW b, NEW d PROVE P!Undo(b, d) = F!Undo(b, d)
BY DEF P!Undo, F!Undo, P!swap, F!swap, P!Blank, F!Blank, P!Cell, F!Cell, P!Row, F!Row, P!Origin, F!Origin,
       P!Target, F!Target, P!toggle_dir, F!toggle_dir

LEMMA TwiceFindH == ASSUME NEW b PROVE P!find_h(b) = F!find_h(b)
<1>1. \A c, e : P!Distance(c, e) = F!Distance(c, e)
  BY DEF P!Distance, F!Distance, P!Abs, F!Abs
<1>2. \A v : P!GoalCell(v) = F!GoalCell(v)
  BY TwiceCell, TwiceGoal DEF P!GoalCell, F!GoalCell
<1>3. \A x : P!Distance(x[1], P!GoalCell(b[x[1]])) = F!Distance(x[1], F!GoalCell(b[x[1]]))
  BY <1>1, <1>2
<1> DEFINE S == {s \in P!Cell \X (1 .. 2 * N) : s[2] <= P!Distance(s[1], P!GoalCell(b[s[1]]))}
           T == {s \in F!Cell \X (1 .. 2 * N) : s[2] <= F!Distance(s[1], F!GoalCell(b[s[1]]))}
<1>4. S = T
  BY <1>3, TwiceCell
<1>5. P!find_h(b) = P!Cardinality(S) /\ F!find_h(b) = F!Cardinality(T)
  BY DEF P!find_h, F!find_h
<1>6. P!Cardinality(T) = F!Cardinality(T)
  BY DEF P!Cardinality, F!Cardinality
<1> QED
  BY <1>4, <1>5, <1>6

LEMMA TwiceSolvable == ASSUME NEW b PROVE P!solvable(b) <=> F!solvable(b)
<1>1. \A c, e : P!Before(c, e) <=> F!Before(c, e)
  BY DEF P!Before, F!Before
<1> DEFINE S == {p \in P!Cell \X P!Cell : P!Before(p[1], p[2]) /\ b[p[1]] > b[p[2]] /\ b[p[2]] # 0}
           T == {p \in F!Cell \X F!Cell : F!Before(p[1], p[2]) /\ b[p[1]] > b[p[2]] /\ b[p[2]] # 0}
<1>2. S = T
  BY <1>1, TwiceCell
<1>3. P!Inversions(b) = P!Cardinality(S) /\ F!Inversions(b) = F!Cardinality(T)
  BY DEF P!Inversions, F!Inversions
<1>4. P!Cardinality(T) = F!Cardinality(T)
  BY DEF P!Cardinality, F!Cardinality
<1>5. P!Inversions(b) = F!Inversions(b)
  BY <1>2, <1>3, <1>4
<1>6. P!Blank(b) = F!Blank(b)
  BY TwiceCell DEF P!Blank, F!Blank
<1> QED
  BY <1>5, <1>6 DEF P!solvable, F!solvable

LEMMA TwiceExpand == ASSUME NEW n PROVE P!expand(n) = F!expand(n)
<1>1. \A c, d : P!Target(c, d) = F!Target(c, d)
  BY DEF P!Target, F!Target
<1>2. \A b : P!Blank(b) = F!Blank(b)
  BY TwiceCell DEF P!Blank, F!Blank
<1>3. \A b, d : P!MoveBlank(b, d) = F!MoveBlank(b, d)
  BY <1>1, <1>2 DEF P!MoveBlank, F!MoveBlank, P!swap, F!swap
<1>4. \A b, d : P!CanMove(b, d) <=> F!CanMove(b, d)
  BY <1>1, <1>2 DEF P!CanMove, F!CanMove, P!ExpandTest, F!ExpandTest, P!move_valid, F!move_valid
<1>5. \A m, d : P!move(m, d) = F!move(m, d)
  BY <1>3, TwiceFindH DEF P!move, F!move
<1>6. \A m, d : P!Moved(m, d) = F!Moved(m, d)
  BY <1>4, <1>5 DEF P!Moved, F!Moved
<1> QED
  BY <1>6 DEF P!expand, F!expand

LEMMA TwiceFilter == ASSUME NEW s, NEW hl PROVE P!filter(s, hl) = F!filter(s, hl)
BY DEF P!filter, F!filter, P!Kept, F!Kept, P!Boards, F!Boards

LEMMA TwiceNode == ASSUME NEW b PROVE P!StartNode(b) = F!StartNode(b) /\ P!goal_found(b) = F!goal_found(b)
BY TwiceGoal DEF P!StartNode, F!StartNode, P!goal_found, F!goal_found

LEMMA TwiceGreatest == ASSUME NEW i PROVE P!LastOfGreatest(i) <=> F!LastOfGreatest(i)
BY DEF P!LastOfGreatest, F!LastOfGreatest, P!Key, F!Key

LEMMA TwiceMatch == ASSUME NEW s, NEW b, NEW j PROVE P!IsFirstMatch(s, b, j) <=> F!IsFirstMatch(s, b, j)
BY DEF P!IsFirstMatch, F!IsFirstMatch

LEMMA TwiceVars == P!vars = F!vars /\ P!args = F!args /\ P!search = F!search
BY DEF P!vars, F!vars, P!args, F!args, P!search, F!search

LEMMA TwiceInit == P!Init => F!Init
BY DEF P!Init, F!Init

LEMMA TwiceNext == P!Next => F!Next
<1> SUFFICES ASSUME P!Next PROVE F!Next
  OBVIOUS
<1>1. CASE P!Accept
  BY <1>1, TwiceNode, TwiceSolvable DEF P!Accept, F!Accept, F!Next, P!args, F!args
<1>2. CASE P!Reject
  BY <1>2, TwiceSolvable DEF P!Reject, F!Reject, F!Next, P!args, F!args, P!search, F!search
<1>3. CASE P!StartIsGoal
  BY <1>3, TwiceNode DEF P!StartIsGoal, F!StartIsGoal, F!Next, P!args, F!args, P!search, F!search
<1>4. CASE P!StartSearch
  BY <1>4, TwiceNode DEF P!StartSearch, F!StartSearch, F!Next, P!args, F!args, P!search, F!search
<1>5. CASE P!Expand
  BY <1>5, TwiceExpand, TwiceFilter DEF P!Expand, F!Expand, F!Next, P!args, F!args
<1>6. CASE P!MergeFront
  BY <1>6 DEF P!MergeFront, F!MergeFront, F!Next, P!prepend, F!prepend, P!args, F!args
<1>7. CASE P!MergeBack
  BY <1>7 DEF P!MergeBack, F!MergeBack, F!Next, P!append, F!append, P!args, F!args
<1>8. CASE P!MergeSmart
  BY <1>8, TwiceGreatest DEF P!MergeSmart, F!MergeSmart, F!Next, P!prepend, F!prepend, P!args, F!args
<1>9. CASE P!Close
  BY <1>9, TwiceNode, TwiceGoal DEF P!Close, F!Close, F!Next, P!args, F!args, P!search, F!search
<1>10. CASE P!FindParent
  <2>1. F!FindParent
    BY <1>10, TwiceUndo, TwiceMatch
       DEF P!FindParent, F!FindParent, P!Undone, F!Undone, P!PathFull, F!PathFull,
           P!args, F!args, P!search, F!search
  <2> QED
    BY <2>1 DEF F!Next
<1>11. CASE P!PathEnds
  BY <1>11 DEF P!PathEnds, F!PathEnds, F!Next, P!args, F!args, P!search, F!search
<1>12. CASE P!Stopped
  BY <1>12, TwiceVars DEF P!Stopped, F!Stopped, F!Next, P!vars, F!vars
<1> QED
  BY <1>1, <1>2, <1>3, <1>4, <1>5, <1>6, <1>7, <1>8, <1>9, <1>10, <1>11, <1>12 DEF P!Next

-----------------------------------------------------------------------------
(* The theorems.                                                           *)

\* No pointer of the program over its heap, and no next field, leads to a node
\* that filter has freed.
THEOREM PointersLive == Spec => []NothingDangles
BY HInvHolds, HInvDangles, PTL

\* No node leaks and none is linked twice while the lists are relinked in place.
THEOREM ListsWhole == Spec => []ListsAreWhole
BY HInvHolds, HInvWhole, PTL

\* The program over its heap implements the program over sequences: each turn
\* of a loop over pointers is a step of Fifteen or changes nothing there.
THEOREM PointersImplementFifteen == Spec => ImplementsFifteen
<1>1. Init => F!Init
  BY InitRefines, TwiceInit
<1>2. HInv /\ P!IInv /\ [Next]_vars => [F!Next]_(F!vars)
  <2>1. HInv /\ P!IInv /\ [Next]_vars => [P!Next]_(P!vars)
    BY NextHInv
  <2>2. UNCHANGED P!vars => UNCHANGED F!vars
    BY DEF P!vars, F!vars
  <2> QED
    BY <2>1, <2>2, TwiceNext
<1> QED
  BY <1>1, <1>2, HInvHolds, PTL DEF Spec, ImplementsFifteen, F!Spec
=============================================================================
