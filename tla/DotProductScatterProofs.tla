----------------------- MODULE DotProductScatterProofs -----------------------
(***************************************************************************)
(* The dot product over collective operations gives the exact sum for       *)
(* every number of processes, every length, every choice of buffering and  *)
(* every schedule, and implements the abstract sum of slices.              *)
(***************************************************************************)
EXTENDS DotProductScatter, TLAPS

-----------------------------------------------------------------------------
(* Arithmetic of the slices.                                               *)

LEMMA RankFacts == /\ MASTER \in Rank /\ MASTER \notin Workers /\ MASTER = 0
                   /\ Rank = Workers \cup {MASTER}
                   /\ Rank \subseteq Nat /\ Rank \subseteq 0 .. (NLst - 1)
  BY NProcsAssumption, LstAssumption DEF Rank, Workers, MASTER

LEMMA DivisionIsNat == ASSUME NEW a \in Nat, NEW b \in Nat, b >= 1
                       PROVE  a \div b \in Nat
  BY SMT

LEMMA PortionIsNat == n \in Nat => portion \in Nat
  BY DivisionIsNat, NProcsAssumption DEF portion

LEMMA TimesIsNat == ASSUME NEW a \in Nat, NEW b \in Nat PROVE a * b \in Nat
  BY SMT

\* Sums, as sets of pairs of elements.
Vectors == {"x", "y", "garbage"}
Sum == SUBSET ((Vectors \X Nat) \X (Vectors \X Nat))

\* The products of the own slices of a rank.
LEMMA OwnProducts ==
  ASSUME NEW r \in Nat, portion \in Nat
  PROVE  Products(<<"x", r>>, <<"y", r>>) = PS!Slice(r, portion)
  <1> DEFINE b == r * portion
  <1>1. b \in Nat
    BY TimesIsNat
  <1>2. Products(<<"x", r>>, <<"y", r>>) = {PS!Product(b + k) : k \in 0 .. (portion - 1)}
    BY DEF Products, PS!Product
  <1>3. PS!Slice(r, portion) = {PS!Product(j) : j \in b .. (b + portion - 1)}
    BY DEF PS!Slice
  <1> HIDE DEF b
  <1>4. \A j \in b .. (b + portion - 1) : j - b \in 0 .. (portion - 1) /\ b + (j - b) = j
    BY <1>1
  <1>5. \A k \in 0 .. (portion - 1) : b + k \in b .. (b + portion - 1)
    BY <1>1
  <1> QED
    BY <1>2, <1>3, <1>4, <1>5

LEMMA SliceIsSum ==
  ASSUME NEW r \in Nat, NEW s \in Nat
  PROVE  PS!Slice(r, s) \in Sum
  <1> DEFINE b == r * s
  <1>1. b \in Nat
    BY TimesIsNat
  <1>2. PS!Slice(r, s) = {PS!Product(j) : j \in b .. (b + s - 1)}
    BY DEF PS!Slice
  <1> HIDE DEF b
  <1>3. \A j \in b .. (b + s - 1) : PS!Product(j) \in (Vectors \X Nat) \X (Vectors \X Nat)
    BY <1>1 DEF PS!Product, Vectors
  <1> QED
    BY <1>2, <1>3 DEF Sum

\* The products of the first m slices.
First(m) == {PS!Product(j) : j \in 0 .. (m * portion - 1)}

LEMMA FirstOne == ASSUME portion \in Nat PROVE First(1) = PS!Slice(0, portion)
  <1>1. 1 * portion = portion /\ 0 * portion = 0
    OBVIOUS
  <1> QED
    BY <1>1 DEF First, PS!Slice

LEMMA FirstNext ==
  ASSUME NEW m \in Nat, portion \in Nat
  PROVE  /\ First(m) \cup PS!Slice(m, portion) = First(m + 1)
         /\ First(m) \cap PS!Slice(m, portion) = {}
  <1> DEFINE b == m * portion
  <1>1. b \in Nat /\ (m + 1) * portion = b + portion
    BY TimesIsNat
  <1>2. /\ First(m) = {PS!Product(j) : j \in 0 .. (b - 1)}
        /\ First(m + 1) = {PS!Product(j) : j \in 0 .. (b + portion - 1)}
        /\ PS!Slice(m, portion) = {PS!Product(j) : j \in b .. (b + portion - 1)}
    BY <1>1 DEF First, PS!Slice
  <1>3. 0 .. (b + portion - 1) = (0 .. (b - 1)) \cup (b .. (b + portion - 1))
    BY <1>1
  <1>4. \A j, k \in Nat : PS!Product(j) = PS!Product(k) => j = k
    BY DEF PS!Product
  <1> HIDE DEF b
  <1>5. First(m) \cup PS!Slice(m, portion) = First(m + 1)
    BY <1>2, <1>3
  <1>6. \A j \in 0 .. (b - 1), k \in b .. (b + portion - 1) : PS!Product(j) # PS!Product(k)
    BY <1>1, <1>4
  <1> QED
    BY <1>2, <1>5, <1>6

-----------------------------------------------------------------------------
(* The inductive invariant.                                                *)

WorkerAt == {"start", "scatterX", "scatterY", "dot", "gather", "done", "exit"}
MasterAt == WorkerAt \cup {"sum", "print"}

Positions ==
  /\ n \in Nat
  /\ pc \in [Rank -> MasterAt]
  /\ \A p \in Workers : pc[p] \in WorkerAt
  /\ i \in 1 .. NProcs
  /\ pc[MASTER] \notin {"sum", "print", "done"} => i = 1
  /\ pc[MASTER] = "sum" => i \in Workers

SliceOf == Vectors \X Rank

\* The master has its vectors from the start, the others what they were sent.
Slices ==
  /\ x \in [Rank -> SliceOf] /\ y \in [Rank -> SliceOf]
  /\ pc[MASTER] \notin {"start", "exit"} => x[MASTER] = <<"x", MASTER>> /\ y[MASTER] = <<"y", MASTER>>
  /\ \A p \in Workers : /\ pc[p] \notin {"start", "scatterX", "exit"} => x[p] = <<"x", p>>
                        /\ pc[p] \notin {"start", "scatterX", "scatterY", "exit"} => y[p] = <<"y", p>>

Sums ==
  /\ prod \in [Rank -> Sum] /\ lst_prod \in [0 .. (NLst - 1) -> Sum]
  /\ \A p \in Workers : pc[p] \in {"gather", "done"} => prod[p] = PS!Slice(p, portion)
  /\ pc[MASTER] \in {"start", "scatterX", "scatterY", "dot", "exit"} => prod[MASTER] = {}
  /\ pc[MASTER] = "gather" => prod[MASTER] = First(1)
  /\ pc[MASTER] = "sum" => /\ prod[MASTER] = First(i)
                           /\ \A k \in Workers : lst_prod[k] = PS!Slice(k, portion)
  /\ pc[MASTER] \in {"print", "done"} => prod[MASTER] = First(NProcs)
  /\ printed = IF pc[MASTER] = "done" THEN First(NProcs) ELSE {}

SInv == Positions /\ Slices /\ Sums

LEMMA InitInv == Init => SInv
  <1> SUFFICES ASSUME Init PROVE SInv
    OBVIOUS
  <1> USE RankFacts
  <1>1. Positions
    BY NProcsAssumption, LengthAssumption DEF Init, Positions, MasterAt, WorkerAt
  <1>2. Slices
    BY DEF Init, Slices, SliceOf, Vectors
  <1>3. Garbage \in Sum /\ {} \in Sum
    BY DEF Garbage, Sum, Vectors
  <1>4. Sums
    BY <1>3 DEF Init, Sums
  <1> QED
    BY <1>1, <1>2, <1>4 DEF SInv

\* What the steps of all processes leave alone.
LEMMA RefuseInv == ASSUME SInv, NEW p \in Rank, Refuse(p) PROVE SInv'
  <1> USE RankFacts
  <1>1. pc[p] = "start" /\ pc' = [pc EXCEPT ![p] = "exit"]
        /\ UNCHANGED <<n, i, x, y, prod, lst_prod, printed>>
    BY DEF Refuse, Goto
  <1>2. Positions'
    BY <1>1 DEF SInv, Positions, MasterAt, WorkerAt
  <1>3. Slices'
    BY <1>1 DEF SInv, Positions, Slices
  <1>4. portion' = portion /\ First(1)' = First(1) /\ First(i)' = First(i) /\ First(NProcs)' = First(NProcs)
    BY <1>1 DEF portion, First
  <1>5. Sums'
    BY <1>1, <1>4 DEF SInv, Positions, Sums, PS!Slice
  <1> QED
    BY <1>2, <1>3, <1>5 DEF SInv

LEMMA BeginInv == ASSUME SInv, BeginMaster \/ (\E p \in Workers : BeginWorker(p)) PROVE SInv'
  <1> USE RankFacts
  <1>1. PICK p \in Rank :
          /\ pc[p] = "start" /\ pc' = [pc EXCEPT ![p] = "scatterX"]
          /\ UNCHANGED <<n, i, prod, lst_prod, printed>>
          /\ p # MASTER => UNCHANGED <<x, y>>
          /\ p = MASTER => /\ x' = [x EXCEPT ![MASTER] = <<"x", MASTER>>]
                           /\ y' = [y EXCEPT ![MASTER] = <<"y", MASTER>>]
    BY DEF BeginMaster, BeginWorker, Goto
  <1>2. Positions'
    BY <1>1 DEF SInv, Positions, MasterAt, WorkerAt
  <1>3. Slices'
    BY <1>1 DEF SInv, Positions, Slices, SliceOf, Vectors
  <1>4. portion' = portion /\ First(1)' = First(1) /\ First(i)' = First(i) /\ First(NProcs)' = First(NProcs)
    BY <1>1 DEF portion, First
  <1>5. Sums'
    BY <1>1, <1>4 DEF SInv, Positions, Sums, PS!Slice
  <1> QED
    BY <1>2, <1>3, <1>5 DEF SInv

\* A process that returns from a scatter has called it after the master.
LEMMA MasterHasVectors ==
  ASSUME SInv, NEW p \in Rank, NEW l \in {"scatterX", "scatterY"}, pc[p] = l, ScatterReturns(p, l)
  PROVE  x[MASTER] = <<"x", MASTER>> /\ y[MASTER] = <<"y", MASTER>>
  <1> USE RankFacts
  <1>1. pc[MASTER] \notin {"start", "exit"}
    BY DEF ScatterReturns, Called, Stage
  <1> QED
    BY <1>1 DEF SInv, Slices

LEMMA ScatterXInv == ASSUME SInv, NEW p \in Rank, ScatterX(p) PROVE SInv'
  <1> USE RankFacts
  <1>1. /\ pc[p] = "scatterX" /\ pc' = [pc EXCEPT ![p] = "scatterY"]
        /\ UNCHANGED <<n, i, y, prod, lst_prod, printed>>
    BY DEF ScatterX, Goto
  <1>2. x' = [x EXCEPT ![p] = <<"x", p>>]
    <2>1. pc[p] = "scatterX" /\ ScatterReturns(p, "scatterX")
      BY DEF ScatterX
    <2>2. x[MASTER] = <<"x", MASTER>>
      BY <2>1, MasterHasVectors
    <2> QED
      BY <2>2 DEF ScatterX
  <1>3. Positions'
    BY <1>1 DEF SInv, Positions, MasterAt, WorkerAt
  <1>4. Slices'
    BY <1>1, <1>2 DEF SInv, Positions, Slices, SliceOf, Vectors
  <1>5. portion' = portion /\ First(1)' = First(1) /\ First(i)' = First(i) /\ First(NProcs)' = First(NProcs)
    BY <1>1 DEF portion, First
  <1>6. Sums'
    BY <1>1, <1>5 DEF SInv, Positions, Sums, PS!Slice
  <1> QED
    BY <1>3, <1>4, <1>6 DEF SInv

LEMMA ScatterYInv == ASSUME SInv, NEW p \in Rank, ScatterY(p) PROVE SInv'
  <1> USE RankFacts
  <1>1. /\ pc[p] = "scatterY" /\ pc' = [pc EXCEPT ![p] = "dot"]
        /\ UNCHANGED <<n, i, x, prod, lst_prod, printed>>
    BY DEF ScatterY, Goto
  <1>2. y' = [y EXCEPT ![p] = <<"y", p>>]
    <2>1. pc[p] = "scatterY" /\ ScatterReturns(p, "scatterY")
      BY DEF ScatterY
    <2>2. y[MASTER] = <<"y", MASTER>>
      BY <2>1, MasterHasVectors
    <2> QED
      BY <2>2 DEF ScatterY
  <1>3. Positions'
    BY <1>1 DEF SInv, Positions, MasterAt, WorkerAt
  <1>4. Slices'
    BY <1>1, <1>2 DEF SInv, Positions, Slices, SliceOf, Vectors
  <1>5. portion' = portion /\ First(1)' = First(1) /\ First(i)' = First(i) /\ First(NProcs)' = First(NProcs)
    BY <1>1 DEF portion, First
  <1>6. Sums'
    BY <1>1, <1>5 DEF SInv, Positions, Sums, PS!Slice
  <1> QED
    BY <1>3, <1>4, <1>6 DEF SInv

LEMMA OwnSum == ASSUME SInv, NEW p \in Rank, dot_product(p)
                PROVE  /\ prod' = [prod EXCEPT ![p] = PS!Slice(p, portion)]
                       /\ PS!Slice(p, portion) \in Sum
                       /\ p = MASTER => PS!Slice(p, portion) = First(1)
  <1> USE RankFacts
  <1>1. portion \in Nat
    BY PortionIsNat DEF SInv, Positions
  <1>2. x[p] = <<"x", p>> /\ y[p] = <<"y", p>>
    BY DEF SInv, Slices, dot_product
  <1> QED
    BY <1>1, <1>2, OwnProducts, SliceIsSum, FirstOne DEF dot_product

LEMMA DotInv == ASSUME SInv, NEW p \in Rank, dot_product(p) PROVE SInv'
  <1> USE RankFacts
  <1>1. /\ pc[p] = "dot" /\ pc' = [pc EXCEPT ![p] = "gather"]
        /\ UNCHANGED <<n, i, x, y, lst_prod, printed>>
    BY DEF dot_product, Goto
  <1>2. Positions' /\ Slices'
    BY <1>1 DEF SInv, Positions, MasterAt, WorkerAt, Slices
  <1>3. portion' = portion /\ First(1)' = First(1) /\ First(i)' = First(i) /\ First(NProcs)' = First(NProcs)
    BY <1>1 DEF portion, First
  <1>4. prod' \in [Rank -> Sum] /\ \A q \in Rank : q # p => prod'[q] = prod[q] /\ pc'[q] = pc[q]
    BY <1>1, OwnSum DEF SInv, Positions, Sums
  <1>5. prod'[p] = PS!Slice(p, portion)
    BY OwnSum DEF SInv, Sums
  <1>6. \A q \in Workers : PS!Slice(q, portion)' = PS!Slice(q, portion)
    BY <1>3 DEF PS!Slice
  <1>7. \A q \in Workers : pc'[q] \in {"gather", "done"} => prod'[q] = PS!Slice(q, portion)
    <2> SUFFICES ASSUME NEW q \in Workers, pc'[q] \in {"gather", "done"}
                 PROVE  prod'[q] = PS!Slice(q, portion)
      OBVIOUS
    <2>1. CASE q = p
      BY <2>1, <1>5
    <2>2. CASE q # p
      BY <2>2, <1>4 DEF SInv, Sums
    <2> QED
      BY <2>1, <2>2
  <1>8. ASSUME p = MASTER PROVE Sums'
    <2>1. pc'[MASTER] = "gather" /\ prod'[MASTER] = First(1) /\ pc[MASTER] = "dot"
      BY <1>8, <1>1, <1>5, OwnSum DEF SInv, Positions
    <2> QED
      BY <2>1, <1>1, <1>3, <1>4, <1>6, <1>7 DEF SInv, Sums
  <1>9. ASSUME p # MASTER PROVE Sums'
    <2>1. pc'[MASTER] = pc[MASTER] /\ prod'[MASTER] = prod[MASTER]
      BY <1>9, <1>4
    <2>2. \A k \in Workers : lst_prod'[k] = lst_prod[k]
      BY <1>1
    <2> QED
      BY <2>1, <2>2, <1>1, <1>3, <1>4, <1>6, <1>7 DEF SInv, Sums
  <1>10. Sums'
    BY <1>8, <1>9
  <1> QED
    BY <1>2, <1>10 DEF SInv

LEMMA GatherWorkerInv == ASSUME SInv, NEW p \in Workers, GatherWorker(p) PROVE SInv'
  <1> USE RankFacts
  <1>1. /\ pc[p] = "gather" /\ pc' = [pc EXCEPT ![p] = "done"]
        /\ UNCHANGED <<n, i, x, y, prod, lst_prod, printed>>
    BY DEF GatherWorker, Goto
  <1>2. Positions' /\ Slices'
    BY <1>1 DEF SInv, Positions, MasterAt, WorkerAt, Slices
  <1>3. portion' = portion /\ First(1)' = First(1) /\ First(i)' = First(i) /\ First(NProcs)' = First(NProcs)
    BY <1>1 DEF portion, First
  <1>4. Sums'
    BY <1>1, <1>3 DEF SInv, Positions, Sums, PS!Slice
  <1> QED
    BY <1>2, <1>4 DEF SInv

\* Every process that has called the gather has its sum.
LEMMA GatherMasterInv == ASSUME SInv, GatherMaster PROVE SInv'
  <1> USE RankFacts, NProcsAssumption
  <1>1. /\ pc[MASTER] = "gather" /\ i = 1
        /\ pc' = [pc EXCEPT ![MASTER] = IF i < NProcs THEN "sum" ELSE "print"]
        /\ UNCHANGED <<n, i, x, y, prod, printed>>
        /\ lst_prod' = [k \in DOMAIN lst_prod |-> IF k \in Rank THEN prod[k] ELSE lst_prod[k]]
    BY DEF GatherMaster, Goto, SInv, Positions
  <1>2. \A q \in Workers : pc[q] \in {"gather", "done"}
    BY DEF GatherMaster, SInv, Positions, WorkerAt, Called, Stage
  <1>3. Positions'
    BY <1>1 DEF SInv, Positions, MasterAt, WorkerAt, Workers
  <1>4. Slices'
    BY <1>1 DEF SInv, Positions, Slices
  <1>5. portion' = portion /\ First(1)' = First(1) /\ First(i)' = First(i) /\ First(NProcs)' = First(NProcs)
    BY <1>1 DEF portion, First
  <1>6. \A k \in Workers : lst_prod'[k] = PS!Slice(k, portion)
    BY <1>1, <1>2 DEF SInv, Sums
  <1>7. lst_prod' \in [0 .. (NLst - 1) -> Sum]
    BY <1>1 DEF SInv, Sums
  <1>8. pc'[MASTER] = "print" => NProcs = 1
    BY <1>1 DEF SInv, Positions
  <1>9. /\ pc'[MASTER] \in {"sum", "print"}
        /\ \A p \in Workers : pc'[p] = pc[p]
    BY <1>1 DEF SInv, Positions
  <1>10. Sums'
    BY <1>1, <1>5, <1>6, <1>7, <1>8, <1>9 DEF SInv, Sums, PS!Slice
  <1> QED
    BY <1>3, <1>4, <1>10 DEF SInv

\* The master adds the next slice.
LEMMA SumUpFacts == ASSUME SInv, SumUp
                    PROVE  /\ i \in Workers /\ i \in Nat /\ pc[MASTER] = "sum" /\ i' = i + 1
                           /\ pc' = [pc EXCEPT ![MASTER] = IF i + 1 < NProcs THEN "sum" ELSE "print"]
                           /\ prod' = [prod EXCEPT ![MASTER] = @ \cup PS!Slice(i, portion)]
                           /\ PS!Slice(i, portion) \in Sum
                           /\ prod[MASTER] \cup PS!Slice(i, portion) = First(i + 1)
                           /\ UNCHANGED <<n, x, y, lst_prod, printed>>
  <1> USE RankFacts
  <1>1. pc[MASTER] = "sum" /\ i \in Workers /\ i \in Nat /\ portion \in Nat
    BY PortionIsNat DEF SumUp, SInv, Positions
  <1>2. lst_prod[i] = PS!Slice(i, portion) /\ prod[MASTER] = First(i)
    BY <1>1 DEF SInv, Sums
  <1>3. PS!Slice(i, portion) \in Sum /\ First(i) \cup PS!Slice(i, portion) = First(i + 1)
    BY <1>1, SliceIsSum, FirstNext
  <1> QED
    BY <1>1, <1>2, <1>3 DEF SumUp, Goto

LEMMA SumUpInv == ASSUME SInv, SumUp PROVE SInv'
  <1> USE RankFacts, SumUpFacts
  <1>1. Positions'
    BY NProcsAssumption DEF SInv, Positions, MasterAt, WorkerAt, Workers
  <1>2. Slices'
    BY DEF SInv, Positions, Slices
  <1>3. portion' = portion /\ First(1)' = First(1) /\ First(NProcs)' = First(NProcs)
    BY DEF portion, First
  <1>4. First(i)' = First(i + 1)
    BY DEF portion, First
  <1>5. prod' \in [Rank -> Sum] /\ prod'[MASTER] = First(i + 1)
    <2>1. prod[MASTER] \in Sum /\ prod[MASTER] \cup PS!Slice(i, portion) \in Sum
      BY DEF SInv, Sums, Sum
    <2> QED
      BY <2>1 DEF SInv, Sums
  <1>6. pc'[MASTER] = "print" => i + 1 = NProcs
    BY NProcsAssumption DEF SInv, Positions, Workers
  <1>7. /\ pc'[MASTER] \in {"sum", "print"}
        /\ \A p \in Workers : pc'[p] = pc[p] /\ prod'[p] = prod[p]
    BY DEF SInv, Positions, Sums
  <1>8. /\ pc'[MASTER] = "sum" => prod'[MASTER] = First(i)'
        /\ pc'[MASTER] = "print" => prod'[MASTER] = First(NProcs)'
    BY <1>3, <1>4, <1>5, <1>6
  <1>9. \A k \in Workers : lst_prod'[k] = PS!Slice(k, portion)
    BY DEF SInv, Sums
  <1>10. \A p \in Workers : pc'[p] \in {"gather", "done"} => prod'[p] = PS!Slice(p, portion)
    BY <1>7 DEF SInv, Sums
  <1>11. printed' = {}
    BY DEF SInv, Sums
  <1>12. \A p : PS!Slice(p, portion)' = PS!Slice(p, portion)
    BY <1>3 DEF PS!Slice
  <1>13. Sums'
    BY <1>3, <1>5, <1>7, <1>8, <1>9, <1>10, <1>11, <1>12 DEF SInv, Sums, PS!Slice
  <1> QED
    BY <1>1, <1>2, <1>13 DEF SInv

LEMMA PrintSumInv == ASSUME SInv, PrintSum PROVE SInv'
  <1> USE RankFacts
  <1>1. /\ pc[MASTER] = "print" /\ pc' = [pc EXCEPT ![MASTER] = "done"]
        /\ printed' = prod[MASTER] /\ prod[MASTER] = First(NProcs)
        /\ UNCHANGED <<n, i, x, y, prod, lst_prod>>
    BY DEF PrintSum, Goto, SInv, Sums
  <1>2. Positions' /\ Slices'
    BY <1>1 DEF SInv, Positions, MasterAt, WorkerAt, Slices
  <1>3. portion' = portion /\ First(1)' = First(1) /\ First(i)' = First(i) /\ First(NProcs)' = First(NProcs)
    BY <1>1 DEF portion, First
  <1>4. Sums'
    BY <1>1, <1>3 DEF SInv, Positions, Sums, PS!Slice
  <1> QED
    BY <1>2, <1>4 DEF SInv

LEMMA StutterInv == ASSUME SInv, UNCHANGED vars PROVE SInv'
  BY DEF vars, SInv, Positions, Slices, Sums, First, portion, PS!Slice

LEMMA Invariant == Spec => []SInv
  <1>1. ASSUME SInv, [Next]_vars PROVE SInv'
    <2>1. CASE MasterStep
      BY <1>1, <2>1, RankFacts, RefuseInv, BeginInv, ScatterXInv, ScatterYInv, DotInv,
         GatherMasterInv, SumUpInv, PrintSumInv DEF MasterStep
    <2>2. CASE \E p \in Workers : WorkerStep(p)
      BY <1>1, <2>2, RankFacts, RefuseInv, BeginInv, ScatterXInv, ScatterYInv, DotInv,
         GatherWorkerInv DEF WorkerStep
    <2>3. CASE UNCHANGED vars
      BY <1>1, <2>3, StutterInv
    <2> QED
      BY <1>1, <2>1, <2>2, <2>3 DEF Next, Stopped
  <1> QED
    BY <1>1, InitInv, PTL DEF Spec

-----------------------------------------------------------------------------
(* What follows from it.                                                   *)

\* The sums added up are those gathered, none of them twice
\* (hw10_scatter.c:50-55).
THEOREM GatheredFirst == Spec => []GatheredBeforeSummed
  <1>1. SInv => GatheredBeforeSummed
    <2> SUFFICES ASSUME SInv, pc[MASTER] = "sum"
                 PROVE  /\ \A k \in i .. (NProcs - 1) : lst_prod[k] = PS!Slice(k, portion)
                        /\ lst_prod[i] \cap prod[MASTER] = {}
      BY DEF GatheredBeforeSummed
    <2>1. i \in Workers /\ i \in Nat /\ portion \in Nat
      BY RankFacts, PortionIsNat DEF SInv, Positions
    <2>2. i .. (NProcs - 1) \subseteq Workers
      BY <2>1, NProcsAssumption DEF Workers
    <2>3. prod[MASTER] = First(i) /\ \A k \in Workers : lst_prod[k] = PS!Slice(k, portion)
      BY DEF SInv, Sums
    <2> QED
      BY <2>1, <2>2, <2>3, FirstNext
  <1> QED
    BY <1>1, Invariant, PTL

\* The sum printed (hw10_scatter.c:58) is the dot product of the first
\* NProcs * portion elements.
THEOREM SumCorrect == Spec => []SumIsExact
  <1>1. SInv => SumIsExact
    BY DEF SInv, Sums, SumIsExact, First
  <1> QED
    BY <1>1, Invariant, PTL

\* The program implements the abstract sum: the gather and every turn of the
\* loop of the master adds one slice, nothing else changes anything of it.
THEOREM ScatterImplementsPartialSums == Spec => ImplementsPartialSums
  <1> USE RankFacts, NProcsAssumption
  <1>1. Init => PS!Init
    <2> SUFFICES ASSUME Init PROVE PS!Init
      OBVIOUS
    <2>1. portion \in Nat
      BY PortionIsNat, LengthAssumption DEF Init
    <2> QED
      BY <2>1 DEF Init, PS!Init, Added
  <1>2. SInv /\ [Next]_vars => [PS!Next]_PS!vars
    <2> SUFFICES ASSUME SInv, [Next]_vars PROVE [PS!Next]_PS!vars
      OBVIOUS
    <2>1. pc \in [Rank -> MasterAt] /\ prod \in [Rank -> Sum] /\ portion \in Nat
      BY PortionIsNat DEF SInv, Positions, Sums
    <2>2. CASE UNCHANGED vars
      BY <2>2 DEF vars, PS!vars, portion, Added
    <2>3. CASE dot_product(MASTER)
      <3>1. /\ pc[MASTER] = "dot" /\ pc'[MASTER] = "gather" /\ prod[MASTER] = {}
            /\ portion' = portion /\ printed' = printed
        BY <2>1, <2>3 DEF SInv, Sums, dot_product, Goto, portion
      <3>2. Added = {} /\ Added' = {0}
        BY <3>1 DEF Added
      <3>3. prod'[MASTER] = PS!Slice(0, portion)
        BY <2>1, <2>3, OwnSum
      <3>4. PS!Add(0)
        BY <3>1, <3>2, <3>3 DEF PS!Add
      <3> QED
        BY <3>4 DEF PS!Next, PS!Rank, Rank, MASTER
    <2>4. CASE GatherMaster
      <3>1. /\ pc[MASTER] = "gather" /\ i = 1 /\ i' = i
            /\ pc'[MASTER] = IF 1 < NProcs THEN "sum" ELSE "print"
            /\ n' = n /\ prod' = prod /\ printed' = printed
        BY <2>1, <2>4 DEF SInv, Positions, GatherMaster, Goto
      <3>2. Added = {0} /\ Added' = {0}
        <4>1. CASE 1 < NProcs
          BY <3>1, <4>1 DEF Added
        <4>2. CASE ~(1 < NProcs)
          BY <3>1, <4>2 DEF Added, Rank
        <4> QED
          BY <4>1, <4>2
      <3> QED
        BY <3>1, <3>2 DEF PS!vars, portion
    <2>5. CASE SumUp
      <3>1. Added = 0 .. (i - 1) /\ Added' = 0 .. i
        <4>1. CASE i + 1 < NProcs
          BY <2>1, <2>5, <4>1, SumUpFacts DEF Added
        <4>2. CASE ~(i + 1 < NProcs)
          <5>1. i = NProcs - 1
            BY <2>5, <4>2, SumUpFacts DEF Workers
          <5> QED
            BY <2>1, <2>5, <4>2, <5>1, SumUpFacts DEF Added, Rank
        <4> QED
          BY <4>1, <4>2
      <3>2. i \in Rank /\ i \notin Added /\ Added' = Added \cup {i}
        BY <2>5, <3>1, SumUpFacts
      <3>3. prod'[MASTER] = prod[MASTER] \cup PS!Slice(i, portion)
        BY <2>1, <2>5, SumUpFacts
      <3>4. portion' = portion /\ printed' = printed
        BY <2>5, SumUpFacts DEF portion
      <3>5. PS!Add(i)
        BY <3>2, <3>3, <3>4 DEF PS!Add
      <3> QED
        BY <3>2, <3>5 DEF PS!Next, PS!Rank, Rank
    <2>6. CASE PrintSum
      <3>1. /\ Added = Rank /\ Added' = Rank /\ portion' = portion
            /\ printed' = prod[MASTER] /\ prod' = prod
        BY <2>1, <2>6 DEF PrintSum, Goto, Added, portion
      <3>2. PS!Answer
        BY <3>1 DEF PS!Answer, PS!Rank, Rank
      <3> QED
        BY <3>2 DEF PS!Next
    <2>7. CASE BeginMaster \/ Refuse(MASTER) \/ ScatterX(MASTER) \/ ScatterY(MASTER)
      <3>1. /\ pc[MASTER] \notin {"gather", "sum", "print", "done"}
            /\ pc'[MASTER] \notin {"gather", "sum", "print", "done"}
            /\ n' = n /\ prod' = prod /\ printed' = printed
        BY <2>1, <2>7 DEF BeginMaster, Refuse, ScatterX, ScatterY, Goto
      <3> QED
        BY <3>1 DEF PS!vars, Added, portion
    <2>8. ASSUME NEW p \in Workers, WorkerStep(p) PROVE [PS!Next]_PS!vars
      <3>1. /\ n' = n /\ i' = i /\ printed' = printed
            /\ pc'[MASTER] = pc[MASTER] /\ prod'[MASTER] = prod[MASTER]
        BY <2>1, <2>8 DEF WorkerStep, Refuse, BeginWorker, ScatterX, ScatterY, dot_product, GatherWorker, Goto
      <3> QED
        BY <3>1 DEF PS!vars, Added, portion
    <2> QED
      BY <2>2, <2>3, <2>4, <2>5, <2>6, <2>7, <2>8 DEF Next, MasterStep, Stopped
  <1> QED
    BY <1>1, <1>2, Invariant, PTL DEF Spec, ImplementsPartialSums, PS!Spec
=============================================================================
