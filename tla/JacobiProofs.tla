---------------------------- MODULE JacobiProofs ----------------------------
(***************************************************************************)
(* Proofs about Jacobi: what convergence compares, and when jacobi stops,   *)
(* for every size, every error and every MAX_ITER.                         *)
(***************************************************************************)
EXTENDS Jacobi, TLAPS

\* Where the tests made so far end, and what they answered.
TestsMade == IF pc \in {"copy", "sweep"} THEN k ELSE k - 1

TypeInv == /\ n \in Nat /\ error \in Int
           /\ k \in 0 .. MaxIter /\ i \in 0 .. n
           /\ x \in [Index -> Int] /\ buf \in [Index -> Int]
           /\ pc \in {"test", "copy", "sweep", "done"}
           /\ pc \in {"copy", "sweep"} => k < MaxIter
           /\ pc = "copy" => \A j \in Index : buf[j] = k

\* Until the end every test has failed.
TestInv == pc # "done" =>
             /\ DOMAIN tests = 0 .. TestsMade
             /\ \A l \in DOMAIN tests : tests[l] = FALSE

JInv == TypeInv /\ ConsecutiveIterates /\ TestInv /\ StopsAtFirstSuccess

LEMMA InitInv == Init => JInv
  <1> SUFFICES ASSUME Init PROVE JInv
    OBVIOUS
  <1>1. TypeInv /\ ConsecutiveIterates
    BY JacobiAssumption DEF Init, TypeInv, ConsecutiveIterates, Index
  <1>2. TestInv
    BY DEF Init, TestInv, TestsMade
  <1>3. StopsAtFirstSuccess
    BY DEF Init, StopsAtFirstSuccess
  <1> QED
    BY <1>1, <1>2, <1>3 DEF JInv

LEMMA ConvergeInv == JInv /\ Converge => JInv'
  <1> SUFFICES ASSUME JInv, Converge PROVE JInv'
    OBVIOUS
  <1>1. PICK c \in BOOLEAN : /\ tests' = [l \in 0 .. k |-> IF l = k THEN c ELSE tests[l]]
                             /\ pc' = IF c THEN "done" ELSE "copy"
    BY DEF Converge
  <1>2. /\ pc = "test" /\ k < MaxIter /\ k \in Nat
        /\ UNCHANGED <<n, error, x, buf, i, k>>
    BY JacobiAssumption DEF Converge, JInv, TypeInv
  <1>3. TypeInv' /\ ConsecutiveIterates'
    BY <1>1, <1>2 DEF JInv, TypeInv, ConsecutiveIterates, Index
  <1>4. /\ DOMAIN tests = 0 .. (k - 1)
        /\ \A l \in DOMAIN tests : tests[l] = FALSE
    BY <1>2 DEF JInv, TestInv, TestsMade
  <1>5. DOMAIN tests' = 0 .. k
    BY <1>1
  <1>6. \A l \in 0 .. k : l # k => tests'[l] = FALSE
    BY <1>1, <1>2, <1>4
  <1>7. tests'[k] = c
    BY <1>1, <1>2
  <1>8. TestInv'
    <2> SUFFICES ASSUME pc' # "done"
                 PROVE  /\ DOMAIN tests' = 0 .. TestsMade'
                        /\ \A l \in DOMAIN tests' : tests'[l] = FALSE
      BY DEF TestInv
    <2>1. pc' = "copy" /\ c = FALSE
      BY <1>1
    <2>2. TestsMade' = k
      BY <2>1, <1>2 DEF TestsMade
    <2> QED
      BY <2>1, <2>2, <1>2, <1>5, <1>6, <1>7
  <1>9. StopsAtFirstSuccess'
    <2> SUFFICES ASSUME pc' = "done"
                 PROVE  /\ k' <= MaxIter
                        /\ DOMAIN tests' = 0 .. (IF k' = MaxIter THEN k' - 1 ELSE k')
                        /\ \A l \in DOMAIN tests' : tests'[l] <=> l = k'
      BY DEF StopsAtFirstSuccess
    <2>1. c = TRUE
      BY <1>1
    <2>2. k' <= MaxIter /\ DOMAIN tests' = 0 .. (IF k' = MaxIter THEN k' - 1 ELSE k')
      BY <1>2, <1>5, JacobiAssumption
    <2>3. \A l \in 0 .. k : tests'[l] <=> l = k
      BY <2>1, <1>6, <1>7
    <2> QED
      BY <2>2, <2>3, <1>2, <1>5
  <1> QED
    BY <1>3, <1>8, <1>9 DEF JInv

LEMMA GiveUpInv == JInv /\ GiveUp => JInv'
  <1> SUFFICES ASSUME JInv, GiveUp PROVE JInv'
    OBVIOUS
  <1>1. /\ pc = "test" /\ pc' = "done" /\ k = MaxIter
        /\ UNCHANGED <<n, error, x, buf, i, k, tests>>
    BY JacobiAssumption DEF GiveUp, JInv, TypeInv
  <1>2. TypeInv' /\ ConsecutiveIterates' /\ TestInv'
    BY <1>1 DEF JInv, TypeInv, ConsecutiveIterates, Index, TestInv
  <1>3. /\ DOMAIN tests = 0 .. (k - 1)
        /\ \A l \in DOMAIN tests : tests[l] = FALSE
    BY <1>1 DEF JInv, TestInv, TestsMade
  <1>4. \A l \in DOMAIN tests : tests[l] <=> l = k
    BY <1>1, <1>3, JacobiAssumption
  <1>5. StopsAtFirstSuccess'
    BY <1>1, <1>3, <1>4, JacobiAssumption DEF StopsAtFirstSuccess
  <1> QED
    BY <1>2, <1>5 DEF JInv

LEMMA CopyInv == JInv /\ Copy => JInv'
  <1> SUFFICES ASSUME JInv, Copy PROVE JInv'
    OBVIOUS
  <1>1. TypeInv' /\ ConsecutiveIterates'
    BY DEF Copy, JInv, TypeInv, ConsecutiveIterates, Index
  <1>2. TestInv' /\ StopsAtFirstSuccess'
    BY DEF Copy, JInv, TestInv, TestsMade, StopsAtFirstSuccess
  <1> QED
    BY <1>1, <1>2 DEF JInv

\* The terms of an element are all of the iterate in x.
LEMMA ElementInv == JInv /\ Element => JInv'
  <1> SUFFICES ASSUME JInv, Element PROVE JInv'
    OBVIOUS
  <1>1. /\ pc = "sweep" /\ i < n /\ i' = i + 1
        /\ UNCHANGED <<n, error, x, k, tests, pc>>
        /\ n \in Nat /\ i \in Nat /\ k \in Nat
    BY JacobiAssumption DEF Element, JInv, TypeInv
  <1>2. \A j \in Index : x[j] = k
    BY <1>1 DEF JInv, ConsecutiveIterates
  <1>3. Terms \subseteq {k}
    BY <1>2 DEF Terms
  <1>4. buf' = [buf EXCEPT ![i] = k + 1]
    BY <1>3 DEF Element
  <1>5. TypeInv' /\ ConsecutiveIterates'
    BY <1>1, <1>4 DEF JInv, TypeInv, ConsecutiveIterates, Index
  <1>6. TestInv' /\ StopsAtFirstSuccess'
    BY <1>1 DEF JInv, TestInv, TestsMade, StopsAtFirstSuccess
  <1> QED
    BY <1>5, <1>6 DEF JInv

LEMMA EndSweepInv == JInv /\ EndSweep => JInv'
  <1> SUFFICES ASSUME JInv, EndSweep PROVE JInv'
    OBVIOUS
  <1>1. /\ pc = "sweep" /\ pc' = "test" /\ i = n /\ k' = k + 1
        /\ UNCHANGED <<n, error, x, buf, i, tests>>
        /\ k \in Nat /\ k < MaxIter /\ n \in Nat
    BY JacobiAssumption DEF EndSweep, JInv, TypeInv
  <1>2. TypeInv' /\ ConsecutiveIterates'
    BY <1>1, JacobiAssumption DEF JInv, TypeInv, ConsecutiveIterates, Index
  <1>3. TestInv' /\ StopsAtFirstSuccess'
    BY <1>1 DEF JInv, TestInv, TestsMade, StopsAtFirstSuccess
  <1> QED
    BY <1>2, <1>3 DEF JInv

LEMMA StutterInv == JInv /\ UNCHANGED vars => JInv'
  BY DEF vars, JInv, TypeInv, ConsecutiveIterates, Index, TestInv, TestsMade, StopsAtFirstSuccess

\* The inductive invariant.
LEMMA Invariant == Spec => []JInv
  <1>1. JInv /\ [Next]_vars => JInv'
    BY ConvergeInv, GiveUpInv, CopyInv, ElementInv, EndSweepInv, StutterInv DEF Next, Stopped
  <1> QED
    BY <1>1, InitInv, PTL DEF Spec

\* convergence always compares two consecutive iterates, none of them mixed
\* (jacobi.c:52-62).
THEOREM ComparesConsecutive == Spec => []ConsecutiveIterates
  <1>1. JInv => ConsecutiveIterates
    BY DEF JInv
  <1> QED
    BY <1>1, Invariant, PTL

\* jacobi returns the number of its first success, or MAX_ITER with none
\* (jacobi.c:52-67).
THEOREM StopsRight == Spec => []StopsAtFirstSuccess
  <1>1. JInv => StopsAtFirstSuccess
    BY DEF JInv
  <1> QED
    BY <1>1, Invariant, PTL
=============================================================================
