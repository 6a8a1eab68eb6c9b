------------------------------- MODULE Jacobi -------------------------------
(***************************************************************************)
(* jacobi of hw8/jacobi.c: its control.  The value of an element is the     *)
(* number of the iterate it belongs to: the first guess in buf is iterate 0, *)
(* the 1000 in x is iterate -1, and an element computed from anything but   *)
(* the other elements of one iterate belongs to none.  Whether two          *)
(* iterates are closer than error is left open, but for the first test,     *)
(* which compares 0 with 1000 in each element.                             *)
(***************************************************************************)
EXTENDS Integers, FiniteSets, Functions

CONSTANTS Sizes,      \* the values of n
          Errors,     \* the values of error
          MaxIter,    \* MAX_ITER
          Mixed       \* the iterate of an element that belongs to none

ASSUME JacobiAssumption == /\ Sizes \subseteq Nat /\ Errors \subseteq Int
                           /\ MaxIter \in Nat /\ Mixed \notin Int

VARIABLES n, error,
          x, buf,     \* the vectors
          i, k,       \* the element computed next, and the iterations made
          tests,      \* history: the answers of convergence, by the value of k
          pc

vars == <<n, error, x, buf, i, k, tests, pc>>

Index == 0 .. (n - 1)

Init == /\ n \in Sizes /\ error \in Errors
        /\ x = [j \in Index |-> -1] /\ buf = [j \in Index |-> 0]
        /\ i = 0 /\ k = 0
        /\ tests = <<>>
        /\ pc = "test"

\* Whether the sum of the distances of the elements may be below error.
MayAnswer(c) == /\ k = 0 => (c <=> 1000 * n < error)
                /\ n = 0 => (c <=> 0 < error)

\* Mutant: k <= MAX_ITER.
Converge_Late == /\ pc = "test" /\ k <= MaxIter
                 /\ \E c \in BOOLEAN : /\ MayAnswer(c)
                                       /\ tests' = [l \in 0 .. k |-> IF l = k THEN c ELSE tests[l]]
                                       /\ pc' = IF c THEN "done" ELSE "copy"
                 /\ UNCHANGED <<n, error, x, buf, i, k>>

Converge == /\ pc = "test" /\ k < MaxIter
            /\ \E c \in BOOLEAN : /\ MayAnswer(c)
                                  /\ tests' = [l \in 0 .. k |-> IF l = k THEN c ELSE tests[l]]
                                  /\ pc' = IF c THEN "done" ELSE "copy"
            /\ UNCHANGED <<n, error, x, buf, i, k>>

GiveUp == /\ pc = "test" /\ k >= MaxIter
          /\ pc' = "done"
          /\ UNCHANGED <<n, error, x, buf, i, k, tests>>

\* memcpy(x, buf, sizeof(x))
Copy == /\ pc = "copy"
        /\ x' = buf
        /\ i' = 0
        /\ pc' = "sweep"
        /\ UNCHANGED <<n, error, buf, k, tests>>

\* Mutant: the elements of the new iterate are used as soon as they are there.
Terms_New == {buf[j] : j \in Index \ {i}}

\* The iterates of the elements summed up for element i.
Terms == {x[j] : j \in Index \ {i}}

\* With one element there is nothing to sum: every iterate is b / a.
Element == /\ pc = "sweep" /\ i < n
           /\ buf' = [buf EXCEPT ![i] = IF Terms \subseteq {k} THEN k + 1 ELSE Mixed]
           /\ i' = i + 1
           /\ UNCHANGED <<n, error, x, k, tests, pc>>

EndSweep == /\ pc = "sweep" /\ i >= n
            /\ k' = k + 1
            /\ pc' = "test"
            /\ UNCHANGED <<n, error, x, buf, i, tests>>

Stopped == pc = "done" /\ UNCHANGED vars

Next == Converge \/ GiveUp \/ Copy \/ Element \/ EndSweep \/ Stopped

Spec == Init /\ [][Next]_vars

-----------------------------------------------------------------------------
(* Properties.                                                             *)

\* convergence compares an iterate with the one just before it, whole vector
\* against whole vector, and so does the caller who looks at x and buf at the
\* end: no element of one sweep is computed from another of the same sweep
\* (jacobi.c:53-62), as it would be in the method of Gauss and Seidel.
ConsecutiveIterates ==
  /\ pc \in {"test", "done"} => \A j \in Index : buf[j] = k /\ x[j] = k - 1
  /\ pc = "sweep" => \A j \in Index : x[j] = k /\ buf[j] = (IF j < i THEN k + 1 ELSE k)

\* A number below MAX_ITER that is returned is that of the first test that
\* succeeded, and MAX_ITER says that all of them failed: the iterate of the last
\* sweep is in no test, and cannot be what ends the loop (jacobi.c:52-67).
StopsAtFirstSuccess ==
  pc = "done" =>
    /\ k <= MaxIter /\ DOMAIN tests = 0 .. (IF k = MaxIter THEN k - 1 ELSE k)
    /\ \A l \in DOMAIN tests : tests[l] <=> l = k
=============================================================================
