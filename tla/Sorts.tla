-------------------------------- MODULE Sorts --------------------------------
(***************************************************************************)
(* The four sorts: main of hw6/hw6.c, which sorts one array again and again *)
(* to take the time, with the sort its source leaves uncommented, and      *)
(* insert-sort.sh, called once.  A sort uses the variables it shares with   *)
(* others and leaves the rest as they are.                                 *)
(***************************************************************************)
EXTENDS Integers, Sequences, FiniteSets

CONSTANTS Tests,                          \* how often main sorts, test in hw6.c
          Values, W, group, MAXBITS,      \* as in MergeSort and RadixSort
          Words, Integer, Decimal, Refused, Pasted(_, _, _),  \* as in InsertionSort
          MaxLen, MaxRadixLen             \* bounds: the lengths of the arrays

ASSUME ValuesAssumption == Values \subseteq Int
ASSUME WordsAssumption  == Integer \subseteq Words /\ Decimal \in [Words -> Int]
ASSUME MaxLenAssumption == MaxLen \in Nat /\ MaxRadixLen \in Nat
ASSUME RadixAssumption  == group \in Nat \ {0} /\ W \in Nat \ {0} /\ W % group = 0 /\ MAXBITS = 2 * W
ASSUME TestsAssumption  == Tests \in Nat

VARIABLES
  which,                  \* the sort that is called
  test,                   \* how often it has been called before
  list, temp,             \* the array (of words for the script) and tmp
  calls, m,               \* of merge sort
  shift, iii, map,        \* of radix sort
  i,                      \* of radix and selection sort
  min,                    \* of selection sort
  params, idx, x,         \* of insertion sort
  j,                      \* of selection and insertion sort
  pc

mvars == <<calls, m>>
rvars == <<shift, iii, map>>
ivars == <<params, idx, x>>
vars  == <<which, test, list, temp, mvars, rvars, i, min, ivars, j, pc>>

M == INSTANCE MergeSort
R == INSTANCE RadixSort WITH MaxLen <- MaxRadixLen
L == INSTANCE SelectionSort
I == INSTANCE InsertionSort WITH array <- list

\* What a sort that is not called has in its variables.
NoMerge  == calls = <<>> /\ m = <<>>
NoRadix  == shift = "" /\ iii = 0 /\ map = <<>>
NoInsert == params = <<>> /\ idx = 0 /\ x = ""

Init ==
  /\ test = 0
  /\ \/ which = "merge"  /\ M!Init /\ NoRadix /\ NoInsert /\ i = 0 /\ min = 0 /\ j = 0
     \/ which = "radix"  /\ R!Init /\ NoMerge /\ NoInsert /\ min = 0 /\ j = 0
     \/ which = "select" /\ L!Init /\ NoMerge /\ NoRadix /\ NoInsert /\ temp = <<>>
     \/ which = "insert" /\ I!Init /\ NoMerge /\ NoRadix /\ temp = <<>> /\ i = 0 /\ min = 0

\* A step of the sort that is called.
Merge  == which = "merge"  /\ M!Next /\ UNCHANGED <<which, test, rvars, ivars, i, min, j>>
Radix  == which = "radix"  /\ R!Next /\ UNCHANGED <<which, test, mvars, ivars, min, j>>
Select == which = "select" /\ L!Next /\ UNCHANGED <<which, test, mvars, rvars, ivars, temp>>
Insert == which = "insert" /\ I!Next /\ UNCHANGED <<which, test, mvars, rvars, temp, i, min>>

\* The loop of main.
Again == /\ test < Tests - 1
         /\ test' = test + 1
         /\ UNCHANGED which
         /\ \/ which = "merge"  /\ M!Again /\ UNCHANGED <<rvars, ivars, i, min, j>>
            \/ which = "radix"  /\ R!Again /\ UNCHANGED <<mvars, ivars, min, j>>
            \/ which = "select" /\ L!Again /\ UNCHANGED <<mvars, rvars, ivars, temp>>

Over == pc \in {"echoed", "refused"} \/ (pc = "done" /\ test = Tests - 1)

Stopped == Over /\ UNCHANGED vars

Next == Merge \/ Radix \/ Select \/ Insert \/ Again \/ Stopped

Spec == Init /\ [][Next]_vars

-----------------------------------------------------------------------------
(* Properties.                                                             *)

\* The numbers of the array.  Where bash's arithmetic refuses an argument, or the
\* last one is pasted into the test and does something there, the script
\* promises no order.
Shown  == IF which = "insert" THEN I!Numbers ELSE list
Sorted == Over /\ (which = "insert" => pc = "echoed" /\ I!Plain /\ I!Harmless)

S == INSTANCE Sorting WITH list <- Shown, done <- Sorted

\* Every sort rearranges its array and ends with it in order: merge sort with
\* its two arrays (hw6.c:126-149), radix sort whatever a shift beyond the width
\* does (hw6.c:171, 182), selection sort although its test for an element in
\* place compares the wrong variables (hw6.c:94), insertion sort unless an
\* argument is refused or the last one does something in the test of while.
ImplementsSorting == S!Spec

\* What each sort has reached in the middle of its work.
SortedSoFar == CASE which = "merge"  -> M!MergeInOrder
                 [] which = "radix"  -> R!PassesAddUp
                 [] which = "select" -> L!LeastFirst
                 [] which = "insert" -> I!InsertedInOrder

\* The script prints nothing where it refuses an argument; where its last
\* argument does nothing in the test of while it prints everything or nothing.
AllOrNothing == which = "insert" => I!AllOrNothing
=============================================================================
