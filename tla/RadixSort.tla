------------------------------ MODULE RadixSort ------------------------------
(***************************************************************************)
(* int_radix_sort of hw6/hw6.c: passes over digits of group bits, from the *)
(* lowest, up to MAXBITS.  MAXBITS is 64 in the program and an int has 32  *)
(* bits: the second half of the passes shifts by more than the width,      *)
(* which C leaves undefined.  The processor may use the shift modulo the   *)
(* width, or shift everything out.                                         *)
(***************************************************************************)
EXTENDS Integers, FiniteSets

CONSTANTS W,         \* the width of an int, a multiple of group
          group,     \* the bits of a digit
          MAXBITS,   \* where the passes end, a multiple of W
          MaxLen     \* bound: the length of the array

VARIABLES
  list, temp,   \* the arrays
  shift,        \* what a shift beyond the width does
  iii,          \* the shift of this pass
  i,            \* the next element to be moved
  map,          \* where the next element with each digit goes
  pc

vars == <<list, temp, shift, iii, i, map, pc>>

n == Cardinality(DOMAIN list)

\* 1 << k
two[k \in Nat] == IF k = 0 THEN 1 ELSE 2 * two[k - 1]

bucket == two[group]
Digits == 0 .. (bucket - 1)

\* init_lst: rand is never negative.
RandValues == 0 .. (two[W - 1] - 1)

Init == /\ \E len \in 0 .. MaxLen : list \in [0 .. (len - 1) -> RandValues]
        /\ temp = [k \in DOMAIN list |-> 0]
        /\ shift \in {"masked", "out"}
        /\ iii = 0 /\ i = 0
        /\ map = [d \in Digits |-> 0]
        /\ pc = "pass"

\* x >> iii
Shifted(x) == CASE iii < W -> x \div two[iii]
                [] iii >= W /\ shift = "masked" -> x \div two[iii % W]
                [] OTHER -> 0

Digit(x) == Shifted(x) % bucket

\* cnt and map: the elements with a smaller digit come before.
Starts == [d \in Digits |-> Cardinality({k \in DOMAIN list : Digit(list[k]) < d})]

Pass == /\ pc = "pass" /\ iii < MAXBITS
        /\ map' = Starts
        /\ i' = 0
        /\ pc' = "move"
        /\ UNCHANGED <<list, temp, shift, iii>>

\* Mutant: the elements are taken from the end.
Move_Backwards == /\ pc = "move" /\ i < n
                  /\ LET x == list[n - 1 - i]
                     IN  /\ temp' = [temp EXCEPT ![map[Digit(x)]] = x]
                         /\ map' = [map EXCEPT ![Digit(x)] = @ + 1]
                  /\ i' = i + 1
                  /\ UNCHANGED <<list, shift, iii, pc>>

Move == /\ pc = "move" /\ i < n
        /\ LET x == list[i]
           IN  /\ temp' = [temp EXCEPT ![map[Digit(x)]] = x]
               /\ map' = [map EXCEPT ![Digit(x)] = @ + 1]
        /\ i' = i + 1
        /\ UNCHANGED <<list, shift, iii, pc>>

CopyBack == /\ pc = "move" /\ i >= n
            /\ list' = temp
            /\ iii' = iii + group
            /\ pc' = "pass"
            /\ UNCHANGED <<temp, shift, i, map>>

Finish == /\ pc = "pass" /\ iii >= MAXBITS
          /\ pc' = "done"
          /\ UNCHANGED <<list, temp, shift, iii, i, map>>

Again == /\ pc = "done"
         /\ iii' = 0
         /\ pc' = "pass"
         /\ UNCHANGED <<list, temp, shift, i, map>>

Next == Pass \/ Move \/ CopyBack \/ Finish

-----------------------------------------------------------------------------
(* Properties.                                                             *)

\* What the passes so far have sorted by: the low digits; and from the width
\* on, where the shift is masked, again the low digits and then the rest.
Key(x) == CASE iii <= W -> x % two[iii]
            [] iii > W /\ shift = "masked" -> (x % two[iii - W]) * two[W] + x
            [] OTHER -> x

\* Each pass keeps the order of the one before among equal digits.
PassesAddUp ==
  pc = "pass" => \A j, k \in DOMAIN list : j < k => Key(list[j]) <= Key(list[k])
=============================================================================
