---------------------------- MODULE InsertionSort ----------------------------
(***************************************************************************)
(* insert-sort.sh: the arguments are checked and inserted one after the    *)
(* other into the part of the array before them.  An argument is a word;    *)
(* the script tests that it looks like an integer and compares it with      *)
(* bash's arithmetic, where a leading zero makes a number octal and 08 an   *)
(* error.  bash puts a word into the test of while before it evaluates      *)
(* that: where j is below zero a word counted from the end of the array,    *)
(* which need not have been checked and may be more than a number.          *)
(***************************************************************************)
EXTENDS Integers, Sequences, FiniteSets

CONSTANTS Words,     \* the arguments the script may be called with
          Integer,   \* those that match the pattern re
          Decimal,   \* the number bash takes a word for (any number for the others)
          Refused,   \* those that bash's arithmetic refuses
          Pasted(_, _, _),  \* what j>=0 && w>x does for a word w that is no integer, of
                            \* w, j and x: whether it holds, and the j it leaves; words
                            \* that assign to anything but j are left out
          MaxLen     \* bound: the number of arguments

VARIABLES params,           \* the arguments
          array, idx, x, j, \* as in the script; the array is numbered from 0
          pc

vars == <<params, array, idx, x, j, pc>>

Params == UNION {[0 .. (len - 1) -> Words] : len \in 0 .. MaxLen}

Init == /\ params \in Params
        /\ array = params
        /\ idx = 0 /\ j = -1
        /\ x = ""
        /\ pc = "check"

\* The comparison of two integers; an error makes it false.
Greater(v, w) == v \notin Refused /\ w \notin Refused /\ Decimal[v] > Decimal[w]

\* Where bash finds array[k]: from the end for a negative k.
At(k) == IF k < 0 THEN Cardinality(DOMAIN array) + k ELSE k

\* array[k]=w
Put(k, w) == [l \in DOMAIN array \cup {At(k)} |-> IF l = At(k) THEN w ELSE array[l]]

\* (( j>=0 && ${array[j]}>$x )): with no such element it is a syntax error.
While == LET k == At(j)
         IN  IF k \in DOMAIN array /\ array[k] \notin Integer
               THEN Pasted(array[k], j, x)
               ELSE [holds |-> k \in DOMAIN array /\ j >= 0 /\ Greater(array[k], x), j |-> j]

\* Mutant: only the word is dropped.
Refuse_Word == /\ pc = "check" /\ idx \in DOMAIN array /\ array[idx] \notin Integer
               /\ array' = [k \in DOMAIN array \ {Cardinality(DOMAIN array) - 1} |->
                              IF k < idx THEN array[k] ELSE array[k + 1]]
               /\ UNCHANGED <<params, idx, x, j, pc>>

\* A word that is not an integer: the array is emptied, and the loop left.
Refuse == /\ pc = "check" /\ idx \in DOMAIN array /\ array[idx] \notin Integer
          /\ array' = <<>>
          /\ pc' = "refused"
          /\ UNCHANGED <<params, idx, x, j>>

Take == /\ pc = "check" /\ idx \in DOMAIN array /\ array[idx] \in Integer
        /\ x' = array[idx]
        /\ j' = idx - 1
        /\ pc' = "shift"
        /\ UNCHANGED <<params, array, idx>>

Shift == /\ pc = "shift" /\ While.holds
         /\ array' = Put(While.j + 1, array[At(While.j)])
         /\ j' = While.j - 1
         /\ UNCHANGED <<params, idx, x, pc>>

Place == /\ pc = "shift" /\ ~While.holds
         /\ array' = Put(While.j + 1, x)
         /\ j' = While.j
         /\ idx' = idx + 1
         /\ pc' = "check"
         /\ UNCHANGED <<params, x>>

Echo == /\ pc = "check" /\ idx \notin DOMAIN array
        /\ pc' = "echoed"
        /\ UNCHANGED <<params, array, idx, x, j>>

Next == Refuse \/ Take \/ Shift \/ Place \/ Echo

-----------------------------------------------------------------------------
(* Properties.                                                             *)

\* The last word is an integer, or in the test, which finds it unchecked in
\* array[-1], it does nothing.
Inert(w) == w \in Integer \/ \A y \in Integer : Pasted(w, -1, y) = [holds |-> FALSE, j |-> -1]
Harmless == \A k \in DOMAIN params : k + 1 = Cardinality(DOMAIN params) => Inert(params[k])

\* The numbers of the array, the word in hand in the place kept free for it; a
\* call that is refused, or has a last word that does something, has put
\* nothing in order.
Numbers == LET a == CASE pc = "refused" \/ ~Harmless -> params
                      [] pc = "shift" /\ Harmless   -> [array EXCEPT ![j + 1] = x]
                      [] OTHER                      -> array
           IN  [k \in DOMAIN a |-> Decimal[a[k]]]

\* bash's arithmetic takes every argument for a number.
Plain == \A k \in DOMAIN params : params[k] \notin Refused

\* With a harmless last word, those before idx are integers, and in order where
\* bash's arithmetic takes them all; while one is inserted, those moved up are
\* greater than it, and the others still in order before them
\* (insert-sort.sh:15-19).
InsertedInOrder ==
  Harmless =>
    /\ pc \in {"check", "echoed"} => \A k \in 0 .. (idx - 1) : array[k] \in Integer
    /\ pc \in {"check", "echoed"} /\ Plain => \A k \in 1 .. (idx - 1) : Numbers[k - 1] <= Numbers[k]
    /\ pc = "shift" =>
         \A k \in (j + 2) .. idx : Greater(array[k], x)
    /\ pc = "shift" /\ Plain =>
         \A k, l \in (0 .. idx) \ {j + 1} : k < l => Numbers[k] <= Numbers[l]

\* A call that is refused prints nothing and has an argument that is no integer;
\* one whose last word is harmless is refused wherever such an argument stands,
\* and otherwise prints them all (insert-sort.sh:8-11).
AllOrNothing ==
  /\ pc = "refused" => array = <<>> /\ \E k \in DOMAIN params : params[k] \notin Integer
  /\ pc = "echoed" /\ Harmless => /\ DOMAIN array = DOMAIN params
                                  /\ \A k \in DOMAIN params : params[k] \in Integer
=============================================================================
