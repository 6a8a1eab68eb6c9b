-------------------------------- MODULE MCSorts --------------------------------
(* Arguments for the script: numbers as they are usually written, an octal  *)
(* one, one that bash's arithmetic refuses, a name, and two words that do    *)
(* something where bash pastes them into the test of while.                 *)
EXTENDS Sorts

Numbers == [w \in Words |-> CASE w = "-1" -> -1 [] w = "2" -> 2 [] w \in {"010", "08"} -> 8
                              [] OTHER -> 0]

\* The test with each of the others in it; a bad numeral in x is an error.
Tested(w, k, y) ==
  LET holds == y \notin Refused /\ CASE w = "w"     -> k >= 0 /\ 0 > Numbers[y]
                                      [] w = "1||7"  -> k >= 0 \/ 7 > Numbers[y]
                                      [] w = "0,j=2" -> 2 > Numbers[y]
  IN  [holds |-> holds,
       j     |-> IF w = "0,j=2" /\ y \notin Refused THEN IF holds THEN 1 ELSE 0 ELSE k]
=============================================================================
