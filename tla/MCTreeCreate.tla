---------------------------- MODULE MCTreeCreate ----------------------------
(***************************************************************************)
(* TreeCreate for TLC.                                                     *)
(***************************************************************************)
EXTENDS TreeCreate

\* No level below the top, one level, a level of no breadth, a chain, and two
\* levels of two.
AllShapes == {<<0, 2>>, <<1, 3>>, <<2, 0>>, <<2, 2>>, <<3, 1>>}
=============================================================================
