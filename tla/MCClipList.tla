----------------------------- MODULE MCClipList -----------------------------
(* Small files for ClipList: lines of five fields, as file.csv has them.     *)
EXTENDS ClipList

Short == {<<5>>, <<5, 5>>}
=============================================================================
