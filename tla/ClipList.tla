------------------------------ MODULE ClipList ------------------------------
(***************************************************************************)
(* build_a_lst of hw5/cscraper.c: a clip for every line of a file, or for   *)
(* every LINE_LENGTH - 1 characters of a longer one.  What was read last is  *)
(* known by the number of its fields; strtok skips empty ones.             *)
(***************************************************************************)
EXTENDS Integers, Sequences

CONSTANTS Files,    \* the files: for each chunk that fgets gives, its fields
          NULL

VARIABLES
  file,     \* the chunks not read yet
  stored,   \* how many pointers split_line has stored into fields, NULL included
  hp, clips, \* the head of the list, and the clips linked to it
  pc

vars == <<file, stored, hp, clips, pc>>

ArrayLength == 4   \* char *fields[4]

Init == /\ file \in Files
        /\ stored = 0
        /\ hp = NULL /\ clips = <<>>
        /\ pc = "read"

\* fgets and split_line.  The first NULL of strtok ends the fields; if it is
\* fields[0], printf prints it and strtok is asked once more.
ReadLine == /\ pc = "read" /\ file # <<>>
            /\ file' = Tail(file)
            /\ stored' = IF Head(file) = 0 THEN 2 ELSE Head(file) + 1
            /\ pc' = "append"
            /\ UNCHANGED <<hp, clips>>

EndOfFile == /\ pc = "read" /\ file = <<>>
             /\ pc' = "done"
             /\ UNCHANGED <<file, stored, hp, clips>>

\* append reads the five strings and stores into hp->next.  A string that is
\* NULL, or a head that is, ends the program; a store beyond fields may.
Crash == /\ pc = "append"
         /\ stored - 1 < 5 \/ stored > ArrayLength \/ hp = NULL
         /\ pc' = "crashed"
         /\ UNCHANGED <<file, stored, hp, clips>>

\* The clip replaces what was behind the head.
Linked == /\ pc = "append"
          /\ stored - 1 = 5 /\ hp # NULL
          /\ clips' = SubSeq(clips, 1, 1) \o <<stored>>
          /\ pc' = "read"
          /\ UNCHANGED <<file, stored, hp>>

Stopped == pc \in {"done", "crashed"} /\ UNCHANGED vars

Next == ReadLine \/ EndOfFile \/ Crash \/ Linked \/ Stopped

Spec == Init /\ [][Next]_vars

-----------------------------------------------------------------------------
(* What a comment of cscraper.c says and the code does not do.             *)

\* cscraper.c:43 "append - add the struct at the end of the list": append is
\* over when build_a_lst goes on, and the list has one more clip.
AppendAddsAtEnd == [][pc = "append" => pc' = "read" /\ Len(clips') = Len(clips) + 1]_vars
=============================================================================
