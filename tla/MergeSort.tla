------------------------------ MODULE MergeSort ------------------------------
(***************************************************************************)
(* merge_sort of hw6/hw6.c: the recursion as a stack of calls, the merge   *)
(* of two neighbouring parts one element at a time.                        *)
(***************************************************************************)
EXTENDS Integers, Sequences, FiniteSets

CONSTANTS MaxLen,    \* bound: the length of the array
          Values     \* the values of rand

VARIABLES
  list, temp,   \* the arrays lst and tmp
  calls,        \* the calls of msort_recursive that have not returned
  m,            \* the variables of merge
  pc            \* in msort_recursive, in merge, or done

vars == <<list, temp, calls, m, pc>>

n == Cardinality(DOMAIN list)

Call(left, right) == [left |-> left, right |-> right, next |-> 1]

Idle == [left |-> 0, end |-> -1, mid |-> 0, right |-> -1, temp_idx |-> 0, num |-> 0]

Init == /\ \E len \in 0 .. MaxLen : list \in [0 .. (len - 1) -> Values]
        /\ temp = [k \in DOMAIN list |-> 0]
        /\ calls = <<Call(0, n - 1)>>
        /\ m = Idle
        /\ pc = "msort"

\* The innermost call, the middle of its part, and the calls around it.
Top    == calls[Len(calls)]
Mid    == (Top.right + Top.left) \div 2
Around == SubSeq(calls, 1, Len(calls) - 1)

\* The innermost call goes on to its next statement, calling c first.
Recurse(c) == /\ calls' = Around \o <<[Top EXCEPT !.next = @ + 1], c>>
              /\ UNCHANGED <<list, temp, m, pc>>

FirstHalf == /\ pc = "msort" /\ calls # <<>>
             /\ Top.right > Top.left /\ Top.next = 1
             /\ Recurse(Call(Top.left, Mid))

SecondHalf == /\ pc = "msort" /\ calls # <<>>
              /\ Top.right > Top.left /\ Top.next = 2
              /\ Recurse(Call(Mid + 1, Top.right))

MergeHalves == /\ pc = "msort" /\ calls # <<>>
               /\ Top.right > Top.left /\ Top.next = 3
               /\ m' = [left |-> Top.left, end |-> Mid, mid |-> Mid + 1, right |-> Top.right,
                        temp_idx |-> Top.left, num |-> Top.right - Top.left + 1]
               /\ pc' = "merge"
               /\ UNCHANGED <<list, temp, calls>>

\* A part of at most one element is left as it is.
Return == /\ pc = "msort" /\ calls # <<>>
          /\ Top.right <= Top.left
          /\ calls' = Around
          /\ UNCHANGED <<list, temp, m, pc>>

\* Mutant: a value equal to that of the other part is skipped.
TakeLeft_SkipsEqual ==
  /\ pc = "merge" /\ m.left <= m.end
  /\ m.mid <= m.right => list[m.left] <= list[m.mid]
  /\ temp' = [temp EXCEPT ![m.temp_idx] = list[m.left]]
  /\ m' = [m EXCEPT !.left = @ + 1, !.temp_idx = @ + 1,
                    !.mid = IF @ <= m.right /\ list[@] = list[m.left] THEN @ + 1 ELSE @]
  /\ UNCHANGED <<list, calls, pc>>

TakeLeft == /\ pc = "merge" /\ m.left <= m.end
            /\ m.mid <= m.right => list[m.left] <= list[m.mid]
            /\ temp' = [temp EXCEPT ![m.temp_idx] = list[m.left]]
            /\ m' = [m EXCEPT !.left = @ + 1, !.temp_idx = @ + 1]
            /\ UNCHANGED <<list, calls, pc>>

TakeRight == /\ pc = "merge" /\ m.mid <= m.right
             /\ m.left <= m.end => list[m.left] > list[m.mid]
             /\ temp' = [temp EXCEPT ![m.temp_idx] = list[m.mid]]
             /\ m' = [m EXCEPT !.mid = @ + 1, !.temp_idx = @ + 1]
             /\ UNCHANGED <<list, calls, pc>>

\* The num elements that end at right come back from temp, and merge and the
\* call of msort_recursive return.
CopyBack == /\ pc = "merge" /\ m.left > m.end /\ m.mid > m.right
            /\ list' = [k \in DOMAIN list |->
                          IF k \in (m.right - m.num + 1) .. m.right THEN temp[k] ELSE list[k]]
            /\ calls' = Around
            /\ m' = Idle
            /\ pc' = "msort"
            /\ UNCHANGED temp

Finish == /\ pc = "msort" /\ calls = <<>>
          /\ pc' = "done"
          /\ UNCHANGED <<list, temp, calls, m>>

\* main sorts the array again, as it is now.
Again == /\ pc = "done"
         /\ calls' = <<Call(0, n - 1)>>
         /\ pc' = "msort"
         /\ UNCHANGED <<list, temp, m>>


Next == \/ FirstHalf \/ SecondHalf \/ MergeHalves \/ Return
        \/ TakeLeft \/ TakeRight \/ CopyBack
        \/ Finish

-----------------------------------------------------------------------------
(* Properties.                                                             *)

\* During a merge what is in temp is in order, what is left of each part is in
\* order and not less, and the element to be written next is the one behind
\* what was taken from both parts (hw6.c:126-149).
MergeInOrder ==
  pc = "merge" =>
    LET first == m.right - m.num + 1
    IN  /\ m.temp_idx - first = (m.left - first) + (m.mid - (m.end + 1))
        /\ \A j, k \in first .. (m.temp_idx - 1) : j < k => temp[j] <= temp[k]
        /\ \A j, k \in m.left .. m.end : j < k => list[j] <= list[k]
        /\ \A j, k \in m.mid .. m.right : j < k => list[j] <= list[k]
        /\ \A j \in first .. (m.temp_idx - 1), k \in (m.left .. m.end) \cup (m.mid .. m.right) :
             temp[j] <= list[k]
=============================================================================
