------------------------------ MODULE TreeCreate ------------------------------
(***************************************************************************)
(* hw2/create.sh: a tree of directories, made breadth first with a list of *)
(* the directories of a level, or depth first by a function that changes   *)
(* into the directory it has made and calls itself.  No status is tested:  *)
(* the script goes on after a mkdir or a cd that failed.                   *)
(***************************************************************************)
EXTENDS Naturals, Sequences

CONSTANTS Shapes,    \* the pairs of depth and breadth asked for
          Orders,    \* a subset of {"breadth", "depth"}
          Failures   \* bound: how many mkdirs may fail for want of space or rights

ASSUME ShapesAssumption   == Shapes \subseteq Nat \X Nat
ASSUME OrdersAssumption   == Orders \subseteq {"breadth", "depth"}
ASSUME FailuresAssumption == Failures \in Nat

VARIABLES
  d, b, first,            \* the arguments
  dirs,                   \* the directories that exist
  failed,                 \* the directories whose mkdir failed for want of space or rights
  cwd,                    \* the working directory
  i, k, open, temp_open,  \* breadth: level, name, directories of it and of the next
  frames,                 \* depth: the local dp and i of every call not yet returned
  call,                   \* depth: the arguments of the call about to be made, or none
  pc

args     == <<d, b, first>>
breadths == <<i, k, open, temp_open>>
depths   == <<cwd, frames, call>>
vars     == <<args, dirs, failed, breadths, depths, pc>>

TB == INSTANCE TreeBuild

Init == /\ \E s \in Shapes : d = s[1] /\ b = s[2]
        /\ first \in Orders
        /\ TB!Init
        /\ failed = <<>>
        /\ cwd = TB!Home
        /\ i = 1 /\ k = 1 /\ open = <<>> /\ temp_open = <<>>
        /\ frames = <<>>
        /\ call = IF first = "depth" THEN <<1, 1>> ELSE <<>>
        /\ pc = IF first = "depth" THEN "depth" ELSE "top"

\* mkdir fails if the directory is there already or the one above is not.
mkdir(p) == \/ /\ dirs' = IF p \notin dirs /\ TB!Above(p) \in dirs THEN dirs \cup {p} ELSE dirs
               /\ UNCHANGED failed
            \/ /\ p \notin dirs
               /\ Len(failed) < Failures
               /\ failed' = Append(failed, p)
               /\ UNCHANGED dirs

-----------------------------------------------------------------------------
(* Breadth first.                                                          *)

BreadthTop == /\ pc = "top"
              /\ mkdir(TB!Top)
              /\ open' = <<TB!Top>>
              /\ pc' = "level"
              /\ UNCHANGED <<args, i, k, temp_open, depths>>

\* Mutant: mkdir $k, without the directory.
BreadthMkdir_Relative == /\ pc = "level" /\ i <= d
                         /\ open # <<>> /\ k <= b
                         /\ mkdir(Append(cwd, k))
                         /\ temp_open' = Append(temp_open, Append(Head(open), k))
                         /\ k' = k + 1
                         /\ UNCHANGED <<args, i, open, depths, pc>>

BreadthMkdir == /\ pc = "level" /\ i <= d
                /\ open # <<>> /\ k <= b
                /\ mkdir(Append(Head(open), k))
                /\ temp_open' = Append(temp_open, Append(Head(open), k))
                /\ k' = k + 1
                /\ UNCHANGED <<args, i, open, depths, pc>>

BreadthNext == /\ pc = "level" /\ i <= d
               /\ open # <<>> /\ k > b
               /\ open' = Tail(open)
               /\ k' = 1
               /\ UNCHANGED <<args, dirs, failed, i, temp_open, depths, pc>>

BreadthLevel == /\ pc = "level" /\ i <= d
                /\ open = <<>>
                /\ open' = temp_open
                /\ temp_open' = <<>>
                /\ i' = i + 1
                /\ UNCHANGED <<args, dirs, failed, k, depths, pc>>

BreadthDone == /\ pc = "level" /\ i > d
               /\ pc' = "done"
               /\ UNCHANGED <<args, dirs, failed, breadths, depths>>

-----------------------------------------------------------------------------
(* Depth first.                                                            *)

\* The directory a call makes: the top one in the first call, else bd.
Made(dp, bd) == Append(cwd, IF dp = 1 /\ bd = 1 THEN 0 ELSE bd)

\* Mutant: one level too few.
TooDeep_Early(dp) == dp > d

TooDeep(dp) == dp > d + 1

\* Mutant: the names begin with the one of the directory itself.
DepthEnter_SameName ==
  /\ pc = "depth" /\ call # <<>>
  /\ ~TooDeep(call[1])
  /\ LET p == Made(call[1], call[2])
     IN  /\ mkdir(p)
         /\ cwd' = IF p \in dirs' THEN p ELSE cwd
  /\ frames' = Append(frames, [dp |-> call[1] + 1, i |-> call[2]])
  /\ call' = <<>>
  /\ UNCHANGED <<args, breadths, pc>>

\* cd into the directory just made; where it is not, cd fails.
DepthEnter == /\ pc = "depth" /\ call # <<>>
              /\ ~TooDeep(call[1])
              /\ LET p == Made(call[1], call[2])
                 IN  /\ mkdir(p)
                     /\ cwd' = IF p \in dirs' THEN p ELSE cwd
              /\ frames' = Append(frames, [dp |-> call[1] + 1, i |-> 1])
              /\ call' = <<>>
              /\ UNCHANGED <<args, breadths, pc>>

DepthTooDeep == /\ pc = "depth" /\ call # <<>>
                /\ TooDeep(call[1])
                /\ call' = <<>>
                /\ UNCHANGED <<args, dirs, failed, breadths, cwd, frames, pc>>

\* The innermost call that has not returned.
Frame == frames[Len(frames)]

\* Mutant: no let i++.
DepthCall_SameName == /\ pc = "depth" /\ call = <<>> /\ frames # <<>>
                      /\ Frame.i <= b
                      /\ call' = <<Frame.dp, Frame.i>>
                      /\ UNCHANGED <<args, dirs, failed, breadths, cwd, frames, pc>>

DepthCall == /\ pc = "depth" /\ call = <<>> /\ frames # <<>>
             /\ Frame.i <= b
             /\ call' = <<Frame.dp, Frame.i>>
             /\ frames' = [frames EXCEPT ![Len(frames)].i = @ + 1]
             /\ UNCHANGED <<args, dirs, failed, breadths, cwd, pc>>

\* Mutant: no cd ..
DepthReturn_Stays ==
  /\ pc = "depth" /\ call = <<>> /\ frames # <<>>
  /\ Frame.i > b
  /\ frames' = SubSeq(frames, 1, Len(frames) - 1)
  /\ UNCHANGED <<args, dirs, failed, breadths, cwd, call, pc>>

\* cd .. and the return; above the root there is nothing.
DepthReturn == /\ pc = "depth" /\ call = <<>> /\ frames # <<>>
               /\ Frame.i > b
               /\ cwd' = TB!Above(cwd)
               /\ frames' = SubSeq(frames, 1, Len(frames) - 1)
               /\ UNCHANGED <<args, dirs, failed, breadths, call, pc>>

DepthDone == /\ pc = "depth" /\ call = <<>> /\ frames = <<>>
             /\ pc' = "done"
             /\ UNCHANGED <<args, dirs, failed, breadths, depths>>

Stopped == pc = "done" /\ UNCHANGED vars

Next == \/ BreadthTop \/ BreadthMkdir \/ BreadthNext \/ BreadthLevel \/ BreadthDone
        \/ DepthEnter \/ DepthTooDeep \/ DepthCall \/ DepthReturn \/ DepthDone
        \/ Stopped

Spec == Init /\ [][Next]_vars

\* The script waits for nothing.
FairSpec == Spec /\ WF_vars(Next)

-----------------------------------------------------------------------------
(* Properties.                                                             *)

\* As long as no mkdir has failed, both orders make the directories of the tree,
\* each after the one above it, and no others.
ImplementsTreeBuild == TB!Init /\ [][failed' = <<>> => TB!Next]_(TB!vars)

\* p lies in q or is q.
In(p, q) == Len(q) <= Len(p) /\ q = SubSeq(p, 1, Len(q))

\* When the script ends, the directories missing from the tree are those whose
\* mkdir failed and the ones in them, also where an earlier call was cut off: a
\* mkdir that fails because the directory is there does no harm.  (Under depth
\* the cd after a failed mkdir fails too, create.sh:54, and the rest of that
\* call is run one directory too high: nothing is promised then.)
TreeComplete ==
  pc = "done" /\ (first = "depth" => failed = <<>>) =>
    \A p \in TB!Tree : p \notin dirs <=> \E j \in DOMAIN failed : In(p, failed[j])

\* Breadth first makes a directory only when all the levels above its own are
\* there.
LevelByLevel ==
  [][first = "breadth" /\ failed' = <<>> =>
       \A p \in dirs' \ dirs : \A q \in TB!Tree : Len(q) < Len(p) => q \in dirs]_vars

\* Depth first makes a directory only when everything in its smaller siblings
\* is there, although all calls share the working directory (create.sh:62, 65).
SubtreeBySubtree ==
  [][first = "depth" /\ failed' = <<>> =>
       \A p \in dirs' \ dirs : \A q \in TB!Tree :
         (\E j \in 1 .. (p[Len(p)] - 1) : Len(p) > Len(TB!Top) /\ In(q, Append(TB!Above(p), j)))
           => q \in dirs]_vars

\* The directories are made in the order the first argument names.
MadeInOrder == LevelByLevel /\ SubtreeBySubtree

\* Every call runs cd .. (create.sh:65), also one whose cd failed: the script
\* ends where it was called from, but one directory higher for each of these.
EndsWhereCalled ==
  pc = "done" => cwd = IF first = "breadth" THEN TB!Home
                       ELSE SubSeq(TB!Home, 1, Len(TB!Home) - Len(failed))

\* The script ends, whatever fails.
Termination == <>(pc = "done")
=============================================================================
