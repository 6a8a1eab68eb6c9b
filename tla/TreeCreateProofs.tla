-------------------------- MODULE TreeCreateProofs --------------------------
(***************************************************************************)
(* create.sh makes only directories of the tree, each after the one above   *)
(* it and in the order asked for, as long as no mkdir has failed; what it   *)
(* leaves out at the end is what failed and what lies in it; depth ends one *)
(* directory higher for each mkdir that failed: for every depth, every     *)
(* breadth, both orders and whatever part of the tree is there before.     *)
(***************************************************************************)
EXTENDS TreeCreate, SequenceTheorems, TLAPS

-----------------------------------------------------------------------------
(* Paths.                                                                  *)

\* What a name at the end of a path changes.
LEMMA AppendFacts ==
  ASSUME NEW s \in Seq(Nat), NEW c \in Nat
  PROVE  /\ Append(s, c) \in Seq(Nat) /\ Len(Append(s, c)) = Len(s) + 1
         /\ \A j \in 1 .. (Len(s) + 1) :
              Append(s, c)[j] = IF j = Len(s) + 1 THEN c ELSE s[j]
  OBVIOUS

\* The first n elements of a sequence.
LEMMA PrefixFacts ==
  ASSUME NEW S, NEW s \in Seq(S), NEW n \in Nat, n <= Len(s)
  PROVE  /\ SubSeq(s, 1, n) \in Seq(S) /\ Len(SubSeq(s, 1, n)) = n
         /\ \A j \in 1 .. n : SubSeq(s, 1, n)[j] = s[j]
  <1>1. 1 \in Int /\ n \in Int /\ n - 1 + 1 = n /\ (IF 1 <= n THEN n - 1 + 1 ELSE 0) = n
    OBVIOUS
  <1>2. \A j \in 1 .. n : s[j] \in S /\ 1 + j - 1 = j
    BY ElementOfSeq, LenProperties
  <1> QED
    BY <1>1, <1>2, SubSeqProperties

\* p is a path with l names of the tree below the top.
Named(p, l) == /\ p \in Seq(Nat) /\ Len(p) = l + 3
               /\ p[1] = 0 /\ p[2] = 0 /\ p[3] = 0
               /\ \A j \in 4 .. (l + 3) : p[j] \in 1 .. b

LEMMA TopFacts == /\ TB!Home \in Seq(Nat) /\ TB!Top = <<0, 0, 0>>
                  /\ Named(TB!Top, 0) /\ TB!Above(TB!Top) = TB!Home
  <1> DEFINE t == <<0, 0, 0>>
  <1>1. TB!Top = t
    <2>1. TB!Home \in Seq(Nat) /\ Len(TB!Home) = 2 /\ TB!Home[1] = 0 /\ TB!Home[2] = 0
      BY DEF TB!Home
    <2>2. /\ TB!Top \in Seq(Nat) /\ Len(TB!Top) = 3
          /\ \A j \in 1 .. 3 : TB!Top[j] = 0
      <3> DEFINE h == TB!Home
      <3>1. h \in Seq(Nat) /\ 0 \in Nat /\ TB!Top = Append(h, 0) /\ Len(h) = 2
        BY <2>1 DEF TB!Top
      <3>2. \A j \in 1 .. 2 : h[j] = 0
        BY <2>1
      <3> HIDE DEF h
      <3>3. /\ TB!Top \in Seq(Nat) /\ Len(TB!Top) = 2 + 1
            /\ \A j \in 1 .. (2 + 1) : TB!Top[j] = IF j = 2 + 1 THEN 0 ELSE h[j]
        BY <3>1, AppendFacts
      <3> QED
        BY <3>2, <3>3
    <2>3. t \in Seq(Nat) /\ Len(t) = 3 /\ \A j \in 1 .. 3 : t[j] = 0
      OBVIOUS
    <2> HIDE DEF t
    <2> QED
      BY <2>2, <2>3, SeqEqual
  <1>2. TB!Home \in Seq(Nat) /\ Named(TB!Top, 0)
    BY <1>1 DEF TB!Home, Named
  <1>3. TB!Above(TB!Top) = TB!Home
    <2> DEFINE a == TB!Above(TB!Top)
    <2>1. \A j \in 1 .. 2 : t[j] = 0
      OBVIOUS
    <2>2. a = SubSeq(t, 1, 2)
      BY <1>1 DEF TB!Above
    <2> HIDE DEF t
    <2>3. a \in Seq(Nat) /\ Len(a) = 2 /\ \A j \in 1 .. 2 : a[j] = 0
      BY <2>1, <2>2, SubSeqProperties
    <2>4. TB!Home \in Seq(Nat) /\ Len(TB!Home) = 2 /\ \A j \in 1 .. 2 : TB!Home[j] = 0
      BY DEF TB!Home
    <2> HIDE DEF a
    <2>5. a = TB!Home
      BY <2>3, <2>4, SeqEqual
    <2> QED
      BY <2>5 DEF a
  <1> QED
    BY <1>1, <1>2, <1>3

\* A path of at most d such names is in the tree.
LEMMA NamedInTree ==
  ASSUME d \in Nat, NEW l \in 0 .. d, NEW p, Named(p, l)
  PROVE  p \in TB!Tree
  <1> DEFINE s == [j \in 1 .. l |-> p[j + 3]]
  <1>0. l \in Nat
    OBVIOUS
  <1>1. s \in [1 .. l -> 1 .. b]
    BY DEF Named
  <1>2. s \in Seq(1 .. b) /\ Len(s) = l
    BY <1>1
  <1>3. TB!Top \o s = p
    <2>1. TB!Top \in Seq(Nat) /\ Len(TB!Top) = 3 /\ s \in Seq(Nat)
      BY <1>2, TopFacts
    <2>2. \A j \in 1 .. l : s[j] = p[j + 3]
      OBVIOUS
    <2>3. \A j \in 1 .. 3 : TB!Top[j] = p[j]
      BY TopFacts DEF Named
    <2> HIDE DEF s
    <2>4. /\ TB!Top \o s \in Seq(Nat) /\ Len(TB!Top \o s) = l + 3
          /\ \A j \in 1 .. (l + 3) : (TB!Top \o s)[j] = IF j <= 3 THEN TB!Top[j] ELSE s[j - 3]
      <3>1. /\ TB!Top \o s \in Seq(Nat) /\ Len(TB!Top \o s) = Len(TB!Top) + Len(s)
            /\ \A j \in 1 .. Len(TB!Top) + Len(s) : (TB!Top \o s)[j]
                 = IF j <= Len(TB!Top) THEN TB!Top[j] ELSE s[j - Len(TB!Top)]
        BY <2>1, ConcatProperties
      <3>2. Len(TB!Top) + Len(s) = l + 3 /\ Len(TB!Top) = 3
        BY <1>2, <2>1
      <3> QED
        BY <3>1, <3>2
    <2>5. \A j \in 1 .. (l + 3) : (TB!Top \o s)[j] = p[j]
      <3> SUFFICES ASSUME NEW j \in 1 .. (l + 3) PROVE (TB!Top \o s)[j] = p[j]
        OBVIOUS
      <3>1. j \in Nat /\ j >= 1 /\ j <= l + 3
        BY <1>0
      <3>2. CASE j <= 3
        <4>1. j \in 1 .. 3
          BY <3>1, <3>2
        <4>2. TB!Top[j] = p[j]
          BY <2>3, <4>1
        <4>3. (TB!Top \o s)[j] = IF j <= 3 THEN TB!Top[j] ELSE s[j - 3]
          BY <2>4
        <4> QED
          BY <3>2, <4>2, <4>3
      <3>3. CASE ~(j <= 3)
        <4>1. j - 3 \in 1 .. l /\ j - 3 + 3 = j
          BY <1>0, <3>1, <3>3
        <4> QED
          BY <2>2, <2>4, <3>3, <4>1
      <3> QED
        BY <3>2, <3>3
    <2> QED
      BY <2>4, <2>5, SeqEqual DEF Named
  <1> HIDE DEF s
  <1>4. s \in UNION {[1 .. k_1 -> 1 .. b] : k_1 \in 0 .. d}
    BY <1>1
  <1> QED
    BY <1>3, <1>4 DEF TB!Tree

\* A directory made in one of the tree, and the way back up.
LEMMA AppendNamed ==
  ASSUME NEW l \in Nat, NEW p, Named(p, l), NEW c \in 1 .. b
  PROVE  Named(Append(p, c), l + 1) /\ TB!Above(Append(p, c)) = p
  <1>1. Append(p, c) \in Seq(Nat) /\ Len(Append(p, c)) = l + 4
    BY DEF Named
  <1>2. \A j \in 1 .. (l + 4) : Append(p, c)[j] = IF j = l + 4 THEN c ELSE p[j]
    BY DEF Named
  <1>3. Named(Append(p, c), l + 1)
    BY <1>1, <1>2 DEF Named
  <1>4. TB!Above(Append(p, c)) = p
    BY <1>1, <1>2 DEF TB!Above, Named
  <1> QED
    BY <1>3, <1>4

LEMMA AboveNamed ==
  ASSUME NEW l \in Nat, NEW p, Named(p, l)
  PROVE  IF l = 0 THEN TB!Above(p) = TB!Home ELSE Named(TB!Above(p), l - 1)
  <1>1. TB!Above(p) = SubSeq(p, 1, l + 2) /\ p \in Seq(Nat) /\ Len(p) = l + 3
    BY DEF TB!Above, Named
  <1>2. /\ TB!Above(p) \in Seq(Nat) /\ Len(TB!Above(p)) = l + 2
        /\ \A j \in 1 .. (l + 2) : TB!Above(p)[j] = p[j]
    BY <1>1
  <1>3. CASE l = 0
    BY <1>2, <1>3 DEF Named, TB!Home
  <1>4. CASE l # 0
    BY <1>2, <1>4 DEF Named
  <1> QED
    BY <1>3, <1>4

LEMMA AboveIsPath == ASSUME NEW p \in Seq(Nat) PROVE TB!Above(p) \in Seq(Nat)
  BY DEF TB!Above

-----------------------------------------------------------------------------
(* The inductive invariant.                                                *)

Types == /\ d \in Nat /\ b \in Nat
         /\ i \in Nat \ {0} /\ k \in Nat \ {0}
         /\ pc \in {"top", "level", "depth", "done"}
         /\ failed \in Seq(Seq(Nat)) /\ cwd \in Seq(Nat)

\* The directory above each one is there.
Whole == \A p \in dirs : TB!Above(p) \in dirs

\* The lists of breadth hold paths of one level.
Levels == /\ open \in Seq(Seq(Nat)) /\ temp_open \in Seq(Seq(Nat))
          /\ pc = "top" => i = 1 /\ temp_open = <<>>
          /\ \A j \in 1 .. Len(open) : Named(open[j], i - 1)
          /\ \A j \in 1 .. Len(temp_open) : Named(temp_open[j], i)

\* The calls of depth that have not returned, and the one about to be made.
Calls == /\ frames \in Seq([dp : Nat, i : Nat \ {0}])
         /\ \A j \in 1 .. Len(frames) : frames[j].dp = j + 1
         /\ \/ call = <<>>
            \/ /\ call \in Nat \X Nat
               /\ call[1] = Len(frames) + 1
               /\ IF frames = <<>> THEN call[2] = 1 ELSE call[2] \in 1 .. b

\* The working directory of depth is that of the innermost call.
Place == pc = "depth" /\ failed = <<>> =>
           /\ cwd \in dirs
           /\ IF frames = <<>> THEN cwd = TB!Home ELSE Named(cwd, Len(frames) - 1)

TInv == Types /\ Whole /\ Levels /\ Calls /\ Place

LEMMA InitInv == Init => TInv
  <1> SUFFICES ASSUME Init PROVE TInv
    OBVIOUS
  <1>1. Types
    BY ShapesAssumption, TopFacts DEF Init, Types
  <1>2. PICK P \in TB!Parts : dirs = {TB!Root, TB!Above(TB!Home), TB!Home} \cup P
    BY DEF Init, TB!Init
  <1>3. \A p \in P : TB!Above(p) \in P \cup {TB!Home}
    BY TopFacts DEF TB!Parts
  <1>4. TB!Above(TB!Root) = TB!Root /\ TB!Above(TB!Above(TB!Home)) = TB!Root
    BY DEF TB!Above, TB!Root, TB!Home
  <1>5. Whole
    BY <1>2, <1>3, <1>4 DEF Whole
  <1>6. Levels
    BY DEF Init, Levels
  <1>7. Calls
    BY DEF Init, Calls
  <1>8. Place
    BY <1>2 DEF Init, Place
  <1> QED
    BY <1>1, <1>5, <1>6, <1>7, <1>8 DEF TInv

\* What mkdir does, and what it does as long as none has failed.
LEMMA MkdirFacts ==
  ASSUME TInv, NEW p \in Seq(Nat), mkdir(p)
  PROVE  /\ failed' \in Seq(Seq(Nat)) /\ dirs \subseteq dirs' /\ Whole'
         /\ failed' = <<>> => /\ failed = <<>>
                              /\ TB!Above(p) \in dirs => p \in dirs'
                              /\ \/ dirs' = dirs
                                 \/ p \notin dirs /\ TB!Above(p) \in dirs /\ dirs' = dirs \cup {p}
  <1>1. failed \in Seq(Seq(Nat)) /\ Whole
    BY DEF TInv, Types
  <1>2. CASE /\ dirs' = IF p \notin dirs /\ TB!Above(p) \in dirs THEN dirs \cup {p} ELSE dirs
             /\ UNCHANGED failed
    BY <1>1, <1>2 DEF Whole, TB!Above
  <1>3. CASE failed' = Append(failed, p) /\ UNCHANGED dirs
    <2>1. failed' \in Seq(Seq(Nat)) /\ failed' # <<>>
      BY <1>1, <1>3
    <2> QED
      BY <1>1, <1>3, <2>1 DEF Whole, TB!Above
  <1> QED
    BY <1>2, <1>3 DEF mkdir

\* A mkdir of a path of the tree is a step of TreeBuild.
LEMMA MkdirStep ==
  ASSUME TInv, NEW p \in Seq(Nat), mkdir(p), p \in TB!Tree, UNCHANGED args
  PROVE  (failed' = <<>> => TB!Next) \/ UNCHANGED TB!vars
  <1> SUFFICES ASSUME failed' = <<>>, dirs' # dirs PROVE TB!Next
    BY DEF args, TB!vars
  <1>1. TB!Make(p)
    BY MkdirFacts DEF TB!Make, args
  <1> QED
    BY <1>1 DEF TB!Next

-----------------------------------------------------------------------------
(* Breadth first.                                                          *)

\* Each step keeps the invariant.
LEMMA BreadthTopInv == ASSUME TInv, BreadthTop PROVE TInv'
  <1>1. TB!Top \in Seq(Nat) /\ mkdir(TB!Top)
    BY TopFacts DEF BreadthTop, Named
  <1>2. Types' /\ Whole'
    BY <1>1, MkdirFacts DEF TInv, Types, BreadthTop, args, depths
  <1>3. Levels'
    <2>1. open' = <<TB!Top>> /\ i' = 1 /\ temp_open' = <<>> /\ pc' = "level" /\ b' = b
      BY DEF BreadthTop, args, TInv, Levels
    <2>2. Named(TB!Top, 0)'
      BY <2>1, TopFacts DEF Named, TB!Top, TB!Home
    <2> QED
      BY <1>1, <2>1, <2>2 DEF Levels
  <1>4. Calls' /\ Place'
    BY DEF BreadthTop, TInv, Calls, Place, args, depths
  <1> QED
    BY <1>2, <1>3, <1>4 DEF TInv

\* The next directory of breadth is in the tree.
LEMMA BreadthPath == ASSUME TInv, BreadthMkdir
                     PROVE  LET p == Append(Head(open), k)
                            IN  p \in Seq(Nat) /\ Named(p, i) /\ p \in TB!Tree
  <1>1. Named(Head(open), i - 1) /\ i \in 1 .. d /\ k \in 1 .. b /\ d \in Nat
    BY DEF BreadthMkdir, TInv, Types, Levels
  <1>2. Named(Append(Head(open), k), i - 1 + 1)
    BY <1>1, AppendNamed
  <1>3. Named(Append(Head(open), k), i)
    BY <1>1, <1>2
  <1>4. i \in 0 .. d
    BY <1>1
  <1>5. Append(Head(open), k) \in TB!Tree
    BY <1>1, <1>3, <1>4, NamedInTree
  <1> QED
    BY <1>3, <1>5 DEF Named

LEMMA BreadthMkdirInv == ASSUME TInv, BreadthMkdir PROVE TInv'
  <1> DEFINE p == Append(Head(open), k)
  <1>1. p \in Seq(Nat) /\ Named(p, i) /\ mkdir(p)
    BY BreadthPath DEF BreadthMkdir
  <1> HIDE DEF p
  <1>2. Types' /\ Whole'
    BY <1>1, MkdirFacts DEF TInv, Types, BreadthMkdir, args, depths
  <1>3. /\ temp_open' = Append(temp_open, p) /\ open' = open
        /\ i' = i /\ pc' = pc /\ pc = "level" /\ b' = b
    BY DEF BreadthMkdir, p, args
  <1>4. temp_open' \in Seq(Seq(Nat)) /\ \A j \in 1 .. Len(temp_open') : Named(temp_open'[j], i)
    BY <1>1, <1>3 DEF TInv, Levels
  <1>5. Levels'
    BY <1>3, <1>4 DEF TInv, Levels, Named
  <1>6. Calls' /\ Place'
    BY <1>3 DEF BreadthMkdir, TInv, Calls, Place, args, depths
  <1> QED
    BY <1>2, <1>5, <1>6 DEF TInv

LEMMA BreadthNextInv == ASSUME TInv, BreadthNext PROVE TInv'
  <1>1. Types' /\ Whole' /\ Calls' /\ Place'
    BY DEF BreadthNext, TInv, Types, Whole, Calls, Place, args, depths, TB!Above, Named
  <1>2. /\ open' = Tail(open) /\ temp_open' = temp_open /\ i' = i /\ pc' = pc
        /\ pc = "level" /\ b' = b /\ open # <<>>
    BY DEF BreadthNext, args
  <1>3. /\ open' \in Seq(Seq(Nat))
        /\ \A j \in 1 .. Len(open') : open'[j] = open[j + 1] /\ j + 1 \in 1 .. Len(open)
    BY <1>2 DEF TInv, Levels
  <1>4. Levels'
    BY <1>2, <1>3 DEF TInv, Levels, Named
  <1> QED
    BY <1>1, <1>4 DEF TInv

LEMMA BreadthLevelInv == ASSUME TInv, BreadthLevel PROVE TInv'
  <1>1. Types' /\ Whole' /\ Calls' /\ Place'
    BY DEF BreadthLevel, TInv, Types, Whole, Calls, Place, args, depths, TB!Above, Named
  <1>2. /\ open' = temp_open /\ temp_open' = <<>> /\ i' = i + 1 /\ i \in Nat /\ pc' = pc
        /\ pc = "level" /\ b' = b
    BY DEF BreadthLevel, args, TInv, Types
  <1>3. Levels'
    BY <1>2 DEF TInv, Levels, Named
  <1> QED
    BY <1>1, <1>3 DEF TInv

-----------------------------------------------------------------------------
(* Depth first.                                                            *)

\* The directory of a call, which is in the tree as long as no mkdir has failed.
LEMMA DepthPath ==
  ASSUME TInv, DepthEnter
  PROVE  LET p == Made(call[1], call[2])
         IN  /\ p \in Seq(Nat)
             /\ failed = <<>> => /\ Named(p, Len(frames)) /\ TB!Above(p) = cwd
                                 /\ cwd \in dirs /\ p \in TB!Tree
  <1> DEFINE p == Made(call[1], call[2])
  <1>1. /\ call \in Nat \X Nat /\ call[1] = Len(frames) + 1 /\ call[1] <= d + 1
        /\ IF frames = <<>> THEN call[2] = 1 ELSE call[2] \in 1 .. b
        /\ Len(frames) \in 0 .. d /\ frames = <<>> <=> Len(frames) = 0
        /\ cwd \in Seq(Nat) /\ d \in Nat /\ pc = "depth"
    BY DEF DepthEnter, TooDeep, TInv, Types, Calls
  <1>2. p \in Seq(Nat)
    BY <1>1 DEF Made
  <1>3. ASSUME failed = <<>>
        PROVE  Named(p, Len(frames)) /\ TB!Above(p) = cwd /\ cwd \in dirs
    <2>1. CASE frames = <<>>
      <3>1. p = TB!Top /\ cwd = TB!Home /\ cwd \in dirs
        BY <1>1, <1>3, <2>1 DEF Made, TInv, Place, TB!Top
      <3> QED
        BY <1>1, <2>1, <3>1, TopFacts
    <2>2. CASE frames # <<>>
      <3>1. Named(cwd, Len(frames) - 1) /\ cwd \in dirs /\ Len(frames) - 1 \in Nat
        BY <1>1, <1>3, <2>2 DEF TInv, Place
      <3>2. p = Append(cwd, call[2]) /\ call[2] \in 1 .. b
        BY <1>1, <2>2 DEF Made
      <3>3. Named(p, Len(frames) - 1 + 1) /\ TB!Above(p) = cwd
        BY <3>1, <3>2, AppendNamed
      <3>4. Len(frames) - 1 + 1 = Len(frames)
        BY <1>1
      <3> QED
        BY <3>1, <3>3, <3>4
    <2> QED
      BY <2>1, <2>2
  <1> HIDE DEF p
  <1>4. failed = <<>> => p \in TB!Tree
    BY <1>1, <1>3, NamedInTree
  <1> QED
    BY <1>2, <1>3, <1>4 DEF p

LEMMA DepthEnterInv == ASSUME TInv, DepthEnter PROVE TInv'
  <1> DEFINE p == Made(call[1], call[2])
  <1>1. /\ p \in Seq(Nat) /\ mkdir(p)
        /\ failed = <<>> => Named(p, Len(frames)) /\ TB!Above(p) = cwd /\ cwd \in dirs
    BY DepthPath DEF DepthEnter
  <1>2. /\ cwd' = (IF p \in dirs' THEN p ELSE cwd)
        /\ frames' = Append(frames, [dp |-> call[1] + 1, i |-> 1])
        /\ call' = <<>> /\ call[1] = Len(frames) + 1 /\ pc' = pc /\ pc = "depth" /\ b' = b /\ d' = d
        /\ UNCHANGED breadths
    BY DEF DepthEnter, args, TInv, Calls
  <1> HIDE DEF p
  <1>3. Types' /\ Whole'
    BY <1>1, <1>2, MkdirFacts DEF TInv, Types, breadths
  <1>4. Levels'
    BY <1>2 DEF TInv, Levels, Named, breadths
  <1>5. /\ frames \in Seq([dp : Nat, i : Nat \ {0}]) /\ Len(frames) \in Nat
        /\ [dp |-> call[1] + 1, i |-> 1] \in [dp : Nat, i : Nat \ {0}]
    BY <1>2 DEF TInv, Calls
  <1>6. Calls' /\ frames' # <<>> /\ Len(frames') = Len(frames) + 1
    BY <1>2, <1>5 DEF TInv, Calls
  <1>7. Place'
    <2> SUFFICES ASSUME failed' = <<>>
                 PROVE  cwd' \in dirs' /\ Named(cwd', Len(frames))
      <3>1. Len(frames') - 1 = Len(frames)
        BY <1>5, <1>6
      <3> QED
        BY <1>2, <1>6, <3>1 DEF Place, Named
    <2>1. failed = <<>> /\ p \in dirs'
      BY <1>1, MkdirFacts
    <2>2. cwd' = p /\ Named(p, Len(frames))
      BY <1>1, <1>2, <2>1
    <2> QED
      BY <2>1, <2>2
  <1> QED
    BY <1>3, <1>4, <1>6, <1>7 DEF TInv

LEMMA DepthTooDeepInv == ASSUME TInv, DepthTooDeep PROVE TInv'
  BY DEF DepthTooDeep, TInv, Types, Whole, Levels, Calls, Place, Named, TB!Above, args, breadths

LEMMA DepthCallInv == ASSUME TInv, DepthCall PROVE TInv'
  <1>1. /\ pc' = pc /\ b' = b /\ UNCHANGED <<args, dirs, failed, breadths, cwd>>
        /\ call' = <<Frame.dp, Frame.i>> /\ Frame.i <= b /\ frames # <<>>
        /\ frames' = [frames EXCEPT ![Len(frames)].i = @ + 1]
    BY DEF DepthCall, args
  <1>2. Types' /\ Whole' /\ Levels'
    BY <1>1 DEF TInv, Types, Whole, Levels, Named, TB!Above, args, breadths
  <1> DEFINE R == [dp : Nat, i : Nat \ {0}]
             n == Len(frames)
             e == [Frame EXCEPT !.i = @ + 1]
  <1>3. /\ frames \in Seq(R) /\ n \in 1 .. n /\ Frame = frames[n] /\ Frame \in R
        /\ Frame.dp = n + 1 /\ b \in Nat
    <2>1. frames \in Seq(R) /\ n \in Nat /\ n # 0 /\ b \in Nat
      BY <1>1, EmptySeq DEF TInv, Types, Calls
    <2>2. n \in 1 .. n /\ Frame = frames[n]
      BY <2>1 DEF Frame
    <2>3. Frame.dp = n + 1
      BY <2>2 DEF TInv, Calls
    <2> QED
      BY <2>1, <2>2, <2>3, ElementOfSeq
  <1>4. /\ frames' \in Seq(R) /\ Len(frames') = n
        /\ \A j \in 1 .. n : frames'[j].dp = frames[j].dp
        /\ frames' # <<>>
    <2>1. e \in R /\ e.dp = Frame.dp
      BY <1>3
    <2>2. frames' = [frames EXCEPT ![n] = e]
      BY <1>1, <1>3
    <2> HIDE DEF e, R, n
    <2>3. /\ frames' \in Seq(R) /\ Len(frames') = Len(frames)
          /\ \A j \in 1 .. Len(frames) : frames'[j] = IF j = n THEN e ELSE frames[j]
      BY <1>3, <2>1, <2>2, ExceptSeq DEF n
    <2> QED
      BY <1>3, <2>1, <2>3, EmptySeq DEF n
  <1>5. Calls'
    BY <1>1, <1>3, <1>4 DEF TInv, Calls
  <1>6. Place'
    BY <1>1, <1>4 DEF TInv, Place, Named
  <1> QED
    BY <1>2, <1>5, <1>6 DEF TInv

LEMMA DepthReturnInv == ASSUME TInv, DepthReturn PROVE TInv'
  <1>1. /\ pc' = pc /\ pc = "depth" /\ b' = b /\ UNCHANGED <<args, dirs, failed, breadths, call>>
        /\ call = <<>> /\ frames # <<>> /\ cwd' = TB!Above(cwd)
        /\ frames' = SubSeq(frames, 1, Len(frames) - 1)
    BY DEF DepthReturn, args
  <1>2. Types' /\ Whole' /\ Levels'
    BY <1>1, AboveIsPath DEF TInv, Types, Whole, Levels, Named, TB!Above, args, breadths
  <1>3. frames \in Seq([dp : Nat, i : Nat \ {0}]) /\ Len(frames) - 1 \in Nat
    BY <1>1 DEF TInv, Calls
  <1>4. /\ frames' \in Seq([dp : Nat, i : Nat \ {0}]) /\ Len(frames') = Len(frames) - 1
        /\ \A j \in 1 .. (Len(frames) - 1) : frames'[j] = frames[j]
    <2> DEFINE n == Len(frames) - 1
               R == [dp : Nat, i : Nat \ {0}]
    <2>1. n \in Nat /\ n <= Len(frames) /\ frames \in Seq(R) /\ frames' = SubSeq(frames, 1, n)
      BY <1>1, <1>3
    <2> HIDE DEF n, R
    <2>2. /\ SubSeq(frames, 1, n) \in Seq(R) /\ Len(SubSeq(frames, 1, n)) = n
          /\ \A j \in 1 .. n : SubSeq(frames, 1, n)[j] = frames[j]
      BY <2>1, PrefixFacts
    <2>3. frames' \in Seq(R) /\ Len(frames') = n /\ \A j \in 1 .. n : frames'[j] = frames[j]
      BY <2>1, <2>2
    <2> QED
      BY <2>3 DEF n, R
  <1>5. Calls'
    <2> DEFINE n == Len(frames)
    <2>1. \A j \in 1 .. n : frames[j].dp = j + 1
      BY DEF TInv, Calls
    <2>2. \A j \in 1 .. (n - 1) : j \in 1 .. n /\ frames'[j] = frames[j]
      BY <1>3, <1>4
    <2>3. Len(frames') = n - 1
      BY <1>4
    <2> HIDE DEF n
    <2>4. \A j \in 1 .. Len(frames') : frames'[j].dp = j + 1
      BY <2>1, <2>2, <2>3
    <2> QED
      BY <1>1, <1>4, <2>4 DEF Calls
  <1>6. Place'
    <2> SUFFICES ASSUME failed = <<>>
                 PROVE  /\ cwd' \in dirs
                        /\ IF frames' = <<>> THEN cwd' = TB!Home ELSE Named(cwd', Len(frames') - 1)
      BY <1>1 DEF Place, Named
    <2>1. cwd \in dirs /\ Named(cwd, Len(frames) - 1)
      BY <1>1 DEF TInv, Place
    <2>2. cwd' \in dirs
      BY <1>1, <2>1 DEF TInv, Whole
    <2>3. IF Len(frames) - 1 = 0 THEN cwd' = TB!Home ELSE Named(cwd', Len(frames) - 1 - 1)
      BY <1>1, <1>3, <2>1, AboveNamed
    <2>4. frames' = <<>> <=> Len(frames) - 1 = 0
      BY <1>4
    <2> QED
      BY <1>4, <2>2, <2>3, <2>4
  <1> QED
    BY <1>2, <1>5, <1>6 DEF TInv

\* The steps that end the script, and those that change nothing.
LEMMA DoneInv == ASSUME TInv, BreadthDone \/ DepthDone \/ UNCHANGED vars PROVE TInv'
  BY DEF BreadthDone, DepthDone, vars, TInv, Types, Whole, Levels, Calls, Place, Named, TB!Above,
         args, breadths, depths

LEMMA Invariant == Spec => []TInv
  <1>1. ASSUME TInv, [Next]_vars PROVE TInv'
    BY <1>1, BreadthTopInv, BreadthMkdirInv, BreadthNextInv, BreadthLevelInv, DepthEnterInv,
       DepthTooDeepInv, DepthCallInv, DepthReturnInv, DoneInv DEF Next, Stopped
  <1> QED
    BY <1>1, InitInv, PTL DEF Spec

-----------------------------------------------------------------------------
\* The two orders implement the abstract tree until a mkdir fails
\* (create.sh:20-67).
THEOREM CreateImplementsTreeBuild == Spec => ImplementsTreeBuild
  <1>1. Init => TB!Init
    BY DEF Init
  <1>2. TInv /\ [Next]_vars => [failed' = <<>> => TB!Next]_(TB!vars)
    <2> SUFFICES ASSUME TInv, [Next]_vars
                 PROVE  (failed' = <<>> => TB!Next) \/ UNCHANGED TB!vars
      OBVIOUS
    <2>1. CASE BreadthTop
      <3>1. TB!Top \in Seq(Nat) /\ mkdir(TB!Top) /\ UNCHANGED args /\ d \in Nat
        BY <2>1, TopFacts DEF BreadthTop, TInv, Types
      <3>2. TB!Top \in TB!Tree
        BY <3>1, TopFacts, NamedInTree
      <3> QED
        BY <3>1, <3>2, MkdirStep
    <2>2. CASE BreadthMkdir
      <3>1. mkdir(Append(Head(open), k)) /\ UNCHANGED args
        BY <2>2 DEF BreadthMkdir
      <3> QED
        BY <2>2, <3>1, BreadthPath, MkdirStep
    <2>3. CASE DepthEnter
      <3> DEFINE p == Made(call[1], call[2])
      <3>1. p \in Seq(Nat) /\ mkdir(p) /\ UNCHANGED args /\ (failed = <<>> => p \in TB!Tree)
        BY <2>3, DepthPath DEF DepthEnter
      <3> HIDE DEF p
      <3>2. CASE failed' = <<>>
        <4>1. failed = <<>>
          BY <3>1, <3>2, MkdirFacts
        <4> QED
          BY <3>1, <4>1, MkdirStep
      <3> QED
        BY <3>2
    <2>4. CASE \/ BreadthNext \/ BreadthLevel \/ BreadthDone
               \/ DepthTooDeep \/ DepthCall \/ DepthReturn \/ DepthDone \/ UNCHANGED vars
      BY <2>4 DEF BreadthNext, BreadthLevel, BreadthDone, DepthTooDeep, DepthCall, DepthReturn,
                  DepthDone, vars, args, TB!vars
    <2> QED
      BY <2>1, <2>2, <2>3, <2>4 DEF Next, Stopped
  <1> QED
    BY <1>1, <1>2, Invariant, PTL DEF Spec, ImplementsTreeBuild

-----------------------------------------------------------------------------
(* Where depth ends.                                                       *)

\* Which order runs where; when depth has ended no call is left.
Order == /\ first \in {"breadth", "depth"}
         /\ first = "breadth" => pc \in {"top", "level", "done"} /\ cwd = TB!Home
         /\ first = "depth"   => pc \in {"depth", "done"}
         /\ first = "depth" /\ pc = "done" => frames = <<>> /\ call = <<>>

\* What is left of the home directory when all calls have returned: every mkdir
\* that failed costs one directory, up to the root.
Base == IF Len(failed) < 2 THEN 2 - Len(failed) ELSE 0

\* The working directory of depth: a cd .. at the root does nothing, so that it
\* can be deeper than the calls and the failures say, but never above Base.
Height == first = "depth" =>
            /\ cwd \in dirs
            /\ Len(cwd) >= Len(frames) + 2 - Len(failed)
            /\ Len(cwd) <= Len(frames) + Base
            /\ \A j \in 1 .. Base : j <= Len(cwd) /\ cwd[j] = 0

HInv == Order /\ Height

LEMMA HomeFacts == /\ TB!Home \in Seq(Nat) /\ Len(TB!Home) = 2
                   /\ TB!Home[1] = 0 /\ TB!Home[2] = 0
  BY DEF TB!Home

\* mkdir leaves the directory missing exactly when it fails for want of space or
\* rights, if the one above is there.
LEMMA MkdirOutcome ==
  ASSUME TInv, NEW p \in Seq(Nat), mkdir(p), TB!Above(p) \in dirs
  PROVE  /\ dirs \subseteq dirs' /\ Len(failed) \in Nat /\ Len(failed') \in Nat
         /\ \/ p \in dirs' /\ failed' = failed
            \/ p \notin dirs' /\ failed' = Append(failed, p) /\ Len(failed') = Len(failed) + 1
  <1>1. failed \in Seq(Seq(Nat))
    BY DEF TInv, Types
  <1> QED
    BY <1>1 DEF mkdir

\* The last name taken off a path.
LEMMA AboveFacts ==
  ASSUME NEW p \in Seq(Nat)
  PROVE  /\ TB!Above(p) \in Seq(Nat)
         /\ Len(TB!Above(p)) = IF Len(p) = 0 THEN 0 ELSE Len(p) - 1
         /\ \A j \in 1 .. (Len(p) - 1) : TB!Above(p)[j] = p[j]
  BY DEF TB!Above

LEMMA AboveAppend ==
  ASSUME NEW p \in Seq(Nat), NEW c \in Nat
  PROVE  TB!Above(Append(p, c)) = p
  <1>1. Append(p, c) \in Seq(Nat) /\ Len(Append(p, c)) = Len(p) + 1
    OBVIOUS
  <1>2. \A j \in 1 .. Len(p) : Append(p, c)[j] = p[j]
    OBVIOUS
  <1> DEFINE q == Append(p, c)
             a == TB!Above(q)
  <1> HIDE DEF q
  <1>3. a \in Seq(Nat) /\ Len(a) = Len(p) /\ \A j \in 1 .. Len(p) : a[j] = p[j]
    <2>1. q \in Seq(Nat) /\ Len(q) = Len(p) + 1 /\ Len(p) \in Nat
      BY <1>1 DEF q
    <2>2. /\ a \in Seq(Nat) /\ Len(a) = (IF Len(q) = 0 THEN 0 ELSE Len(q) - 1)
          /\ \A j \in 1 .. (Len(q) - 1) : a[j] = q[j]
      BY <2>1, AboveFacts
    <2> HIDE DEF a
    <2> QED
      BY <1>2, <2>1, <2>2 DEF q
  <1> HIDE DEF a
  <1>4. a = p
    BY <1>3, SeqEqual
  <1> QED
    BY <1>4 DEF a, q

LEMMA InitHInv == Init => HInv
  <1> SUFFICES ASSUME Init PROVE HInv
    OBVIOUS
  <1>1. TB!Home \in dirs
    BY DEF Init, TB!Init
  <1>2. failed = <<>> /\ frames = <<>> /\ cwd = TB!Home /\ first \in {"breadth", "depth"}
        /\ pc = IF first = "depth" THEN "depth" ELSE "top"
    BY OrdersAssumption DEF Init
  <1>3. Len(failed) = 0 /\ Len(frames) = 0
    BY <1>2
  <1> QED
    BY <1>1, <1>2, <1>3, HomeFacts DEF HInv, Order, Height, Base

\* Breadth never changes into another directory.
LEMMA BreadthHInv ==
  ASSUME TInv, HInv, BreadthTop \/ BreadthMkdir \/ BreadthNext \/ BreadthLevel \/ BreadthDone
  PROVE  HInv'
  BY DEF HInv, Order, Height, BreadthTop, BreadthMkdir, BreadthNext, BreadthLevel, BreadthDone,
         args, depths

LEMMA DepthEnterHInv == ASSUME TInv, HInv, DepthEnter PROVE HInv'
  <1> DEFINE c == IF call[1] = 1 /\ call[2] = 1 THEN 0 ELSE call[2]
             p == Made(call[1], call[2])
             f == Len(failed)
             n == Len(frames)
  <1>1. /\ first = "depth" /\ pc' = "depth" /\ first' = first /\ cwd \in Seq(Nat) /\ cwd \in dirs
        /\ n \in Nat /\ c \in Nat /\ p = Append(cwd, c)
    BY DEF HInv, Order, Height, TInv, Types, Calls, DepthEnter, args, Made
  <1>2. /\ cwd' = (IF p \in dirs' THEN p ELSE cwd)
        /\ frames' = Append(frames, [dp |-> call[1] + 1, i |-> 1]) /\ mkdir(p)
    BY DEF DepthEnter
  <1>3. Len(frames') = n + 1
    BY <1>2 DEF TInv, Calls
  <1> HIDE DEF c, p, n
  <1>4. p \in Seq(Nat) /\ TB!Above(p) = cwd
    BY <1>1, AboveAppend
  <1>5. /\ dirs \subseteq dirs' /\ f \in Nat /\ Len(failed') \in Nat
        /\ \/ p \in dirs' /\ failed' = failed
           \/ p \notin dirs' /\ Len(failed') = f + 1
    BY <1>1, <1>2, <1>4, MkdirOutcome
  <1>6. /\ Len(p) = Len(cwd) + 1 /\ Len(cwd) \in Nat
        /\ \A j \in 1 .. Len(cwd) : p[j] = cwd[j]
    BY <1>1
  <1>7. /\ Len(cwd) >= n + 2 - f /\ Len(cwd) <= n + Base
        /\ \A j \in 1 .. Base : j <= Len(cwd) /\ cwd[j] = 0
    BY <1>1 DEF HInv, Height, n
  <1> HIDE DEF f
  <1>8. /\ Base \in Nat /\ Base' \in Nat /\ Base' <= Base /\ Base <= Base' + 1
        /\ failed' = failed => Base' = Base
    BY <1>5 DEF Base, f
  <1>9. Height'
    <2>1. CASE p \in dirs' /\ failed' = failed
      <3>1. cwd' = p /\ Base' = Base /\ Len(failed') = f
        BY <1>2, <1>8, <2>1 DEF f
      <3>2. /\ Len(p) >= n + 1 + 2 - f /\ Len(p) <= n + 1 + Base
            /\ \A j \in 1 .. Base : j <= Len(p) /\ p[j] = 0
        BY <1>1, <1>5, <1>6, <1>7, <1>8
      <3> QED
        BY <1>1, <1>3, <2>1, <3>1, <3>2 DEF Height
    <2>2. CASE p \notin dirs' /\ Len(failed') = f + 1
      <3>1. cwd' = cwd /\ cwd \in dirs'
        BY <1>1, <1>2, <1>5, <2>2
      <3>2. Len(cwd) >= n + 1 + 2 - (f + 1) /\ Len(cwd) <= n + 1 + Base'
        <4>1. /\ n \in Nat /\ f \in Nat /\ Len(cwd) \in Nat /\ Base \in Nat /\ Base' \in Nat
              /\ Len(cwd) >= n + 2 - f /\ Len(cwd) <= n + Base /\ Base <= Base' + 1
          BY <1>1, <1>5, <1>6, <1>7, <1>8
        <4> DEFINE bb == Base'
        <4>2. bb \in Nat /\ Base <= bb + 1
          BY <4>1
        <4> HIDE DEF bb
        <4>3. Len(cwd) >= n + 1 + 2 - (f + 1) /\ Len(cwd) <= n + 1 + bb
          BY <4>1, <4>2
        <4> QED
          BY <4>3 DEF bb
      <3>3. \A j \in 1 .. Base' : j \in 1 .. Base
        BY <1>8
      <3>4. \A j \in 1 .. Base' : j <= Len(cwd) /\ cwd[j] = 0
        BY <1>7, <3>3
      <3> QED
        BY <1>1, <1>3, <2>2, <3>1, <3>2, <3>4 DEF Height
    <2> QED
      BY <1>5, <2>1, <2>2
  <1>10. Order'
    BY <1>1 DEF Order
  <1> QED
    BY <1>9, <1>10 DEF HInv

LEMMA DepthReturnHInv == ASSUME TInv, HInv, DepthReturn PROVE HInv'
  <1> DEFINE n == Len(frames)
             f == Len(failed)
  <1>1. /\ first = "depth" /\ pc' = "depth" /\ first' = first /\ cwd \in Seq(Nat) /\ cwd \in dirs
        /\ dirs' = dirs /\ failed' = failed /\ cwd' = TB!Above(cwd)
        /\ frames' = SubSeq(frames, 1, n - 1) /\ frames # <<>> /\ Whole /\ failed \in Seq(Seq(Nat))
    BY DEF HInv, Order, Height, TInv, Types, DepthReturn, args
  <1>2. n \in Nat \ {0} /\ Len(frames') = n - 1 /\ f \in Nat
    <2> DEFINE R == [dp : Nat, i : Nat \ {0}]
    <2>1. frames \in Seq(R)
      BY DEF TInv, Calls
    <2> HIDE DEF R
    <2>2. n \in Nat /\ n # 0
      BY <1>1, <2>1, EmptySeq
    <2>3. n - 1 \in Nat /\ n - 1 <= n
      BY <2>2
    <2>4. Len(SubSeq(frames, 1, n - 1)) = n - 1
      BY <2>1, <2>3, PrefixFacts
    <2> QED
      BY <1>1, <2>2, <2>4
  <1>3. cwd' \in dirs
    BY <1>1 DEF Whole
  <1>4. /\ Len(cwd') = (IF Len(cwd) = 0 THEN 0 ELSE Len(cwd) - 1) /\ Len(cwd) \in Nat
        /\ \A j \in 1 .. (Len(cwd) - 1) : cwd'[j] = cwd[j]
    <2>1. cwd \in Seq(Nat) /\ cwd' = TB!Above(cwd)
      BY <1>1
    <2> QED
      BY <2>1, AboveFacts
  <1>5. /\ Len(cwd) >= n + 2 - f /\ Len(cwd) <= n + Base
        /\ \A j \in 1 .. Base : j <= Len(cwd) /\ cwd[j] = 0
    BY <1>1 DEF HInv, Height
  <1> HIDE DEF n, f
  <1>6. Base' = Base /\ Base \in Nat /\ (Base = 0 \/ Base = 2 - f)
    BY <1>1, <1>2 DEF Base, f
  <1>7. /\ Len(cwd') >= n - 1 + 2 - f /\ Len(cwd') <= n - 1 + Base
        /\ \A j \in 1 .. Base : j <= Len(cwd') /\ cwd'[j] = 0
    BY <1>2, <1>4, <1>5, <1>6
  <1>8. Height'
    BY <1>1, <1>2, <1>3, <1>6, <1>7 DEF Height, f
  <1>9. Order'
    BY <1>1 DEF Order
  <1> QED
    BY <1>8, <1>9 DEF HInv

LEMMA DepthCallHInv == ASSUME TInv, HInv, DepthCall PROVE HInv'
  <1>1. /\ UNCHANGED <<args, dirs, failed, breadths, cwd, pc>> /\ pc = "depth"
        /\ frames' = [frames EXCEPT ![Len(frames)].i = @ + 1]
    BY DEF DepthCall
  <1>2. Len(frames') = Len(frames)
    BY <1>1 DEF TInv, Calls
  <1> QED
    BY <1>1, <1>2 DEF HInv, Order, Height, Base, args

LEMMA OtherHInv ==
  ASSUME TInv, HInv, DepthTooDeep \/ DepthDone \/ UNCHANGED vars
  PROVE  HInv'
  BY DEF DepthTooDeep, DepthDone, vars, HInv, Order, Height, Base, args, breadths, depths

LEMMA HInvariant == Spec => []HInv
  <1>1. ASSUME TInv, HInv, [Next]_vars PROVE HInv'
    BY <1>1, BreadthHInv, DepthEnterHInv, DepthReturnHInv, DepthCallHInv, OtherHInv
       DEF Next, Stopped
  <1> QED
    BY <1>1, Invariant, InitHInv, PTL DEF Spec

\* depth leaves the script one directory higher for each mkdir that failed, and
\* not above the root (create.sh:54, 65).
THEOREM EndsInPlace == Spec => []EndsWhereCalled
  <1>1. TInv /\ HInv => EndsWhereCalled
    <2> SUFFICES ASSUME TInv, HInv, pc = "done", first = "depth"
                 PROVE  cwd = SubSeq(TB!Home, 1, Len(TB!Home) - Len(failed))
      BY DEF EndsWhereCalled, HInv, Order
    <2> DEFINE r == SubSeq(TB!Home, 1, Len(TB!Home) - Len(failed))
    <2>1. Len(frames) = 0 /\ failed \in Seq(Seq(Nat)) /\ cwd \in Seq(Nat)
      BY DEF HInv, Order, TInv, Types
    <2>2. Base \in Nat /\ Base <= 2 /\ Len(cwd) = Base /\ \A j \in 1 .. Base : cwd[j] = 0
      BY <2>1 DEF HInv, Height, Base
    <2>3. r \in Seq(Nat) /\ Len(r) = Base /\ \A j \in 1 .. Base : r[j] = 0
      BY <2>1, HomeFacts DEF Base
    <2> HIDE DEF r
    <2>4. cwd = r
      BY <2>1, <2>2, <2>3, SeqEqual
    <2> QED
      BY <2>4 DEF r
  <1> QED
    BY <1>1, Invariant, HInvariant, PTL

-----------------------------------------------------------------------------
(* What breadth has asked for.                                             *)

\* Every path of the tree has one name for each level.
LEMMA TreeNamed ==
  ASSUME d \in Nat, b \in Nat, NEW p \in TB!Tree
  PROVE  p \in Seq(Nat) /\ Len(p) - 3 \in 0 .. d /\ Named(p, Len(p) - 3)
  <1>1. PICK s \in UNION {[1 .. l -> 1 .. b] : l \in 0 .. d} : p = TB!Top \o s
    BY DEF TB!Tree
  <1>2. PICK l \in 0 .. d : s \in [1 .. l -> 1 .. b]
    BY <1>1
  <1>3. l \in Nat /\ s \in Seq(Nat) /\ Len(s) = l /\ \A j \in 1 .. l : s[j] \in 1 .. b
    BY <1>2
  <1>4. /\ TB!Top \in Seq(Nat) /\ Len(TB!Top) = 3
        /\ TB!Top[1] = 0 /\ TB!Top[2] = 0 /\ TB!Top[3] = 0
    BY TopFacts DEF Named
  <1>5. /\ p \in Seq(Nat) /\ Len(p) = l + 3
        /\ \A j \in 1 .. (l + 3) : p[j] = IF j <= 3 THEN TB!Top[j] ELSE s[j - 3]
    <2>1. /\ TB!Top \o s \in Seq(Nat) /\ Len(TB!Top \o s) = Len(TB!Top) + Len(s)
          /\ \A j \in 1 .. Len(TB!Top) + Len(s) : (TB!Top \o s)[j]
               = IF j <= Len(TB!Top) THEN TB!Top[j] ELSE s[j - Len(TB!Top)]
      BY <1>3, <1>4, ConcatProperties
    <2>2. Len(TB!Top) + Len(s) = l + 3 /\ Len(TB!Top) = 3
      BY <1>3, <1>4
    <2> QED
      BY <1>1, <2>1, <2>2
  <1>6. \A j \in 4 .. (l + 3) : p[j] \in 1 .. b
    <2> SUFFICES ASSUME NEW j \in 4 .. (l + 3) PROVE p[j] \in 1 .. b
      OBVIOUS
    <2>1. j \in 1 .. (l + 3) /\ ~(j <= 3) /\ j - 3 \in 1 .. l
      BY <1>3
    <2> QED
      BY <1>3, <1>5, <2>1
  <1>7. p[1] = 0 /\ p[2] = 0 /\ p[3] = 0
    BY <1>3, <1>4, <1>5
  <1> QED
    BY <1>2, <1>3, <1>5, <1>6, <1>7 DEF Named

LEMMA NamedTop == ASSUME NEW p, Named(p, 0) PROVE p = TB!Top
  <1>1. /\ p \in Seq(Nat) /\ TB!Top \in Seq(Nat) /\ Len(p) = Len(TB!Top)
        /\ Len(p) = 3 /\ \A j \in 1 .. 3 : p[j] = TB!Top[j]
    BY TopFacts DEF Named
  <1> QED
    BY <1>1, SeqEqual

\* The directory above one that is not the top.
LEMMA TreeAbove ==
  ASSUME d \in Nat, b \in Nat, NEW p \in TB!Tree, Len(p) # 3
  PROVE  /\ TB!Above(p) \in TB!Tree /\ Len(TB!Above(p)) = Len(p) - 1
         /\ p[Len(p)] \in 1 .. b /\ p = Append(TB!Above(p), p[Len(p)])
  <1> DEFINE l == Len(p) - 3
             a == TB!Above(p)
  <1>1. p \in Seq(Nat) /\ l \in 0 .. d /\ l # 0 /\ Named(p, l) /\ Len(p) = l + 3
    BY TreeNamed
  <1>2. l \in Nat /\ l - 1 \in 0 .. d /\ l - 1 \in Nat
    BY <1>1
  <1> HIDE DEF l
  <1>3. Named(a, l - 1)
    BY <1>1, <1>2, AboveNamed
  <1>4. a \in TB!Tree
    BY <1>2, <1>3, NamedInTree
  <1>5. a \in Seq(Nat) /\ Len(a) = l + 2 /\ \A j \in 1 .. (l + 2) : a[j] = p[j]
    <2>1. Len(p) # 0 /\ Len(p) - 1 = l + 2
      BY <1>1, <1>2
    <2>2. /\ a \in Seq(Nat) /\ Len(a) = (IF Len(p) = 0 THEN 0 ELSE Len(p) - 1)
          /\ \A j \in 1 .. (Len(p) - 1) : a[j] = p[j]
      BY <1>1, AboveFacts
    <2> QED
      BY <2>1, <2>2
  <1>6. p[l + 3] \in 1 .. b /\ p[l + 3] \in Nat
    BY <1>1, <1>2 DEF Named
  <1> HIDE DEF a
  <1> DEFINE q == Append(a, p[l + 3])
  <1>7. /\ q \in Seq(Nat) /\ Len(q) = l + 3
        /\ \A j \in 1 .. (l + 3) : q[j] = IF j = l + 3 THEN p[l + 3] ELSE a[j]
    BY <1>2, <1>5, <1>6
  <1> HIDE DEF q
  <1>8. q = p
    BY <1>1, <1>2, <1>5, <1>7, SeqEqual
  <1> QED
    BY <1>1, <1>2, <1>4, <1>5, <1>6, <1>8 DEF a, q

\* A prefix, element by element, and what is in a directory.
LEMMA InFacts ==
  ASSUME NEW p \in Seq(Nat), NEW q \in Seq(Nat)
  PROVE  In(p, q) <=> Len(q) <= Len(p) /\ \A j \in 1 .. Len(q) : p[j] = q[j]
  <1> DEFINE s == SubSeq(p, 1, Len(q))
  <1>1. SUFFICES ASSUME Len(q) <= Len(p)
                 PROVE  q = s <=> \A j \in 1 .. Len(q) : p[j] = q[j]
    BY DEF In
  <1>2. Len(q) \in Nat
    OBVIOUS
  <1>3. s \in Seq(Nat) /\ Len(s) = Len(q) /\ \A j \in 1 .. Len(q) : s[j] = p[j]
    BY <1>1, <1>2, PrefixFacts
  <1> HIDE DEF s
  <1> QED
    BY <1>3, SeqEqual

LEMMA InAbove ==
  ASSUME NEW p \in Seq(Nat), NEW q \in Seq(Nat), Len(p) # 0
  PROVE  In(p, q) <=> In(TB!Above(p), q) \/ p = q
  <1> DEFINE a == TB!Above(p)
  <1>1. /\ a \in Seq(Nat) /\ Len(a) = Len(p) - 1 /\ Len(p) \in Nat /\ Len(q) \in Nat
        /\ \A j \in 1 .. (Len(p) - 1) : a[j] = p[j]
    <2>1. /\ a \in Seq(Nat) /\ Len(a) = (IF Len(p) = 0 THEN 0 ELSE Len(p) - 1)
          /\ \A j \in 1 .. (Len(p) - 1) : a[j] = p[j]
      BY AboveFacts
    <2>2. Len(p) \in Nat /\ Len(q) \in Nat
      OBVIOUS
    <2> HIDE DEF a
    <2> QED
      BY <2>1, <2>2
  <1> HIDE DEF a
  <1>2. In(a, q) <=> Len(q) <= Len(a) /\ \A j \in 1 .. Len(q) : a[j] = q[j]
    BY <1>1, InFacts
  <1>3. In(p, q) <=> Len(q) <= Len(p) /\ \A j \in 1 .. Len(q) : p[j] = q[j]
    BY InFacts
  <1>4. CASE Len(q) <= Len(p) - 1
    <2>1. \A j \in 1 .. Len(q) : a[j] = p[j]
      BY <1>1, <1>4
    <2>2. p # q
      BY <1>1, <1>4
    <2> QED
      BY <1>1, <1>2, <1>3, <1>4, <2>1, <2>2 DEF a
  <1>5. CASE ~(Len(q) <= Len(p) - 1)
    <2>1. ~In(a, q)
      BY <1>1, <1>2, <1>5
    <2>2. In(p, q) => p = q
      <3>1. SUFFICES ASSUME In(p, q) PROVE p = q
        OBVIOUS
      <3>2. Len(p) = Len(q) /\ \A j \in 1 .. Len(p) : p[j] = q[j]
        BY <1>1, <1>3, <1>5, <3>1
      <3> QED
        BY <3>2, SeqEqual
    <2>3. p = q => In(p, q)
      BY <1>1, <1>3
    <2> QED
      BY <2>1, <2>2, <2>3 DEF a
  <1> QED
    BY <1>4, <1>5

\* What breadth has put into the list of the next level.
Listed == {temp_open[j] : j \in 1 .. Len(temp_open)}

\* The directories breadth has called mkdir for.
Asked == {p \in TB!Tree : pc # "top" /\ (Len(p) < i + 3 \/ (Len(p) = i + 3 /\ p \in Listed))}

Missing(p) == \E j \in DOMAIN failed : In(p, failed[j])

\* A path of the next level is still to come while the one above it is in open.
Waiting(q) == \E j \in 1 .. Len(open) : open[j] = TB!Above(q) /\ (j > 1 \/ q[i + 3] >= k)

Sweep == /\ \A m, n \in 1 .. Len(open) : m # n => open[m] # open[n]
         /\ \A m, n \in 1 .. Len(temp_open) : m # n => temp_open[m] # temp_open[n]
         /\ open = <<>> => k = 1
         /\ \A q \in TB!Tree : Len(q) = i + 3 => (q \in Listed <=> ~Waiting(q))

\* Of those asked for, the missing ones are those that failed and what lies in them.
Account == /\ \A p \in Asked : p \notin dirs <=> Missing(p)
           /\ \A j \in 1 .. Len(failed) : failed[j] \in Asked
           /\ TB!Home \in dirs

BInv == /\ first = "breadth" => Account
        /\ first = "breadth" /\ pc # "top" => Sweep
        /\ pc = "top" => k = 1 /\ failed = <<>>
        /\ first = "breadth" /\ pc = "done" => i > d

LEMMA SameTree == UNCHANGED args => TB!Tree' = TB!Tree
  BY DEF args, TB!Tree, TB!Top, TB!Home

\* One more mkdir, for a directory below one that was asked for.
LEMMA AccountStep ==
  ASSUME TInv, Account, NEW p \in TB!Tree, p \notin Asked, mkdir(p), UNCHANGED args,
         p = TB!Top \/ (Len(p) # 3 /\ TB!Above(p) \in Asked),
         Asked' = Asked \cup {p},
         \A x \in Asked : Len(x) <= Len(p)
  PROVE  Account'
  <1> DEFINE a == TB!Above(p)
  <1>1. /\ failed \in Seq(Seq(Nat)) /\ d \in Nat /\ b \in Nat
        /\ p \in Seq(Nat) /\ a \in Seq(Nat) /\ Len(p) # 0
        /\ \A x \in TB!Tree : x \in Seq(Nat) /\ Len(x) >= 3 /\ (Len(x) = 3 => x = TB!Top)
    <2>1. d \in Nat /\ b \in Nat /\ failed \in Seq(Seq(Nat))
      BY DEF TInv, Types
    <2>2. ASSUME NEW x \in TB!Tree
          PROVE  x \in Seq(Nat) /\ Len(x) >= 3 /\ (Len(x) = 3 => x = TB!Top)
      <3>1. x \in Seq(Nat) /\ Len(x) - 3 \in 0 .. d /\ Named(x, Len(x) - 3)
        BY <2>1, TreeNamed
      <3>2. Len(x) \in Nat /\ Len(x) >= 3 /\ (Len(x) = 3 => Len(x) - 3 = 0)
        BY <2>1, <3>1
      <3> QED
        BY <3>1, <3>2, NamedTop
    <2>3. p \in Seq(Nat) /\ Len(p) # 0
      BY <2>2
    <2> QED
      BY <2>1, <2>2, <2>3, AboveIsPath
  <1>2. \A j \in 1 .. Len(failed) : failed[j] \in Asked /\ failed[j] \in TB!Tree /\ failed[j] # p
    BY DEF Account, Asked
  <1>3. p \in dirs => a \in dirs
    BY DEF TInv, Whole
  <1>4. a \in dirs <=> ~Missing(p)
    <2>1. CASE p = TB!Top
      <3>1. a \in dirs
        BY <2>1, TopFacts DEF Account
      <3>2. ASSUME NEW j \in 1 .. Len(failed), In(p, failed[j]) PROVE FALSE
        <4>1. Len(failed[j]) <= Len(p) /\ Len(p) = 3 /\ failed[j] \in TB!Tree
          BY <1>2, <2>1, <3>2, TopFacts DEF In, Named
        <4>2. Len(failed[j]) >= 3 /\ Len(failed[j]) \in Nat /\ (Len(failed[j]) = 3 => failed[j] = TB!Top)
          BY <1>1, <4>1
        <4> DEFINE n == Len(failed[j])
        <4>3. n = 3
          <5>1. n \in Nat /\ n >= 3 /\ n <= 3
            BY <4>1, <4>2
          <5> HIDE DEF n
          <5> QED
            BY <5>1
        <4>4. failed[j] = p
          BY <2>1, <4>2, <4>3
        <4> QED
          BY <1>2, <4>4
      <3>3. DOMAIN failed = 1 .. Len(failed)
        BY <1>1
      <3> QED
        BY <3>1, <3>2, <3>3 DEF Missing
    <2>2. CASE a \in Asked
      <3>1. a \in dirs <=> ~Missing(a)
        BY <2>2 DEF Account
      <3>2. DOMAIN failed = 1 .. Len(failed) /\ \A j \in 1 .. Len(failed) : failed[j] \in Seq(Nat)
        BY <1>1, <1>2
      <3>3. \A j \in 1 .. Len(failed) : In(p, failed[j]) <=> In(a, failed[j])
        <4> TAKE j \in 1 .. Len(failed)
        <4>1. In(p, failed[j]) <=> In(a, failed[j]) \/ p = failed[j]
          BY <1>1, <3>2, InAbove
        <4> QED
          BY <1>2, <4>1
      <3> QED
        BY <3>1, <3>2, <3>3 DEF Missing
    <2> QED
      BY <2>1, <2>2
  <1>5. ASSUME NEW x \in Asked PROVE In(x, p) => x = p
    <2>1. x \in TB!Tree /\ Len(x) <= Len(p)
      BY DEF Asked
    <2>2. x \in Seq(Nat)
      BY <1>1, <2>1
    <2>3. In(x, p) => Len(x) = Len(p) /\ \A j \in 1 .. Len(x) : x[j] = p[j]
      BY <1>1, <2>1, <2>2, InFacts
    <2> QED
      BY <1>1, <2>2, <2>3, SeqEqual
  <1> HIDE DEF a
  <1>6. TB!Home \in dirs' /\ dirs \subseteq dirs'
    BY DEF Account, mkdir
  <1>7. CASE /\ dirs' = IF p \notin dirs /\ a \in dirs THEN dirs \cup {p} ELSE dirs
             /\ failed' = failed
    <2>1. \A x : Missing(x)' <=> Missing(x)
      BY <1>7 DEF Missing
    <2>2. p \notin dirs' <=> Missing(p)
      BY <1>3, <1>4, <1>7
    <2>3. \A x \in Asked : x \notin dirs' <=> Missing(x)
      BY <1>7 DEF Account
    <2> QED
      BY <1>2, <1>6, <1>7, <2>1, <2>2, <2>3 DEF Account
  <1>8. CASE p \notin dirs /\ failed' = Append(failed, p) /\ dirs' = dirs
    <2>1. /\ DOMAIN failed' = 1 .. (Len(failed) + 1) /\ Len(failed') = Len(failed) + 1
          /\ Len(failed) \in Nat /\ DOMAIN failed = 1 .. Len(failed)
          /\ \A j \in 1 .. (Len(failed) + 1) :
               failed'[j] = IF j = Len(failed) + 1 THEN p ELSE failed[j]
      BY <1>1, <1>8
    <2>2. ASSUME NEW x PROVE Missing(x)' <=> Missing(x) \/ In(x, p)
      <3>1. Missing(x)' <=> \E j \in DOMAIN failed' : In(x, failed'[j])
        BY DEF Missing, In
      <3>2. Missing(x) <=> \E j \in DOMAIN failed : In(x, failed[j])
        BY DEF Missing
      <3> QED
        BY <2>1, <3>1, <3>2
    <2>3. In(p, p)
      BY <1>1, InFacts
    <2>4. Missing(p)' /\ p \notin dirs'
      BY <1>8, <2>2, <2>3
    <2>5. \A x \in Asked : x \notin dirs' <=> Missing(x)'
      BY <1>5, <1>8, <2>2 DEF Account
    <2>6. \A j \in 1 .. Len(failed') : failed'[j] \in Asked'
      BY <1>2, <2>1
    <2> QED
      BY <1>6, <2>4, <2>5, <2>6 DEF Account
  <1> QED
    BY <1>7, <1>8 DEF mkdir, a

LEMMA InitBInv == Init => BInv
  <1> SUFFICES ASSUME Init PROVE BInv
    OBVIOUS
  <1>1. TB!Home \in dirs /\ failed = <<>> /\ k = 1 /\ (first = "breadth" => pc = "top")
    BY DEF Init, TB!Init
  <1>2. Asked = {} \/ pc # "top"
    BY DEF Asked
  <1>3. first = "breadth" => Account
    BY <1>1, <1>2 DEF Account
  <1> QED
    BY <1>1, <1>3 DEF BInv

\* What the steps of breadth rely on.
LEMMA BreadthFacts ==
  ASSUME TInv, HInv, BInv, pc \in {"top", "level"}
  PROVE  /\ first = "breadth" /\ d \in Nat /\ b \in Nat /\ i \in Nat \ {0} /\ k \in Nat \ {0}
         /\ Account
         /\ \A p \in TB!Tree : /\ p \in Seq(Nat) /\ Len(p) \in Nat
                               /\ Len(p) >= 3 /\ Len(p) <= d + 3
                               /\ Len(p) = 3 => p = TB!Top
  <1>1. first = "breadth" /\ d \in Nat /\ b \in Nat /\ i \in Nat \ {0} /\ k \in Nat \ {0} /\ Account
    BY DEF HInv, Order, TInv, Types, BInv
  <1>2. ASSUME NEW p \in TB!Tree
        PROVE  /\ p \in Seq(Nat) /\ Len(p) \in Nat /\ Len(p) >= 3 /\ Len(p) <= d + 3
               /\ Len(p) = 3 => p = TB!Top
    <2>1. p \in Seq(Nat) /\ Len(p) - 3 \in 0 .. d /\ Named(p, Len(p) - 3)
      BY <1>1, TreeNamed
    <2>2. Len(p) \in Nat /\ Len(p) >= 3 /\ Len(p) <= d + 3 /\ (Len(p) = 3 => Len(p) - 3 = 0)
      BY <1>1, <2>1
    <2> QED
      BY <2>1, <2>2, NamedTop
  <1> QED
    BY <1>1, <1>2

LEMMA BreadthTopBInv == ASSUME TInv, HInv, BInv, BreadthTop PROVE BInv'
  <1>1. /\ first = "breadth" /\ d \in Nat /\ b \in Nat /\ Account
        /\ \A p \in TB!Tree : /\ p \in Seq(Nat) /\ Len(p) \in Nat
                              /\ Len(p) >= 3 /\ Len(p) <= d + 3
                              /\ Len(p) = 3 => p = TB!Top
    BY BreadthFacts DEF BreadthTop
  <1>2. /\ pc = "top" /\ pc' = "level" /\ i = 1 /\ i' = 1 /\ k = 1 /\ k' = 1 /\ mkdir(TB!Top)
        /\ open' = <<TB!Top>> /\ temp_open' = <<>> /\ UNCHANGED args
    BY DEF BreadthTop, TInv, Levels, BInv
  <1>3. TB!Top \in TB!Tree /\ Len(TB!Top) = 3 /\ TB!Tree' = TB!Tree
    <2>1. Named(TB!Top, 0) /\ 0 \in 0 .. d
      BY <1>1, TopFacts
    <2>2. TB!Top \in TB!Tree
      BY <1>1, <2>1, NamedInTree
    <2>3. Len(TB!Top) = 3
      BY <2>1 DEF Named
    <2> QED
      BY <1>2, <2>2, <2>3, SameTree
  <1>4. Listed' = {}
    BY <1>2 DEF Listed
  <1>5. Asked = {}
    BY <1>2 DEF Asked
  <1>6. Asked' = {TB!Top}
    <2>1. Asked' = {p \in TB!Tree : Len(p) < 4}
      BY <1>2, <1>3, <1>4 DEF Asked
    <2>2. \A p \in TB!Tree : Len(p) < 4 <=> p = TB!Top
      <3> TAKE p \in TB!Tree
      <3>1. Len(p) \in Nat /\ Len(p) >= 3 /\ (Len(p) = 3 => p = TB!Top)
        BY <1>1
      <3>2. Len(p) < 4 => Len(p) = 3
        <4> DEFINE n == Len(p)
        <4>1. n \in Nat /\ n >= 3
          BY <3>1
        <4> HIDE DEF n
        <4>2. n < 4 => n = 3
          BY <4>1
        <4> QED
          BY <4>2 DEF n
      <3>3. Len(TB!Top) < 4
        BY <1>3
      <3> QED
        BY <3>1, <3>2, <3>3
    <2> QED
      BY <1>3, <2>1, <2>2
  <1>7. Account'
    BY <1>1, <1>2, <1>3, <1>5, <1>6, AccountStep
  <1>8. Sweep'
    <2>1. Len(open') = 1 /\ open'[1] = TB!Top /\ open' # <<>> /\ Len(temp_open') = 0
      BY <1>2
    <2>2. ASSUME NEW q \in TB!Tree, Len(q) = 4 PROVE Waiting(q)'
      <3>1. TB!Above(q) \in TB!Tree /\ Len(TB!Above(q)) = 3 /\ q[4] \in 1 .. b
        <4>1. /\ TB!Above(q) \in TB!Tree /\ Len(TB!Above(q)) = Len(q) - 1
              /\ q[Len(q)] \in 1 .. b
          <5>1. Len(q) # 3
            BY <2>2
          <5> QED
            BY <1>1, <5>1, TreeAbove
        <4> QED
          BY <2>2, <4>1
      <3>2. TB!Above(q) = TB!Top
        BY <1>1, <3>1
      <3>3. TB!Above(q)' = TB!Above(q)
        BY DEF TB!Above
      <3>4. q[4] >= 1
        BY <1>1, <3>1
      <3> QED
        BY <1>2, <2>1, <3>2, <3>3, <3>4 DEF Waiting
    <2>3. \A q \in TB!Tree : Len(q) = i' + 3 => (q \in Listed' <=> ~Waiting(q)')
      BY <1>2, <1>4, <2>2
    <2> QED
      BY <1>3, <2>1, <2>3 DEF Sweep
  <1> QED
    BY <1>1, <1>2, <1>7, <1>8 DEF BInv, args

LEMMA BreadthMkdirBInv == ASSUME TInv, HInv, BInv, BreadthMkdir PROVE BInv'
  <1> DEFINE p == Append(Head(open), k)
             a == Head(open)
  <1>1. /\ first = "breadth" /\ d \in Nat /\ b \in Nat /\ Account
        /\ i \in Nat \ {0} /\ k \in Nat \ {0}
        /\ \A x \in TB!Tree : /\ x \in Seq(Nat) /\ Len(x) \in Nat
                              /\ Len(x) >= 3 /\ Len(x) <= d + 3
                              /\ Len(x) = 3 => x = TB!Top
    BY BreadthFacts DEF BreadthMkdir
  <1>2. /\ pc = "level" /\ pc' = pc /\ i' = i /\ k' = k + 1 /\ mkdir(p) /\ i <= d /\ k <= b
        /\ open' = open /\ open # <<>> /\ temp_open' = Append(temp_open, p) /\ UNCHANGED args
    BY DEF BreadthMkdir
  <1>3. p \in Seq(Nat) /\ Named(p, i) /\ p \in TB!Tree /\ Len(p) = i + 3 /\ Len(p) # 3
    <2>1. p \in Seq(Nat) /\ Named(p, i) /\ p \in TB!Tree
      BY BreadthPath
    <2> HIDE DEF p
    <2> QED
      BY <1>1, <2>1 DEF Named
  <1>4. /\ open \in Seq(Seq(Nat)) /\ temp_open \in Seq(Seq(Nat)) /\ a = open[1] /\ Named(a, i - 1)
        /\ Len(open) \in Nat /\ 1 <= Len(open)
    BY <1>2 DEF TInv, Levels
  <1>5. i - 1 \in Nat /\ i - 1 \in 0 .. d /\ i - 1 + 1 = i
    BY <1>1, <1>2
  <1>6. a \in TB!Tree /\ a \in Seq(Nat) /\ Len(a) = i + 2 /\ TB!Above(p) = a /\ p[i + 3] = k
    <2>1. k \in 1 .. b
      BY <1>1, <1>2
    <2>2. a \in TB!Tree /\ TB!Above(p) = a
      BY <1>1, <1>4, <1>5, <2>1, AppendNamed, NamedInTree
    <2>3. a \in Seq(Nat) /\ Len(a) = i + 2
      BY <1>4, <1>5 DEF Named
    <2>4. p[Len(a) + 1] = k
      BY <1>1, <2>3
    <2> QED
      BY <1>1, <2>2, <2>3, <2>4
  <1> HIDE DEF p, a
  <1>7. Sweep
    BY <1>1, <1>2 DEF BInv
  <1>8. Listed' = Listed \cup {p} /\ Asked' = Asked \cup {p}
    <2>1. /\ Len(temp_open') = Len(temp_open) + 1 /\ Len(temp_open) \in Nat
          /\ \A j \in 1 .. (Len(temp_open) + 1) :
               temp_open'[j] = IF j = Len(temp_open) + 1 THEN p ELSE temp_open[j]
      BY <1>2, <1>3, <1>4
    <2>2. Listed' = Listed \cup {p}
      BY <2>1 DEF Listed
    <2>3. TB!Tree' = TB!Tree
      BY <1>2, SameTree
    <2> QED
      BY <1>2, <1>3, <2>2, <2>3 DEF Asked
  <1>9. Waiting(p) /\ p \notin Listed /\ p \notin Asked
    <2>1. Waiting(p)
      BY <1>1, <1>4, <1>6 DEF Waiting
    <2>2. p \notin Listed
      BY <1>3, <1>7, <2>1 DEF Sweep
    <2> QED
      BY <1>1, <1>3, <2>1, <2>2 DEF Asked
  <1>10. Account'
    <2>1. a \in Asked
      BY <1>1, <1>2, <1>6 DEF Asked
    <2>2. \A x \in Asked : Len(x) <= Len(p)
      BY <1>1, <1>3 DEF Asked
    <2> QED
      BY <1>1, <1>2, <1>3, <1>6, <1>8, <1>9, <2>1, <2>2, AccountStep
  <1>11. Sweep'
    <2>1. \A m, n \in 1 .. Len(temp_open') : m # n => temp_open'[m] # temp_open'[n]
      <3>1. /\ Len(temp_open') = Len(temp_open) + 1 /\ Len(temp_open) \in Nat
            /\ \A j \in 1 .. (Len(temp_open) + 1) :
                 temp_open'[j] = IF j = Len(temp_open) + 1 THEN p ELSE temp_open[j]
        BY <1>2, <1>3, <1>4
      <3>2. \A j \in 1 .. Len(temp_open) : temp_open[j] # p
        BY <1>9 DEF Listed
      <3>3. \A m, n \in 1 .. Len(temp_open) : m # n => temp_open[m] # temp_open[n]
        BY <1>7 DEF Sweep
      <3> QED
        BY <3>1, <3>2, <3>3
    <2>2. ASSUME NEW q \in TB!Tree, Len(q) = i + 3
          PROVE  q \in Listed' <=> ~Waiting(q)'
      <3>1. q \in Listed <=> ~Waiting(q)
        BY <1>7, <2>2 DEF Sweep
      <3>2. /\ Waiting(q) <=> \E j \in 1 .. Len(open) : open[j] = TB!Above(q) /\ (j > 1 \/ q[i + 3] >= k)
            /\ Waiting(q)' <=> \E j \in 1 .. Len(open) :
                                  open[j] = TB!Above(q) /\ (j > 1 \/ q[i + 3] >= k + 1)
        BY <1>2 DEF Waiting, TB!Above
      <3>3. /\ TB!Above(q) \in TB!Tree /\ q[i + 3] \in 1 .. b
            /\ q = Append(TB!Above(q), q[i + 3])
        <4>1. Len(q) # 3
          BY <1>1, <2>2
        <4> QED
          BY <1>1, <2>2, <4>1, TreeAbove
      <3>4. \A j \in 1 .. Len(open) : open[j] = open[1] => j = 1
        BY <1>4, <1>7 DEF Sweep
      <3>5. CASE q = p
        <4>1. ~Waiting(q)'
          <5> SUFFICES ASSUME NEW j \in 1 .. Len(open), open[j] = TB!Above(q), j > 1 \/ q[i + 3] >= k + 1
                       PROVE  FALSE
            BY <3>2
          <5>1. j = 1
            BY <1>4, <1>6, <3>4, <3>5
          <5>2. q[i + 3] = k /\ j \in Nat
            BY <1>6, <3>5
          <5> QED
            BY <1>1, <5>1, <5>2
        <4> QED
          BY <1>8, <3>5, <4>1
      <3>6. CASE q # p
        <4>1. Waiting(q)' => Waiting(q)
          <5> SUFFICES ASSUME NEW j \in 1 .. Len(open), open[j] = TB!Above(q), j > 1 \/ q[i + 3] >= k + 1
                       PROVE  Waiting(q)
            BY <3>2
          <5>1. j > 1 \/ q[i + 3] >= k
            BY <1>1, <3>3
          <5> QED
            BY <3>2, <5>1
        <4>2. Waiting(q) => Waiting(q)'
          <5> SUFFICES ASSUME NEW j \in 1 .. Len(open), open[j] = TB!Above(q), j > 1 \/ q[i + 3] >= k
                       PROVE  Waiting(q)'
            BY <3>2
          <5>1. CASE j = 1 /\ q[i + 3] = k
            BY <1>4, <3>3, <3>6, <5>1 DEF p, a
          <5>2. CASE j > 1 \/ q[i + 3] # k
            <6>1. j > 1 \/ q[i + 3] >= k + 1
              BY <1>1, <3>3, <5>2
            <6> QED
              BY <3>2, <6>1
          <5>3. j > 1 \/ j = 1
            BY <1>4
          <5> QED
            BY <5>1, <5>2, <5>3
        <4> QED
          BY <1>8, <3>1, <3>6, <4>1, <4>2
      <3> QED
        BY <3>5, <3>6
    <2>3. /\ \A m, n \in 1 .. Len(open') : m # n => open'[m] # open'[n]
          /\ open' # <<>>
      BY <1>2, <1>7 DEF Sweep
    <2>4. \A q \in TB!Tree : Len(q) = i' + 3 => (q \in Listed' <=> ~Waiting(q)')
      BY <1>2, <2>2
    <2>5. TB!Tree' = TB!Tree
      BY <1>2, SameTree
    <2> QED
      BY <2>1, <2>3, <2>4, <2>5 DEF Sweep
  <1> QED
    BY <1>2, <1>10, <1>11 DEF BInv

LEMMA BreadthNextBInv == ASSUME TInv, HInv, BInv, BreadthNext PROVE BInv'
  <1>1. /\ first = "breadth" /\ d \in Nat /\ b \in Nat /\ Account
        /\ i \in Nat \ {0} /\ k \in Nat \ {0}
    BY BreadthFacts DEF BreadthNext
  <1>2. /\ pc = "level" /\ pc' = pc /\ i' = i /\ k' = 1 /\ i <= d /\ k > b
        /\ open # <<>> /\ open' = Tail(open) /\ temp_open' = temp_open
        /\ UNCHANGED <<args, dirs, failed>>
    BY DEF BreadthNext
  <1>3. Listed' = Listed /\ TB!Tree' = TB!Tree
    BY <1>2, SameTree DEF Listed
  <1>4. Asked' = Asked
    BY <1>2, <1>3 DEF Asked
  <1>5. Account'
    BY <1>1, <1>2, <1>4 DEF Account, Missing, In, TB!Home
  <1>6. Sweep
    BY <1>1, <1>2 DEF BInv
  <1>7. /\ Len(open) \in Nat \ {0} /\ Len(open') = Len(open) - 1
        /\ \A j \in 1 .. (Len(open) - 1) : open'[j] = open[j + 1]
    BY <1>2 DEF TInv, Levels
  <1>8. ASSUME NEW q \in TB!Tree, Len(q) = i + 3 PROVE Waiting(q)' <=> Waiting(q)
    <2>1. q[i + 3] \in 1 .. b
      <3>1. Len(q) # 3
        BY <1>1, <1>8
      <3>2. q[Len(q)] \in 1 .. b
        BY <1>1, <3>1, TreeAbove
      <3> QED
        BY <1>8, <3>2
    <2>2. q[i + 3] >= 1 /\ ~(q[i + 3] >= k)
      BY <1>1, <1>2, <2>1
    <2>3. Waiting(q) <=> \E j \in 1 .. Len(open) : open[j] = TB!Above(q) /\ j > 1
      BY <2>2 DEF Waiting
    <2>4. Waiting(q)' <=> \E j \in 1 .. (Len(open) - 1) : open[j + 1] = TB!Above(q)
      BY <1>2, <1>7, <2>2 DEF Waiting, TB!Above
    <2>5. ASSUME NEW j \in 1 .. (Len(open) - 1)
          PROVE  j + 1 \in 1 .. Len(open) /\ j + 1 > 1
      BY <1>7
    <2>6. ASSUME NEW j \in 1 .. Len(open), j > 1
          PROVE  j - 1 \in 1 .. (Len(open) - 1) /\ j - 1 + 1 = j
      BY <1>7, <2>6
    <2> QED
      BY <2>3, <2>4, <2>5, <2>6
  <1>9. \A m, n \in 1 .. Len(open') : m # n => open'[m] # open'[n]
    <2> SUFFICES ASSUME NEW m \in 1 .. Len(open'), NEW n \in 1 .. Len(open'), m # n
                 PROVE  open'[m] # open'[n]
      OBVIOUS
    <2>1. m + 1 \in 1 .. Len(open) /\ n + 1 \in 1 .. Len(open) /\ m + 1 # n + 1
      BY <1>7
    <2>2. open'[m] = open[m + 1] /\ open'[n] = open[n + 1]
      BY <1>7
    <2> QED
      BY <1>6, <2>1, <2>2 DEF Sweep
  <1>10. \A q \in TB!Tree : Len(q) = i + 3 => (q \in Listed <=> ~Waiting(q)')
    BY <1>6, <1>8 DEF Sweep
  <1>11. Sweep'
    BY <1>2, <1>3, <1>6, <1>9, <1>10 DEF Sweep
  <1> QED
    BY <1>2, <1>5, <1>11 DEF BInv, args

LEMMA BreadthLevelBInv == ASSUME TInv, HInv, BInv, BreadthLevel PROVE BInv'
  <1>1. /\ first = "breadth" /\ d \in Nat /\ b \in Nat /\ Account
        /\ i \in Nat \ {0} /\ k \in Nat \ {0}
        /\ \A x \in TB!Tree : /\ x \in Seq(Nat) /\ Len(x) \in Nat
                              /\ Len(x) >= 3 /\ Len(x) <= d + 3
                              /\ Len(x) = 3 => x = TB!Top
    BY BreadthFacts DEF BreadthLevel
  <1>2. /\ pc = "level" /\ pc' = pc /\ i' = i + 1 /\ k' = k
        /\ open = <<>> /\ open' = temp_open /\ temp_open' = <<>>
        /\ UNCHANGED <<args, dirs, failed>>
    BY DEF BreadthLevel
  <1>3. Sweep /\ k = 1
    BY <1>1, <1>2 DEF BInv, Sweep
  <1>4. Listed' = {} /\ TB!Tree' = TB!Tree
    BY <1>2, SameTree DEF Listed
  <1>5. \A q \in TB!Tree : Len(q) = i + 3 => q \in Listed
    <2>1. Len(open) = 0
      BY <1>2
    <2>2. \A q : ~Waiting(q)
      BY <2>1 DEF Waiting
    <2> QED
      BY <1>3, <2>2 DEF Sweep
  <1>6. Asked' = Asked
    <2>1. Asked' = {p \in TB!Tree : Len(p) < i + 1 + 3}
      BY <1>2, <1>4 DEF Asked
    <2>2. Asked = {p \in TB!Tree : Len(p) < i + 3 \/ Len(p) = i + 3}
      BY <1>2, <1>5 DEF Asked
    <2>3. ASSUME NEW p \in TB!Tree PROVE Len(p) < i + 1 + 3 <=> Len(p) < i + 3 \/ Len(p) = i + 3
      <3> DEFINE n == Len(p)
      <3>1. n \in Nat /\ i \in Nat
        BY <1>1
      <3> HIDE DEF n
      <3>2. n < i + 1 + 3 <=> n < i + 3 \/ n = i + 3
        BY <3>1
      <3> QED
        BY <3>2 DEF n
    <2> QED
      BY <2>1, <2>2, <2>3
  <1>7. Account'
    BY <1>1, <1>2, <1>6 DEF Account, Missing, In, TB!Home
  <1>8. ASSUME NEW q \in TB!Tree, Len(q) = i + 4 PROVE Waiting(q)'
    <2>1. TB!Above(q) \in TB!Tree /\ Len(TB!Above(q)) = i + 3 /\ q[i + 4] \in 1 .. b
      <3>1. Len(q) # 3
        BY <1>1, <1>8
      <3>2. /\ TB!Above(q) \in TB!Tree /\ Len(TB!Above(q)) = Len(q) - 1 /\ q[Len(q)] \in 1 .. b
        BY <1>1, <3>1, TreeAbove
      <3>3. i + 4 - 1 = i + 3
        BY <1>1
      <3>4. q[Len(q)] = q[i + 4] /\ Len(q) - 1 = i + 4 - 1
        BY <1>1, <1>8
      <3> QED
        BY <3>2, <3>3, <3>4
    <2>2. TB!Above(q) \in Listed /\ q[i + 4] >= 1
      BY <1>1, <1>5, <2>1
    <2>3. PICK j \in 1 .. Len(temp_open) : temp_open[j] = TB!Above(q)
      BY <2>2 DEF Listed
    <2>4. i + 1 + 3 = i + 4
      BY <1>1
    <2> QED
      BY <1>2, <1>3, <2>2, <2>3, <2>4 DEF Waiting, TB!Above
  <1>9. Sweep'
    <2>1. Len(temp_open') = 0 /\ k' = 1
      BY <1>2, <1>3
    <2>2. i + 1 + 3 = i + 4
      BY <1>1
    <2>3. \A q \in TB!Tree : Len(q) = i' + 3 => (q \in Listed' <=> ~Waiting(q)')
      BY <1>2, <1>4, <1>8, <2>2
    <2>4. \A m, n \in 1 .. Len(open') : m # n => open'[m] # open'[n]
      BY <1>2, <1>3 DEF Sweep
    <2> QED
      BY <1>4, <2>1, <2>3, <2>4 DEF Sweep
  <1> QED
    BY <1>2, <1>7, <1>9 DEF BInv, args

\* The other steps end breadth or belong to depth.
LEMMA OtherBInv ==
  ASSUME TInv, HInv, BInv,
         \/ BreadthDone \/ DepthEnter \/ DepthTooDeep \/ DepthCall \/ DepthReturn \/ DepthDone
         \/ UNCHANGED vars
  PROVE  BInv'
  <1>1. CASE DepthEnter \/ DepthTooDeep \/ DepthCall \/ DepthReturn \/ DepthDone
    <2>1. first' = "depth" /\ pc' # "top"
      BY <1>1 DEF DepthEnter, DepthTooDeep, DepthCall, DepthReturn, DepthDone, HInv, Order, args
    <2> QED
      BY <2>1 DEF BInv
  <1>2. CASE BreadthDone
    <2>1. /\ pc = "level" /\ pc' = "done" /\ first = "breadth" /\ i > d /\ Account /\ Sweep
          /\ UNCHANGED <<args, dirs, failed, i, k, open, temp_open>>
      BY <1>2 DEF BreadthDone, HInv, Order, BInv, breadths
    <2>2. TB!Tree' = TB!Tree /\ Listed' = Listed
      BY <2>1, SameTree DEF Listed
    <2>3. Asked' = Asked
      BY <2>1, <2>2 DEF Asked
    <2>4. Account'
      BY <2>1, <2>3 DEF Account, Missing, In, TB!Home
    <2>5. Sweep'
      BY <2>1, <2>2 DEF Sweep, Waiting, TB!Above
    <2> QED
      BY <2>1, <2>4, <2>5 DEF BInv, args
  <1>3. CASE UNCHANGED vars
    <2>1. UNCHANGED <<args, dirs, failed, i, k, open, temp_open, pc>>
      BY <1>3 DEF vars, breadths
    <2>2. TB!Tree' = TB!Tree /\ Listed' = Listed
      BY <2>1, SameTree DEF Listed
    <2>3. Asked' = Asked
      BY <2>1, <2>2 DEF Asked
    <2>4. Account => Account'
      BY <2>1, <2>3 DEF Account, Missing, In, TB!Home
    <2>5. Sweep => Sweep'
      BY <2>1, <2>2 DEF Sweep, Waiting, TB!Above
    <2> QED
      BY <2>1, <2>4, <2>5 DEF BInv, args
  <1> QED
    BY <1>1, <1>2, <1>3

LEMMA BInvariant == Spec => []BInv
  <1>1. ASSUME TInv, HInv, BInv, [Next]_vars PROVE BInv'
    BY <1>1, BreadthTopBInv, BreadthMkdirBInv, BreadthNextBInv, BreadthLevelBInv, OtherBInv
       DEF Next, Stopped
  <1> QED
    BY <1>1, Invariant, HInvariant, InitBInv, PTL DEF Spec

-----------------------------------------------------------------------------
(* What depth has finished.                                                *)

\* The names the call of frame j is done with are those below Lim(j).
Lim(j) == IF j < Len(frames) \/ call # <<>> THEN frames[j].i - 1 ELSE frames[j].i

\* q lies below the directory of frame j, which is a part of the working directory.
Below(q, j) == Len(q) >= j + 3 /\ \A m \in 1 .. (j + 2) : q[m] = cwd[m]

\* The working directory is where the frames say, and everything under the names
\* they are done with is there.
Swept == /\ \A j \in 1 .. (Len(frames) - 1) : cwd[j + 3] = frames[j].i - 1
         /\ call # <<>> /\ frames # <<>> => call[2] = frames[Len(frames)].i - 1
         /\ \A q \in TB!Tree : \A j \in 1 .. Len(frames) :
              Below(q, j) /\ q[j + 3] < Lim(j) => q \in dirs

AllThere == frames = <<>> /\ call = <<>> => \A q \in TB!Tree : q \in dirs

SInv == first = "depth" /\ failed = <<>> => AllThere /\ (pc = "depth" => Swept)

LEMMA InitSInv == Init => SInv
  <1> SUFFICES ASSUME Init PROVE SInv
    OBVIOUS
  <1>1. Len(frames) = 0 /\ frames = <<>> /\ (first = "depth" => call # <<>>)
    BY DEF Init
  <1> QED
    BY <1>1 DEF SInv, AllThere, Swept

\* What the steps of depth rely on.
LEMMA DepthFacts ==
  ASSUME TInv, HInv, pc = "depth", failed = <<>>
  PROVE  /\ first = "depth" /\ d \in Nat /\ b \in Nat /\ Len(frames) \in Nat
         /\ cwd \in dirs /\ cwd \in Seq(Nat) /\ Len(cwd) = Len(frames) + 2
         /\ frames # <<>> => cwd[1] = 0 /\ cwd[2] = 0 /\ cwd[3] = 0
         /\ frames # <<>> <=> Len(frames) >= 1
         /\ \A j \in 1 .. Len(frames) : frames[j].i \in Nat
         /\ \A q \in TB!Tree : /\ q \in Seq(Nat) /\ Len(q) \in Nat
                               /\ Len(q) >= 3 /\ Len(q) <= d + 3
                               /\ q[1] = 0 /\ q[2] = 0 /\ q[3] = 0
                               /\ \A m \in 4 .. Len(q) : q[m] \in 1 .. b
  <1> DEFINE R == [dp : Nat, i : Nat \ {0}]
  <1>1. first = "depth" /\ d \in Nat /\ b \in Nat /\ cwd \in Seq(Nat)
    BY DEF HInv, Order, TInv, Types
  <1>2. frames \in Seq(R)
    BY DEF TInv, Calls
  <1>3. Len(frames) \in Nat /\ (frames # <<>> <=> Len(frames) >= 1)
    <2> HIDE DEF R
    <2> QED
      BY <1>2, EmptySeq
  <1>4. \A j \in 1 .. Len(frames) : frames[j].i \in Nat
    <2> TAKE j \in 1 .. Len(frames)
    <2>1. frames[j] \in R
      <3> HIDE DEF R
      <3> QED
        BY <1>2, ElementOfSeq
    <2> QED
      BY <2>1
  <1>5. cwd \in dirs /\ IF frames = <<>> THEN cwd = TB!Home ELSE Named(cwd, Len(frames) - 1)
    BY DEF TInv, Place
  <1>6. /\ Len(cwd) = Len(frames) + 2
        /\ frames # <<>> => cwd[1] = 0 /\ cwd[2] = 0 /\ cwd[3] = 0
    <2>1. CASE frames = <<>>
      BY <1>3, <1>5, <2>1, HomeFacts
    <2>2. CASE frames # <<>>
      BY <1>3, <1>5, <2>2 DEF Named
    <2> QED
      BY <2>1, <2>2
  <1>7. ASSUME NEW q \in TB!Tree
        PROVE  /\ q \in Seq(Nat) /\ Len(q) \in Nat /\ Len(q) >= 3 /\ Len(q) <= d + 3
               /\ q[1] = 0 /\ q[2] = 0 /\ q[3] = 0
               /\ \A m \in 4 .. Len(q) : q[m] \in 1 .. b
    <2>1. q \in Seq(Nat) /\ Len(q) - 3 \in 0 .. d /\ Named(q, Len(q) - 3)
      BY <1>1, TreeNamed
    <2>2. Len(q) \in Nat /\ Len(q) >= 3 /\ Len(q) <= d + 3 /\ Len(q) - 3 + 3 = Len(q)
      BY <1>1, <2>1
    <2> QED
      BY <2>1, <2>2 DEF Named
  <1> QED
    BY <1>1, <1>3, <1>4, <1>5, <1>6, <1>7

LEMMA DepthEnterSInv == ASSUME TInv, HInv, SInv, DepthEnter PROVE SInv'
  <1> DEFINE p == Made(call[1], call[2])
             n == Len(frames)
  <1>1. /\ pc = "depth" /\ pc' = pc /\ call # <<>> /\ call' = <<>>
        /\ cwd' = (IF p \in dirs' THEN p ELSE cwd)
        /\ frames' = Append(frames, [dp |-> call[1] + 1, i |-> 1])
        /\ mkdir(p) /\ UNCHANGED args
    BY DEF DepthEnter
  <1> SUFFICES ASSUME failed' = <<>>, first' = "depth" PROVE AllThere' /\ Swept'
    BY DEF SInv
  <1>2. /\ p \in Seq(Nat)
        /\ failed = <<>> => Named(p, n) /\ TB!Above(p) = cwd /\ cwd \in dirs
    BY DepthPath
  <1> HIDE DEF p
  <1>3. failed = <<>> /\ p \in dirs' /\ dirs \subseteq dirs'
    BY <1>1, <1>2, MkdirFacts
  <1>4. cwd' = p
    BY <1>1, <1>3
  <1>5. /\ first = "depth" /\ d \in Nat /\ b \in Nat /\ n \in Nat
        /\ cwd \in Seq(Nat) /\ Len(cwd) = n + 2
        /\ frames # <<>> <=> n >= 1
        /\ \A j \in 1 .. n : frames[j].i \in Nat
        /\ \A q \in TB!Tree : Len(q) \in Nat /\ \A m \in 4 .. Len(q) : q[m] \in 1 .. b
    BY <1>1, <1>3, DepthFacts
  <1>6. Swept
    BY <1>1, <1>3, <1>5 DEF SInv
  <1>7. /\ Len(frames') = n + 1 /\ frames' # <<>> /\ frames'[n + 1].i = 1
        /\ \A j \in 1 .. n : frames'[j] = frames[j]
    BY <1>1 DEF TInv, Calls
  <1>8. n >= 1 => p = Append(cwd, call[2]) /\ call[2] = frames[n].i - 1 /\ call[2] \in Nat
    <2>1. call[1] = n + 1 /\ (frames # <<>> => call[2] \in 1 .. b)
      BY <1>1 DEF TInv, Calls
    <2> QED
      BY <1>1, <1>5, <1>6, <2>1 DEF Swept, Made, p
  <1>9. /\ \A m \in 1 .. (n + 2) : p[m] = cwd[m]
        /\ n >= 1 => p[n + 3] = call[2]
    <2>1. CASE n >= 1
      <3> DEFINE c == call[2]
      <3>1. p = Append(cwd, c) /\ c \in Nat
        BY <1>8, <2>1
      <3> HIDE DEF c
      <3>2. \A j \in 1 .. (Len(cwd) + 1) : p[j] = IF j = Len(cwd) + 1 THEN c ELSE cwd[j]
        BY <1>5, <3>1
      <3> QED
        BY <1>5, <3>2 DEF c
    <2>2. CASE n = 0
      <3>1. TB!Above(p) = cwd /\ Len(p) = 3
        BY <1>2, <1>3, <2>2 DEF Named
      <3>2. \A j \in 1 .. (Len(p) - 1) : cwd[j] = p[j]
        BY <1>2, <3>1, AboveFacts
      <3> QED
        BY <2>2, <3>1, <3>2
    <2> QED
      BY <1>5, <2>1, <2>2
  <1>10. \A j \in 1 .. n : Lim(j)' = Lim(j)
    <2> TAKE j \in 1 .. n
    <2>1. frames'[j].i = frames[j].i /\ j < Len(frames')
      BY <1>5, <1>7
    <2>2. Lim(j)' = frames'[j].i - 1
      BY <2>1 DEF Lim
    <2>3. Lim(j) = frames[j].i - 1
      BY <1>1 DEF Lim
    <2> QED
      BY <2>1, <2>2, <2>3
  <1>11. ASSUME NEW j, j = n + 1 PROVE Lim(j)' = 1
    <2>1. ~(j < Len(frames')) /\ frames'[j].i = 1
      BY <1>5, <1>7, <1>11
    <2> QED
      BY <1>1, <2>1 DEF Lim
  <1>12. ASSUME NEW q \in TB!Tree, NEW j \in 1 .. (n + 1), Below(q, j)', q[j + 3] < Lim(j)'
         PROVE  q \in dirs'
    <2>1. CASE j \in 1 .. n
      <3>1. \A m \in 1 .. (j + 2) : q[m] = cwd[m]
        <4> TAKE m \in 1 .. (j + 2)
        <4>1. m \in 1 .. (n + 2)
          BY <1>5, <2>1
        <4> QED
          BY <1>4, <1>9, <1>12, <4>1 DEF Below
      <3>2. Below(q, j) /\ q[j + 3] < Lim(j)
        BY <1>10, <1>12, <2>1, <3>1 DEF Below
      <3> QED
        BY <1>3, <1>6, <2>1, <3>2 DEF Swept
    <2>2. CASE j = n + 1
      <3>1. Len(q) >= n + 4 /\ q[n + 4] < 1
        <4>1. Len(q) >= j + 3 /\ q[j + 3] < 1
          <5>1. Len(q) >= j + 3
            BY <1>12 DEF Below
          <5>2. q[j + 3] < 1
            BY <1>11, <1>12, <2>2
          <5> QED
            BY <5>1, <5>2
        <4>2. j + 3 = n + 4
          BY <1>5, <2>2
        <4> QED
          BY <4>1, <4>2
      <3>2. n + 4 \in 4 .. Len(q)
        BY <1>5, <3>1
      <3>3. q[n + 4] \in 1 .. b
        BY <1>5, <3>2
      <3> QED
        BY <1>5, <3>1, <3>3
    <2> QED
      BY <1>5, <2>1, <2>2
  <1>13. \A j \in 1 .. n : cwd'[j + 3] = frames'[j].i - 1
    <2> TAKE j \in 1 .. n
    <2>1. CASE j = n
      BY <1>4, <1>5, <1>7, <1>8, <1>9, <2>1
    <2>2. CASE j # n
      <3>1. j \in 1 .. (n - 1) /\ j + 3 \in 1 .. (n + 2)
        BY <1>5, <2>2
      <3>2. cwd[j + 3] = frames[j].i - 1
        BY <1>6, <3>1 DEF Swept
      <3> QED
        BY <1>4, <1>7, <1>9, <3>1, <3>2
    <2> QED
      BY <2>1, <2>2
  <1>14. TB!Tree' = TB!Tree /\ Len(frames') - 1 = n
    BY <1>1, <1>5, <1>7, SameTree
  <1>15. Swept'
    BY <1>1, <1>7, <1>12, <1>13, <1>14 DEF Swept
  <1>16. AllThere'
    BY <1>7 DEF AllThere
  <1> QED
    BY <1>15, <1>16

LEMMA DepthTooDeepSInv == ASSUME TInv, HInv, SInv, DepthTooDeep PROVE SInv'
  <1> DEFINE n == Len(frames)
  <1>1. /\ pc = "depth" /\ pc' = pc /\ call # <<>> /\ call' = <<>> /\ call[1] > d + 1
        /\ UNCHANGED <<args, dirs, failed, cwd, frames>>
    BY DEF DepthTooDeep, TooDeep
  <1> SUFFICES ASSUME failed = <<>>, first = "depth" PROVE AllThere' /\ Swept'
    BY <1>1 DEF SInv, args
  <1>2. /\ d \in Nat /\ n \in Nat
        /\ frames # <<>> <=> n >= 1
        /\ \A q \in TB!Tree : Len(q) \in Nat /\ Len(q) <= d + 3
    BY <1>1, DepthFacts
  <1>3. Swept
    BY <1>1 DEF SInv
  <1>4. n > d
    <2>1. call[1] = n + 1
      BY <1>1 DEF TInv, Calls
    <2> QED
      BY <1>1, <1>2, <2>1
  <1>5. TB!Tree' = TB!Tree
    BY <1>1, SameTree
  <1>6. ASSUME NEW q \in TB!Tree, NEW j \in 1 .. n, Below(q, j)', q[j + 3] < Lim(j)'
        PROVE  q \in dirs
    <2>1. Below(q, j)
      BY <1>1, <1>6 DEF Below
    <2>2. CASE j = n
      BY <1>2, <1>4, <2>1, <2>2 DEF Below
    <2>3. CASE j # n
      <3>1. Lim(j)' = Lim(j)
        BY <1>1, <1>2, <2>3 DEF Lim
      <3> QED
        BY <1>3, <1>6, <2>1, <3>1 DEF Swept
    <2> QED
      BY <2>2, <2>3
  <1>7. Swept'
    BY <1>1, <1>3, <1>5, <1>6 DEF Swept
  <1>8. AllThere'
    BY <1>1, <1>2, <1>4 DEF AllThere
  <1> QED
    BY <1>7, <1>8

LEMMA DepthCallSInv == ASSUME TInv, HInv, SInv, DepthCall PROVE SInv'
  <1> DEFINE n == Len(frames)
  <1>1. /\ pc = "depth" /\ pc' = pc /\ call = <<>> /\ frames # <<>>
        /\ call' = <<Frame.dp, Frame.i>>
        /\ frames' = [frames EXCEPT ![n].i = @ + 1]
        /\ UNCHANGED <<args, dirs, failed, cwd>>
    BY DEF DepthCall
  <1> SUFFICES ASSUME failed = <<>>, first = "depth" PROVE AllThere' /\ Swept'
    BY <1>1 DEF SInv, args
  <1>2. /\ n \in Nat /\ n >= 1 /\ \A j \in 1 .. n : frames[j].i \in Nat
    BY <1>1, DepthFacts
  <1>3. Swept
    BY <1>1 DEF SInv
  <1>4. /\ Len(frames') = n /\ frames' # <<>> /\ frames'[n].i = frames[n].i + 1
        /\ \A j \in 1 .. n : j # n => frames'[j] = frames[j]
    BY <1>1, <1>2 DEF TInv, Calls
  <1>5. call' # <<>> /\ call'[2] = frames'[n].i - 1
    BY <1>1, <1>2, <1>4 DEF Frame
  <1>6. ASSUME NEW j \in 1 .. n PROVE Lim(j)' = Lim(j)
    <2>1. Lim(j)' = frames'[j].i - 1
      BY <1>5 DEF Lim
    <2>2. CASE j = n
      <3>1. ~(j < Len(frames))
        BY <1>2, <2>2
      <3>2. Lim(j) = frames[j].i
        BY <1>1, <3>1 DEF Lim
      <3> QED
        BY <1>2, <1>4, <2>1, <2>2, <3>2
    <2>3. CASE j # n
      <3>1. j < Len(frames)
        BY <1>2, <2>3
      <3>2. Lim(j) = frames[j].i - 1
        BY <3>1 DEF Lim
      <3> QED
        BY <1>4, <2>1, <2>3, <3>2
    <2> QED
      BY <2>2, <2>3
  <1>7. TB!Tree' = TB!Tree
    BY <1>1, SameTree
  <1>8. ASSUME NEW q \in TB!Tree, NEW j \in 1 .. n, Below(q, j)', q[j + 3] < Lim(j)'
        PROVE  q \in dirs
    <2>1. Below(q, j) /\ q[j + 3] < Lim(j)
      BY <1>1, <1>6, <1>8 DEF Below
    <2> QED
      BY <1>3, <2>1 DEF Swept
  <1>9. \A j \in 1 .. (n - 1) : cwd[j + 3] = frames'[j].i - 1
    <2> TAKE j \in 1 .. (n - 1)
    <2>1. j \in 1 .. n /\ j # n
      BY <1>2
    <2> QED
      BY <1>3, <1>4, <2>1 DEF Swept
  <1>10. Swept'
    BY <1>1, <1>4, <1>5, <1>7, <1>8, <1>9 DEF Swept
  <1>11. AllThere'
    BY <1>4 DEF AllThere
  <1> QED
    BY <1>10, <1>11

LEMMA DepthReturnSInv == ASSUME TInv, HInv, SInv, DepthReturn PROVE SInv'
  <1> DEFINE n == Len(frames)
  <1>1. /\ pc = "depth" /\ pc' = pc /\ call = <<>> /\ call' = <<>> /\ frames # <<>>
        /\ Frame.i > b /\ cwd' = TB!Above(cwd)
        /\ frames' = SubSeq(frames, 1, n - 1)
        /\ UNCHANGED <<args, dirs, failed>>
    BY DEF DepthReturn
  <1> SUFFICES ASSUME failed = <<>>, first = "depth" PROVE AllThere' /\ Swept'
    BY <1>1 DEF SInv, args
  <1>2. /\ d \in Nat /\ b \in Nat /\ n \in Nat /\ n >= 1
        /\ cwd \in dirs /\ cwd \in Seq(Nat) /\ Len(cwd) = n + 2
        /\ cwd[1] = 0 /\ cwd[2] = 0 /\ cwd[3] = 0
        /\ \A j \in 1 .. n : frames[j].i \in Nat
    BY <1>1, DepthFacts
  <1>3. \A q \in TB!Tree : /\ q \in Seq(Nat) /\ Len(q) \in Nat /\ Len(q) >= 3
                           /\ q[1] = 0 /\ q[2] = 0 /\ q[3] = 0
                           /\ \A m \in 4 .. Len(q) : q[m] \in 1 .. b
    BY <1>1, DepthFacts
  <1>4. Swept
    BY <1>1 DEF SInv
  <1>5. /\ Len(frames') = n - 1 /\ \A j \in 1 .. (n - 1) : frames'[j] = frames[j]
        /\ frames' = <<>> => n = 1
    <2> DEFINE R == [dp : Nat, i : Nat \ {0}]
               l == n - 1
    <2>1. frames \in Seq(R) /\ l \in Nat /\ l <= Len(frames)
      BY <1>2 DEF TInv, Calls
    <2>2. frames' = SubSeq(frames, 1, l)
      BY <1>1
    <2> HIDE DEF R, l
    <2>3. /\ frames' \in Seq(R) /\ Len(frames') = l
          /\ \A j \in 1 .. l : frames'[j] = frames[j]
      BY <2>1, <2>2, PrefixFacts
    <2>4. frames' = <<>> => l = 0
      BY <2>3
    <2> QED
      BY <1>2, <2>3, <2>4 DEF l
  <1>6. \A m \in 1 .. (n + 1) : cwd'[m] = cwd[m]
    <2>1. \A m \in 1 .. (Len(cwd) - 1) : cwd'[m] = cwd[m]
      BY <1>1, <1>2, AboveFacts
    <2>2. Len(cwd) - 1 = n + 1
      BY <1>2
    <2> HIDE DEF n
    <2> QED
      BY <2>1, <2>2
  <1>7. ASSUME NEW q \in TB!Tree, Len(q) >= n + 2, \A m \in 1 .. (n + 2) : q[m] = cwd[m]
        PROVE  q \in dirs
    <2>1. q \in Seq(Nat) /\ Len(q) \in Nat
      BY <1>3
    <2>2. CASE Len(q) = n + 2
      <3>1. q = cwd
        BY <1>2, <1>7, <2>1, <2>2, SeqEqual
      <3> QED
        BY <1>2, <3>1
    <2>3. CASE Len(q) # n + 2
      <3>1. n + 3 \in 4 .. Len(q) /\ Len(q) >= n + 3
        BY <1>2, <1>7, <2>1, <2>3
      <3>2. q[n + 3] \in 1 .. b
        BY <1>3, <3>1
      <3>3. ~(n < Len(frames)) /\ n \in 1 .. n
        BY <1>2
      <3>4. Lim(n) = frames[n].i
        BY <1>1, <3>3 DEF Lim
      <3>5. frames[n].i > b /\ frames[n].i \in Nat
        BY <1>1, <1>2, <3>3 DEF Frame
      <3>6. q[n + 3] < Lim(n)
        BY <1>2, <3>2, <3>4, <3>5
      <3>7. Below(q, n)
        BY <1>7, <3>1 DEF Below
      <3> QED
        BY <1>4, <3>3, <3>6, <3>7 DEF Swept
    <2> QED
      BY <2>2, <2>3
  <1>8. TB!Tree' = TB!Tree
    BY <1>1, SameTree
  <1>9. ASSUME NEW q \in TB!Tree, NEW j \in 1 .. (n - 1), Below(q, j)', q[j + 3] < Lim(j)'
        PROVE  q \in dirs
    <2>1. /\ j \in 1 .. n /\ j < n /\ q \in Seq(Nat) /\ Len(q) \in Nat /\ frames[j].i \in Nat
          /\ frames'[j] = frames[j]
      <3>1. j \in 1 .. n /\ j < n
        BY <1>2
      <3> QED
        BY <1>2, <1>3, <1>5, <3>1
    <2>2. Len(q) >= j + 3 /\ \A m \in 1 .. (j + 2) : q[m] = cwd'[m]
      BY <1>9 DEF Below
    <2>3. \A m \in 1 .. (j + 2) : q[m] = cwd[m]
      <3> TAKE m \in 1 .. (j + 2)
      <3>1. m \in 1 .. (n + 1)
        BY <1>2, <2>1
      <3> QED
        BY <1>6, <2>2, <3>1
    <2>4. Below(q, j)
      BY <2>2, <2>3 DEF Below
    <2>5. Lim(j) = frames[j].i - 1
      BY <2>1 DEF Lim
    <2>6. CASE q[j + 3] < Lim(j)
      BY <1>4, <2>1, <2>4, <2>6 DEF Swept
    <2>7. CASE ~(q[j + 3] < Lim(j))
      <3>1. j + 3 \in 4 .. Len(q) /\ q[j + 3] \in 1 .. b
        <4>1. j + 3 \in 4 .. Len(q)
          BY <2>1, <2>2
        <4> QED
          BY <1>3, <4>1
      <3>2. CASE j = n - 1
        <4>1. ~(j < Len(frames'))
          BY <1>2, <1>5, <3>2
        <4>2. Lim(j)' = frames[j].i
          BY <1>1, <2>1, <4>1 DEF Lim
        <4>3. q[j + 3] = frames[j].i - 1
          <5> DEFINE x == q[j + 3]
                     y == frames[j].i
          <5>1. x < y /\ ~(x < y - 1)
            BY <1>9, <2>5, <2>7, <4>2
          <5>2. x \in 1 .. b /\ y \in Nat
            BY <2>1, <3>1
          <5> HIDE DEF x, y
          <5>3. x = y - 1
            BY <5>1, <5>2
          <5> QED
            BY <5>3 DEF x, y
        <4>4. q[j + 3] = cwd[j + 3]
          BY <1>4, <4>3 DEF Swept
        <4>5. /\ j + 3 = n + 2 /\ Len(q) >= n + 2
              /\ \A m \in 1 .. (n + 2) : m \in 1 .. (j + 2) \/ m = j + 3
          BY <1>2, <2>1, <2>2, <3>2
        <4>6. \A m \in 1 .. (n + 2) : q[m] = cwd[m]
          BY <2>3, <4>4, <4>5
        <4> QED
          BY <1>7, <4>5, <4>6
      <3>3. CASE j # n - 1
        <4>1. j < Len(frames')
          BY <1>2, <1>5, <2>1, <3>3
        <4>2. Lim(j)' = frames[j].i - 1
          BY <2>1, <4>1 DEF Lim
        <4> QED
          BY <1>9, <2>5, <2>7, <4>2
      <3> QED
        BY <3>2, <3>3
    <2> QED
      BY <2>6, <2>7
  <1>10. \A j \in 1 .. (n - 1 - 1) : cwd'[j + 3] = frames'[j].i - 1
    <2> TAKE j \in 1 .. (n - 1 - 1)
    <2> DEFINE l == n
    <2>1. l \in Nat /\ j \in 1 .. (l - 1 - 1)
      BY <1>2
    <2> HIDE DEF l
    <2>2. j \in 1 .. (l - 1) /\ j + 3 \in 1 .. (l + 1)
      BY <2>1
    <2>3. j \in 1 .. (n - 1) /\ j + 3 \in 1 .. (n + 1)
      BY <2>2 DEF l
    <2> QED
      BY <1>4, <1>5, <1>6, <2>3 DEF Swept
  <1>11. Swept'
    BY <1>1, <1>5, <1>8, <1>9, <1>10 DEF Swept
  <1>12. AllThere'
    <2> SUFFICES ASSUME frames' = <<>>, NEW q \in TB!Tree PROVE q \in dirs
      BY <1>1, <1>8 DEF AllThere
    <2>1. n = 1 /\ n + 2 = 3
      <3>1. n = 1
        BY <1>5
      <3> QED
        BY <3>1
    <2>2. Len(q) >= 3 /\ q[1] = 0 /\ q[2] = 0 /\ q[3] = 0
      BY <1>3
    <2>3. \A m \in 1 .. 3 : q[m] = cwd[m]
      BY <1>2, <2>2
    <2> QED
      BY <1>7, <2>1, <2>2, <2>3
  <1> QED
    BY <1>11, <1>12

\* The other steps change nothing of depth, or end it.
LEMMA OtherSInv ==
  ASSUME TInv, HInv, SInv,
         \/ BreadthTop \/ BreadthMkdir \/ BreadthNext \/ BreadthLevel \/ BreadthDone
         \/ DepthDone \/ UNCHANGED vars
  PROVE  SInv'
  <1>1. CASE BreadthTop \/ BreadthMkdir \/ BreadthNext \/ BreadthLevel \/ BreadthDone
    BY <1>1 DEF BreadthTop, BreadthMkdir, BreadthNext, BreadthLevel, BreadthDone,
                HInv, Order, SInv, args
  <1>2. CASE DepthDone \/ UNCHANGED vars
    <2>1. UNCHANGED <<args, dirs, failed, cwd, frames, call>> /\ pc' \in {pc, "done"}
      BY <1>2 DEF DepthDone, vars, depths
    <2>2. TB!Tree' = TB!Tree
      BY <2>1, SameTree
    <2>3. AllThere => AllThere'
      BY <2>1, <2>2 DEF AllThere
    <2>4. Swept => Swept'
      BY <2>1, <2>2 DEF Swept, Below, Lim
    <2> QED
      BY <2>1, <2>3, <2>4 DEF SInv, args
  <1> QED
    BY <1>1, <1>2

LEMMA SInvariant == Spec => []SInv
  <1>1. ASSUME TInv, HInv, SInv, [Next]_vars PROVE SInv'
    BY <1>1, DepthEnterSInv, DepthTooDeepSInv, DepthCallSInv, DepthReturnSInv, OtherSInv
       DEF Next, Stopped
  <1> QED
    BY <1>1, Invariant, HInvariant, InitSInv, PTL DEF Spec

-----------------------------------------------------------------------------
\* When the script ends, what is missing of the tree is what failed and what
\* lies in it (create.sh:32-45 and 49-66; under depth only if nothing failed).
THEOREM MissingAreFailures == Spec => []TreeComplete
  <1>1. TInv /\ HInv /\ BInv /\ SInv => TreeComplete
    <2> SUFFICES ASSUME TInv, HInv, BInv, SInv, pc = "done",
                        first = "depth" => failed = <<>>, NEW p \in TB!Tree
                 PROVE  p \notin dirs <=> Missing(p)
      BY DEF TreeComplete, Missing
    <2>1. CASE first = "breadth"
      <3>1. i > d /\ Account
        BY <2>1 DEF BInv
      <3>2. d \in Nat /\ b \in Nat /\ i \in Nat
        BY DEF TInv, Types
      <3>3. Len(p) - 3 \in 0 .. d /\ Len(p) \in Nat
        BY <3>2, TreeNamed
      <3>4. Len(p) < i + 3
        BY <3>1, <3>2, <3>3
      <3>5. p \in Asked
        BY <3>4 DEF Asked
      <3> QED
        BY <3>1, <3>5 DEF Account
    <2>2. CASE first = "depth"
      <3>1. failed = <<>> /\ frames = <<>> /\ call = <<>>
        BY <2>2 DEF HInv, Order
      <3>2. p \in dirs
        BY <2>2, <3>1 DEF SInv, AllThere
      <3> QED
        BY <3>1, <3>2 DEF Missing
    <2> QED
      BY <2>1, <2>2 DEF HInv, Order
  <1> QED
    BY <1>1, Invariant, HInvariant, BInvariant, SInvariant, PTL

\* What breadth makes next when everything of the levels above is there.
LEMMA BreadthOrder ==
  ASSUME TInv, HInv, BInv, BreadthTop \/ BreadthMkdir, failed' = <<>>,
         NEW p \in dirs' \ dirs, NEW q \in TB!Tree, Len(q) < Len(p)
  PROVE  q \in dirs
  <1>1. CASE BreadthTop
    <2>1. pc = "top" /\ mkdir(TB!Top)
      BY <1>1 DEF BreadthTop
    <2>2. p = TB!Top
      BY <2>1, TopFacts, MkdirFacts DEF Named
    <2>3. Len(q) >= 3 /\ Len(q) \in Nat
      BY <2>1, BreadthFacts
    <2> QED
      BY <2>2, <2>3, TopFacts DEF Named
  <1>2. CASE BreadthMkdir
    <2> DEFINE a == Append(Head(open), k)
    <2>1. pc = "level" /\ mkdir(a)
      BY <1>2 DEF BreadthMkdir
    <2>2. a \in Seq(Nat) /\ Len(a) = i + 3
      BY <1>2, BreadthPath DEF Named
    <2> HIDE DEF a
    <2>3. p = a /\ failed = <<>>
      BY <2>1, <2>2, MkdirFacts
    <2>4. Account
      BY <2>1, BreadthFacts
    <2>5. q \in Asked
      BY <2>1, <2>2, <2>3 DEF Asked
    <2> QED
      BY <2>3, <2>4, <2>5 DEF Account, Missing
  <1> QED
    BY <1>1, <1>2

\* What depth makes next when its smaller siblings are finished.
LEMMA DepthOrder ==
  ASSUME TInv, HInv, SInv, DepthEnter, failed' = <<>>,
         NEW p \in dirs' \ dirs, NEW q \in TB!Tree,
         NEW j \in 1 .. (p[Len(p)] - 1), Len(p) > Len(TB!Top), In(q, Append(TB!Above(p), j))
  PROVE  q \in dirs
  <1> DEFINE a == Made(call[1], call[2])
             n == Len(frames)
  <1>1. pc = "depth" /\ call # <<>> /\ mkdir(a)
    BY DEF DepthEnter
  <1>2. a \in Seq(Nat) /\ (failed = <<>> => Named(a, n) /\ TB!Above(a) = cwd)
    BY DepthPath
  <1> HIDE DEF a
  <1>3. p = a /\ failed = <<>>
    BY <1>1, <1>2, MkdirFacts
  <1>4. /\ first = "depth" /\ n \in Nat /\ cwd \in Seq(Nat) /\ Len(cwd) = n + 2
        /\ frames # <<>> <=> n >= 1
        /\ \A m \in 1 .. n : frames[m].i \in Nat
        /\ q \in Seq(Nat) /\ Len(q) \in Nat
    BY <1>1, <1>3, DepthFacts
  <1>5. n >= 1
    <2>1. Len(p) = n + 3 /\ Len(TB!Top) = 3
      BY <1>2, <1>3, TopFacts DEF Named
    <2> QED
      BY <1>4, <2>1
  <1>6. Swept
    BY <1>1, <1>3, <1>4 DEF SInv
  <1>7. p = Append(cwd, call[2]) /\ call[2] = frames[n].i - 1 /\ call[2] \in Nat
    <2>1. call[1] = n + 1 /\ call[2] \in 1 .. b
      BY <1>1, <1>4, <1>5 DEF TInv, Calls
    <2>2. ~(call[1] = 1 /\ call[2] = 1)
      BY <1>4, <1>5, <2>1
    <2> QED
      BY <1>1, <1>3, <1>4, <1>5, <1>6, <2>1, <2>2 DEF Swept, Made, a
  <1>8. p[Len(p)] = call[2]
    BY <1>4, <1>7
  <1>9. j \in Nat /\ j < Lim(n)
    <2>1. Lim(n) = frames[n].i - 1
      BY <1>1 DEF Lim
    <2> DEFINE x == p[Len(p)]
    <2>2. x = Lim(n) /\ x \in Nat
      BY <1>7, <1>8, <2>1
    <2> HIDE DEF x
    <2>3. j \in 1 .. (x - 1)
      BY DEF x
    <2> QED
      BY <2>2, <2>3
  <1>10. In(q, Append(cwd, j))
    BY <1>2, <1>3
  <1> DEFINE s == Append(cwd, j)
  <1>11. /\ s \in Seq(Nat) /\ Len(s) = n + 3
         /\ \A m \in 1 .. (n + 3) : s[m] = IF m = n + 3 THEN j ELSE cwd[m]
    <2>1. /\ s \in Seq(Nat) /\ Len(s) = Len(cwd) + 1
          /\ \A m \in 1 .. (Len(cwd) + 1) : s[m] = IF m = Len(cwd) + 1 THEN j ELSE cwd[m]
      BY <1>4, <1>9, AppendFacts
    <2>2. Len(cwd) + 1 = n + 3
      BY <1>4
    <2> HIDE DEF s, n
    <2> QED
      BY <2>1, <2>2
  <1>12. Len(q) >= n + 3 /\ \A m \in 1 .. (n + 3) : q[m] = s[m]
    <2> HIDE DEF s
    <2>1. Len(s) <= Len(q) /\ \A m \in 1 .. Len(s) : q[m] = s[m]
      BY <1>4, <1>10, <1>11, InFacts DEF s
    <2> QED
      BY <1>4, <1>11, <2>1
  <1>13. Below(q, n) /\ q[n + 3] = j
    <2>1. n + 3 \in 1 .. (n + 3) /\ \A m \in 1 .. (n + 2) : m \in 1 .. (n + 3) /\ m # n + 3
      BY <1>4
    <2> HIDE DEF s, n
    <2>2. q[n + 3] = j /\ \A m \in 1 .. (n + 2) : q[m] = cwd[m]
      BY <1>11, <1>12, <2>1
    <2> QED
      BY <1>12, <2>2 DEF Below
  <1> QED
    <2>1. n \in 1 .. n
      BY <1>4, <1>5
    <2>2. q[n + 3] < Lim(n)
      BY <1>9, <1>13
    <2> QED
      BY <1>6, <1>13, <2>1, <2>2 DEF Swept

\* As long as no mkdir has failed, breadth first completes the levels above one
\* before it makes a directory of it, depth first the smaller siblings
\* (create.sh:34-44 and 51-65).
THEOREM MadeAsAsked == Spec => MadeInOrder
  <1>1. ASSUME TInv, HInv, BInv, SInv, [Next]_vars
        PROVE  \/ UNCHANGED dirs
               \/ /\ first = "breadth" /\ (BreadthTop \/ BreadthMkdir)
               \/ /\ first = "depth" /\ DepthEnter
    BY <1>1 DEF Next, Stopped, vars, BreadthTop, BreadthMkdir, BreadthNext, BreadthLevel, BreadthDone,
                DepthEnter, DepthTooDeep, DepthCall, DepthReturn, DepthDone, HInv, Order
  <1>2. TInv /\ HInv /\ BInv /\ SInv /\ [Next]_vars =>
          [first = "breadth" /\ failed' = <<>> =>
             \A p \in dirs' \ dirs : \A q \in TB!Tree : Len(q) < Len(p) => q \in dirs]_vars
    BY <1>1, BreadthOrder
  <1>3. TInv /\ HInv /\ BInv /\ SInv /\ [Next]_vars =>
          [first = "depth" /\ failed' = <<>> =>
             \A p \in dirs' \ dirs : \A q \in TB!Tree :
               (\E j \in 1 .. (p[Len(p)] - 1) : Len(p) > Len(TB!Top) /\ In(q, Append(TB!Above(p), j)))
                 => q \in dirs]_vars
    BY <1>1, DepthOrder
  <1>4. Spec => LevelByLevel
    BY <1>2, Invariant, HInvariant, BInvariant, SInvariant, PTL DEF Spec, LevelByLevel
  <1>5. Spec => SubtreeBySubtree
    BY <1>3, Invariant, HInvariant, BInvariant, SInvariant, PTL DEF Spec, SubtreeBySubtree
  <1> QED
    BY <1>4, <1>5 DEF MadeInOrder
=============================================================================
