--------------------------- MODULE DiscoveryProofs ---------------------------
(***************************************************************************)
(* Theorems about Discovery, for every tree of folders, depth and bound.   *)
(*                                                                         *)
(* The list is the result of a walk that reads one folder at a time while  *)
(* markers come and go.  What the walk has still to come by is what lies   *)
(* below the folders of todo (Ahead).  KnownStays says where a job that    *)
(* the user relies on is meanwhile: in the list, and among what the walk   *)
(* has found, has ahead of it, or was told.  WalkIsRight says what the     *)
(* walk is worth when nothing happened to it.  Both rest on a few facts    *)
(* about the tree, which follow from TreeAssumption alone.                 *)
(* A walk ends because the folders ToRead only become fewer.               *)
(***************************************************************************)
EXTENDS Discovery, FiniteSetTheorems, SequenceTheorems, TLAPS

\* A walk that reads d comes by k.
Covers(d, k) == d = k \/ d \in Ancestors[k]
Ahead(k)     == \E i \in DOMAIN todo : Covers(todo[i], k)

\* A job that the user saved is in the list and stays in it when the walk ends.
KnownStays ==
  \A k \in known :
    /\ Depth(k) <= maxDepth
    /\ Ancestors[k] \cap markers = {}
    /\ jobDirs # NoList => k \in jobDirs
    /\ walking => IF k \in DOMAIN changed THEN changed[k] ELSE k \in found \/ Ahead(k)

\* What jobChanged is about to announce.
EditFits == edit # NoEdit /\ ~edit.saved => edit.dir \notin known

\* The folders that a walk is to find.
Jobs == {d \in markers : InView(d)}

\* A walk during which no marker came or went, and which could read its folders, finds them.
Undisturbed == walking /\ changed = EmptyChanges /\ ~drifted /\ edit = NoEdit
WalkIsRight ==
  Undisturbed =>
    /\ found \subseteq Jobs
    /\ \A d \in Jobs : d \in found \/ Ahead(d)
    /\ \A i \in DOMAIN todo : Depth(todo[i]) <= maxDepth /\ Ancestors[todo[i]] \cap markers = {}

IInv == TypeOK /\ KnownStays /\ EditFits /\ WalkIsRight /\ ListedIsBackedUp /\ AnswerIsComplete

-----------------------------------------------------------------------------
(* The tree *)

\* The folders from which Parent leads to e: what TreeAssumption is used for.
LEMMA FromTheRoot ==
  ASSUME NEW S \in SUBSET Dirs, Root \in S, \A d \in Dirs \ {Root} : Parent[d] \in S => d \in S
  PROVE  S = Dirs
BY TreeAssumption

\* The recursive definition of Ancestors has a solution: the least sets that are closed under
\* Parent.
LEMMA AncestorsDef ==
  /\ Ancestors[Root] = {}
  /\ \A d \in Dirs \ {Root} : Ancestors[d] = Ancestors[Parent[d]] \cup {Parent[d]}
<1> DEFINE Closed(S) == \A e \in S \ {Root} : Parent[e] \in S
           Has(d, S) == Closed(S) /\ (d # Root => Parent[d] \in S)
           Least(d) == {e \in Dirs : \A S \in SUBSET Dirs : Has(d, S) => e \in S}
           f == [d \in Dirs |-> Least(d)]
<1>0. Root \in Dirs /\ \A d \in Dirs \ {Root} : Parent[d] \in Dirs BY DirsAssumption
<1>1. Least(Root) = {}
  <2>1. {} \in SUBSET Dirs /\ Has(Root, {}) OBVIOUS
  <2> QED BY <2>1
<1>2. ASSUME NEW d \in Dirs \ {Root} PROVE Least(d) = Least(Parent[d]) \cup {Parent[d]}
  <2> DEFINE p == Parent[d]
  <2>0. p \in Dirs BY <1>0
  <2>1. ASSUME NEW S \in SUBSET Dirs, Has(d, S) PROVE p \in S /\ Has(p, S)
    BY <2>1
  <2>2. ASSUME NEW S \in SUBSET Dirs, Has(p, S) PROVE Has(d, S \cup {p}) /\ S \cup {p} \in SUBSET Dirs
    BY <2>0, <2>2
  <2>3. ASSUME NEW e \in Least(p) \cup {p} PROVE e \in Least(d)
    BY <2>0, <2>1
  <2>4. ASSUME NEW e \in Least(d) PROVE e \in Least(p) \cup {p}
    <3>1. SUFFICES ASSUME e # p, NEW S \in SUBSET Dirs, Has(p, S) PROVE e \in S
      BY <2>4
    <3>2. e \in S \cup {p} BY <2>2, <3>1
    <3> QED BY <3>1, <3>2
  <2> QED BY <2>3, <2>4
<1>3. f = [d \in Dirs |-> IF d = Root THEN {} ELSE f[Parent[d]] \cup {Parent[d]}]
  <2>1. ASSUME NEW d \in Dirs PROVE f[d] = IF d = Root THEN {} ELSE f[Parent[d]] \cup {Parent[d]}
    <3> HIDE DEF Least
    <3> QED BY <1>0, <1>1, <1>2
  <2> HIDE DEF Least
  <2> QED BY <2>1
<1>4. Ancestors = [d \in Dirs |-> IF d = Root THEN {} ELSE Ancestors[Parent[d]] \cup {Parent[d]}]
  <2> HIDE DEF f
  <2> QED BY <1>3 DEF Ancestors
<1> QED BY <1>0, <1>4

LEMMA AncestorsType == \A d \in Dirs : Ancestors[d] \subseteq Dirs
<1> DEFINE S == {d \in Dirs : Ancestors[d] \subseteq Dirs}
<1>1. Root \in S BY AncestorsDef, DirsAssumption
<1>2. ASSUME NEW d \in Dirs \ {Root}, Parent[d] \in S PROVE d \in S
  BY <1>2, AncestorsDef, DirsAssumption
<1>3. S = Dirs
  <2> HIDE DEF S
  <2>1. S \in SUBSET Dirs BY DEF S
  <2> QED BY <1>1, <1>2, <2>1, FromTheRoot
<1> QED BY <1>3

\* What lies above a folder's ancestor lies above the folder.
LEMMA AncestorsTransitive == \A d \in Dirs : \A e \in Ancestors[d] : Ancestors[e] \subseteq Ancestors[d]
<1> DEFINE S == {d \in Dirs : \A e \in Ancestors[d] : Ancestors[e] \subseteq Ancestors[d]}
<1>1. Root \in S BY AncestorsDef, DirsAssumption
<1>2. ASSUME NEW d \in Dirs \ {Root}, Parent[d] \in S PROVE d \in S
  BY <1>2, AncestorsDef
<1>3. S = Dirs
  <2> HIDE DEF S
  <2>1. S \in SUBSET Dirs BY DEF S
  <2> QED BY <1>1, <1>2, <2>1, FromTheRoot
<1> QED BY <1>3

\* No folder lies below itself.
LEMMA AncestorsProper == \A d \in Dirs : d \notin Ancestors[d]
<1> DEFINE S == {d \in Dirs : d \notin Ancestors[d]}
<1>1. Root \in S BY AncestorsDef, DirsAssumption
<1>2. ASSUME NEW d \in Dirs \ {Root}, Parent[d] \in S PROVE d \in S
  <2>1. Parent[d] \in Dirs /\ Ancestors[d] = Ancestors[Parent[d]] \cup {Parent[d]}
    BY AncestorsDef, DirsAssumption
  <2>2. CASE d = Parent[d] BY <1>2, <2>2
  <2>3. CASE d \in Ancestors[Parent[d]]
    <3>1. Ancestors[d] \subseteq Ancestors[Parent[d]] BY <2>1, <2>3, AncestorsTransitive
    <3> QED BY <1>2, <2>1, <3>1
  <2> QED BY <2>1, <2>2, <2>3
<1>3. S = Dirs
  <2> HIDE DEF S
  <2>1. S \in SUBSET Dirs BY DEF S
  <2> QED BY <1>1, <1>2, <2>1, FromTheRoot
<1> QED BY <1>3

LEMMA RootCovers == \A d \in Dirs : Covers(Root, d)
<1> DEFINE S == {d \in Dirs : Covers(Root, d)}
<1>1. Root \in S BY DirsAssumption DEF Covers
<1>2. ASSUME NEW d \in Dirs \ {Root}, Parent[d] \in S PROVE d \in S
  BY <1>2, AncestorsDef DEF Covers
<1>3. S = Dirs
  <2> HIDE DEF S
  <2>1. S \in SUBSET Dirs BY DEF S
  <2> QED BY <1>1, <1>2, <2>1, FromTheRoot
<1> QED BY <1>3

\* The walk to a folder goes on through a child of each of its ancestors.
LEMMA ChildCovers == \A k \in Dirs : \A d \in Ancestors[k] : \E e \in Children(d) : Covers(e, k)
<1> DEFINE S == {k \in Dirs : \A d \in Ancestors[k] : \E e \in Children(d) : Covers(e, k)}
<1>1. Root \in S BY AncestorsDef, DirsAssumption
<1>2. ASSUME NEW k \in Dirs \ {Root}, Parent[k] \in S PROVE k \in S
  <2>1. Ancestors[k] = Ancestors[Parent[k]] \cup {Parent[k]} BY AncestorsDef
  <2>2. ASSUME NEW d \in Ancestors[k] PROVE \E e \in Children(d) : Covers(e, k)
    <3>1. CASE d = Parent[k] BY <3>1 DEF Children, Covers
    <3>2. CASE d \in Ancestors[Parent[k]] BY <1>2, <2>1, <3>2 DEF Covers
    <3> QED BY <2>1, <2>2, <3>1, <3>2
  <2> QED BY <2>2
<1>3. S = Dirs
  <2> HIDE DEF S
  <2>1. S \in SUBSET Dirs BY DEF S
  <2> QED BY <1>1, <1>2, <2>1, FromTheRoot
<1> QED BY <1>3

LEMMA DepthFacts ==
  /\ Depth(Root) = 0
  /\ \A d \in Dirs : Depth(d) \in Nat
  /\ \A d \in Dirs : \A e \in Ancestors[d] : Depth(e) < Depth(d)
  /\ \A d \in Dirs : \A e \in Children(d) :
       Depth(e) = Depth(d) + 1 /\ Ancestors[e] = Ancestors[d] \cup {d}
<1>1. Depth(Root) = 0 BY AncestorsDef, FS_EmptySet DEF Depth
<1>2. ASSUME NEW d \in Dirs PROVE IsFiniteSet(Ancestors[d]) /\ Depth(d) \in Nat
  <2>1. IsFiniteSet(Ancestors[d]) BY AncestorsType, DirsAssumption, FS_Subset
  <2> QED BY <2>1, FS_CardinalityType DEF Depth
<1>3. ASSUME NEW d \in Dirs, NEW e \in Ancestors[d] PROVE Depth(e) < Depth(d)
  <2>1. e \in Dirs /\ Ancestors[e] \subseteq Ancestors[d] /\ e \notin Ancestors[e]
    BY AncestorsType, AncestorsTransitive, AncestorsProper
  <2>2. Depth(e) <= Depth(d) /\ Depth(e) # Depth(d) BY <1>2, <2>1, FS_Subset DEF Depth
  <2> QED BY <1>2, <2>1, <2>2
<1>4. ASSUME NEW d \in Dirs, NEW e \in Children(d)
      PROVE  Depth(e) = Depth(d) + 1 /\ Ancestors[e] = Ancestors[d] \cup {d}
  <2>1. Ancestors[e] = Ancestors[d] \cup {d} BY AncestorsDef DEF Children
  <2> QED BY <1>2, <2>1, AncestorsProper, FS_AddElement DEF Depth
<1> QED BY <1>1, <1>2, <1>3, <1>4

\* Sorted leaves no child out, and names none twice.
LEMMA SortedFacts ==
  ASSUME NEW S \in SUBSET Dirs
  PROVE  /\ Sorted(S) \in Seq(S)
         /\ \A e \in S : \E i \in DOMAIN Sorted(S) : Sorted(S)[i] = e
        /\ \A i, j \in DOMAIN Sorted(S) : i # j => Sorted(S)[i] # Sorted(S)[j]
<1> DEFINE n == Cardinality(S)
<1>1. IsFiniteSet(S) /\ n \in Nat /\ ExistsBijection(1..n, S)
  BY DirsAssumption, FS_Subset, FS_CardinalityType
<1>2. Orders(S) # {}
  <2>1. PICK b \in Bijection(1..n, S) : TRUE BY <1>1 DEF ExistsBijection
  <2>2. b \in Orders(S) BY <2>1 DEF Orders, Bijection, Injection, IsInjective
  <2> QED BY <2>2
<1>3. Sorted(S) \in Orders(S) BY <1>2 DEF Sorted
<1>4. Sorted(S) \in Injection(1..n, S) BY <1>3 DEF Orders, Injection, IsInjective
<1>5. Cardinality(1..n) = n BY <1>1, FS_Interval
<1>6. Sorted(S) \in Surjection(1..n, S) BY <1>1, <1>4, <1>5, FS_Injection
<1>7. Sorted(S) \in [1..n -> S] BY <1>4 DEF Injection
<1>8. \A i, j \in DOMAIN Sorted(S) : i # j => Sorted(S)[i] # Sorted(S)[j] BY <1>3 DEF Orders
<1> QED BY <1>1, <1>6, <1>7, <1>8 DEF Surjection

-----------------------------------------------------------------------------
(* Types *)

Changes == UNION {[S -> BOOLEAN] : S \in SUBSET Dirs}

LEMMA EmptyIsChange == EmptyChanges \in Changes /\ DOMAIN EmptyChanges = {}
<1>1. EmptyChanges \in [{} -> BOOLEAN] BY DEF EmptyChanges
<1>2. [{} -> BOOLEAN] \in {[S -> BOOLEAN] : S \in SUBSET Dirs} OBVIOUS
<1> QED BY <1>1, <1>2 DEF Changes

LEMMA RecordedFacts ==
  ASSUME TypeOK, walking, NEW d \in Dirs, NEW saved \in BOOLEAN
  PROVE  /\ Recorded(d, saved) \in Changes
         /\ DOMAIN Recorded(d, saved) = DOMAIN changed \cup {d}
         /\ Recorded(d, saved) # EmptyChanges
         /\ Recorded(d, saved)[d] = saved
         /\ \A e \in DOMAIN changed \ {d} : Recorded(d, saved)[e] = changed[e]
<1> DEFINE r == [e \in DOMAIN changed \cup {d} |-> IF e = d THEN saved ELSE changed[e]]
<1>1. Recorded(d, saved) = r BY DEF Recorded
<1>2. PICK S \in SUBSET Dirs : changed \in [S -> BOOLEAN] BY DEF TypeOK
<1>3. S \cup {d} \in SUBSET Dirs /\ r \in [S \cup {d} -> BOOLEAN] BY <1>2
<1>4. r \in Changes BY <1>3 DEF Changes
<1>5. DOMAIN r # DOMAIN EmptyChanges BY EmptyIsChange
<1> QED BY <1>1, <1>4, <1>5

LEMMA BoundType ==
  ASSUME TypeOK, NEW kind \in {"edit", "other"}, NEW bound, Within(kind, bound)
  PROVE  count' \in [{"edit", "other"} -> Nat]
BY DEF TypeOK, Within

LEMMA DepthType == TypeOK => maxDepth \in Nat
BY BoundsAssumption DEF TypeOK

LEMMA StartWalkFacts ==
  ASSUME TypeOK, StartWalk
  PROVE  /\ walking' = TRUE
         /\ walking => UNCHANGED <<todo, found, drifted>>
         /\ ~walking => todo' = <<Root>> /\ found' = {} /\ drifted' = FALSE
         /\ todo' \in Seq(Dirs) /\ found' \subseteq Dirs /\ drifted' \in BOOLEAN
<1>1. <<Root>> \in Seq(Dirs) BY DirsAssumption
<1> QED BY <1>1 DEF TypeOK, StartWalk, walk

LEMMA WalkFolderType ==
  ASSUME TypeOK, WalkFolder \/ ReadDirFails
  PROVE  todo' \in Seq(Dirs) /\ found' \subseteq Dirs
<1> DEFINE d == Head(todo)
<1>1. todo \in Seq(Dirs) /\ todo # <<>> BY DEF TypeOK, WalkFolder, ReadDirFails
<1>2. d \in Dirs /\ Tail(todo) \in Seq(Dirs) BY <1>1, HeadTailProperties
<1>3. Sorted(Children(d)) \in Seq(Dirs)
  <2>1. Children(d) \in SUBSET Dirs BY DEF Children
  <2> QED BY <2>1, SortedFacts, SeqMonotonic
<1>4. CASE (WalkFolder /\ d \in markers) \/ ReadDirFails BY <1>2, <1>4 DEF WalkFolder, ReadDirFails, TypeOK
<1>5. CASE WalkFolder /\ d \notin markers
  <2>1. todo' = (IF Depth(d) >= maxDepth THEN <<>> ELSE Sorted(Children(d))) \o Tail(todo) /\ found' = found
    BY <1>5 DEF WalkFolder
  <2>2. <<>> \in Seq(Dirs) OBVIOUS
  <2>3. \A s, t \in Seq(Dirs) : s \o t \in Seq(Dirs) BY ConcatProperties
  <2> QED BY <1>2, <1>3, <2>1, <2>2, <2>3 DEF TypeOK
<1> QED BY <1>4, <1>5

LEMMA TypeStep == TypeOK /\ [Next]_vars => TypeOK'
<1> SUFFICES ASSUME TypeOK, [Next]_vars PROVE TypeOK' OBVIOUS
<1>a. EmptyChanges \in Changes BY EmptyIsChange
<1>b. <<Root>> \in Seq(Dirs) /\ <<>> \in Seq(Dirs) BY DirsAssumption
<1>1. ASSUME WalkFolder PROVE TypeOK'
  BY <1>1, WalkFolderType DEF WalkFolder, TypeOK, disk, request
<1>11. ASSUME ReadDirFails PROVE TypeOK'
  <2>1. todo' \in Seq(Dirs) /\ count' \in [{"edit", "other"} -> Nat]
    BY <1>11, WalkFolderType, BoundType DEF ReadDirFails
  <2>2. known' \subseteq known /\ drifted' \in BOOLEAN BY <1>11 DEF ReadDirFails
  <2> QED BY <1>11, <2>1, <2>2 DEF ReadDirFails, TypeOK, disk, request
<1>2. ASSUME FinishWalk PROVE TypeOK'
  <2>1. Merged(found) \in SUBSET Dirs BY DEF Merged
  <2>2. jobDirs' \subseteq Dirs /\ discovering' = (jobDirs' = NoList)
    BY <1>2, <2>1, ValuesAssumption DEF FinishWalk
  <2>3. walking' \in BOOLEAN /\ changed' = EmptyChanges BY <1>2 DEF FinishWalk, RepeatWalk
  <2>4. todo' \in Seq(Dirs) /\ found' \subseteq Dirs /\ drifted' \in BOOLEAN
    BY <1>2, <1>b DEF FinishWalk, walk, TypeOK
  <2>5. UNCHANGED <<markers, invalid, maxDepth, edit, reader, answer, known, count>>
    BY <1>2 DEF FinishWalk, disk, request
  <2> QED BY <1>a, <2>2, <2>3, <2>4, <2>5 DEF TypeOK, Changes
<1>3. ASSUME NEW d \in Dirs, SaveMarker(d) \/ DeleteMarker(d) PROVE TypeOK'
  <2>1. count' \in [{"edit", "other"} -> Nat]
    BY <1>3, BoundType DEF SaveMarker, DeleteMarker
  <2>e. \A saved \in BOOLEAN : [dir |-> d, saved |-> saved] \in [dir : Dirs, saved : BOOLEAN] OBVIOUS
  <2>2. edit' \in [dir : Dirs, saved : BOOLEAN] BY <1>3, <2>e DEF SaveMarker, DeleteMarker
  <2>3. markers' \subseteq Dirs /\ invalid' \subseteq markers' /\ known' \subseteq markers'
    BY <1>3 DEF SaveMarker, DeleteMarker, TypeOK
  <2>4. UNCHANGED <<maxDepth, jobDirs, walking, discovering, changed, todo, found, reader, answer, drifted>>
    BY <1>3 DEF SaveMarker, DeleteMarker, walk, request
  <2> QED BY <2>1, <2>2, <2>3, <2>4 DEF TypeOK
<1>4. ASSUME jobChanged PROVE TypeOK'
  <2>1. edit.dir \in Dirs /\ edit.saved \in BOOLEAN BY <1>4 DEF jobChanged, TypeOK
  <2>2. /\ jobDirs' = NoList \/ jobDirs' \subseteq Dirs
        /\ (jobDirs' = NoList) <=> (jobDirs = NoList)
    <3>1. jobDirs # NoList => withJob(jobDirs, edit.dir, edit.saved) \in SUBSET Dirs
      BY <2>1 DEF withJob, TypeOK
    <3> QED BY <1>4, <3>1, ValuesAssumption DEF jobChanged
  <2>3. StartWalk BY <1>4 DEF jobChanged
  <2>4. changed' \in Changes
    BY <1>4, <1>a, <2>1, RecordedFacts DEF jobChanged, Recorded
  <2>5. known' \subseteq markers' /\ edit' = NoEdit BY <1>4 DEF jobChanged, disk, TypeOK
  <2>6. UNCHANGED <<markers, invalid, maxDepth, discovering, reader, answer, count>>
    BY <1>4 DEF jobChanged, disk, request
  <2> QED BY <2>2, <2>3, <2>4, <2>5, <2>6, StartWalkFacts DEF TypeOK, Changes
<1>5. ASSUME RequestList PROVE TypeOK'
  <2>1. /\ UNCHANGED <<markers, invalid, maxDepth, jobDirs, discovering, changed, edit, answer, known, count>>
        /\ reader' = "waiting"
    BY <1>5 DEF RequestList, disk
  <2>2. CASE StartWalk BY <2>1, <2>2, StartWalkFacts DEF TypeOK
  <2>3. CASE UNCHANGED <<walking, walk, drifted>> BY <2>1, <2>3 DEF TypeOK, walk
  <2> QED BY <1>5, <2>2, <2>3 DEF RequestList
<1>6. ASSUME ReadList PROVE TypeOK'
  <2>1. answer' \in [dirs : SUBSET Dirs, discovering : BOOLEAN, known : SUBSET Dirs]
    <3>1. known \in SUBSET Dirs /\ discovering \in BOOLEAN BY DEF TypeOK
    <3>2. (IF jobDirs = NoList THEN {} ELSE jobDirs) \in SUBSET Dirs BY DEF TypeOK
    <3> QED BY <1>6, <3>1, <3>2 DEF ReadList
  <2> QED BY <1>6, <2>1 DEF ReadList, TypeOK, disk, walk
<1>7. ASSUME AnswerList PROVE TypeOK'
  <2>1. NoAnswer \in [dirs : SUBSET Dirs, discovering : BOOLEAN, known : SUBSET Dirs] BY DEF NoAnswer
  <2> QED BY <1>7, <2>1 DEF AnswerList, TypeOK, disk, walk
<1>8. ASSUME NEW d \in Dirs, ChangeByHand(d) PROVE TypeOK'
  <2>1. count' \in [{"edit", "other"} -> Nat] BY <1>8, BoundType DEF ChangeByHand
  <2>2. markers' \subseteq Dirs /\ invalid' \subseteq markers' /\ known' \subseteq markers'
    BY <1>8 DEF ChangeByHand, TypeOK
  <2> QED BY <1>8, <2>1, <2>2 DEF ChangeByHand, TypeOK, walk, request
<1>9. ASSUME NEW started \in BOOLEAN, NewService(started), edit' = NoEdit, known' \subseteq known, maxDepth' \in Depths
      PROVE  TypeOK'
  <2>1. count' \in [{"edit", "other"} -> Nat] BY <1>9, BoundType DEF NewService
  <2>2. NoAnswer \in [dirs : SUBSET Dirs, discovering : BOOLEAN, known : SUBSET Dirs] BY DEF NoAnswer
  <2>3. todo' \in Seq(Dirs) BY <1>9, <1>b DEF NewService
  <2> QED BY <1>9, <1>a, <2>1, <2>2, <2>3 DEF NewService, TypeOK, Changes
<1>10. ASSUME UNCHANGED vars PROVE TypeOK' BY <1>10 DEF vars, disk, walk, request, TypeOK
<1>12. ASSUME Restart \/ UpdateSettings PROVE TypeOK'
  <2>1. \E started \in BOOLEAN : NewService(started) BY <1>12 DEF Restart, UpdateSettings
  <2>2. edit' = NoEdit /\ known' \subseteq known /\ maxDepth' \in Depths
    BY <1>12 DEF Restart, UpdateSettings, TypeOK
  <2> QED BY <1>9, <2>1, <2>2
<1> QED BY <1>1, <1>2, <1>3, <1>4, <1>5, <1>6, <1>7, <1>8, <1>10, <1>11, <1>12
     DEF Next, Walk, Request, Edit

-----------------------------------------------------------------------------
(* The walk *)

\* What the second of two concatenated sequences contributes.
LEMMA SecondPart ==
  ASSUME NEW S, NEW s \in Seq(S), NEW t \in Seq(S), NEW j \in 1..Len(t)
  PROVE  /\ Len(s) + j \in DOMAIN (s \o t)
         /\ (s \o t)[Len(s) + j] = t[j]
OBVIOUS

\* A walk that begins has every folder ahead of it.
LEMMA FreshAhead ==
  ASSUME todo' = <<Root>>, NEW k \in Dirs
  PROVE  Ahead(k)'
<1>1. 1 \in DOMAIN todo' /\ todo'[1] = Root OBVIOUS
<1> QED BY <1>1, RootCovers DEF Ahead

\* The walk passes no job by: it has found it or has still to come by it.
LEMMA WalkFolderGoesOn ==
  ASSUME TypeOK, WalkFolder, NEW k \in markers, Depth(k) <= maxDepth, Ancestors[k] \cap markers = {},
         k \in found \/ Ahead(k)
  PROVE  k \in found' \/ Ahead(k)'
<1> DEFINE d == Head(todo)
<1>1. todo \in Seq(Dirs) /\ todo # <<>> /\ k \in Dirs BY DEF TypeOK, WalkFolder
<1>2. /\ d \in Dirs /\ d = todo[1]
      /\ Tail(todo) \in Seq(Dirs)
      /\ \A i \in DOMAIN todo : i # 1 => i - 1 \in DOMAIN Tail(todo) /\ Tail(todo)[i - 1] = todo[i]
  BY <1>1
<1>3. CASE k \in found BY <1>3 DEF WalkFolder
<1>4. CASE d \in markers
  <2>1. todo' = Tail(todo) /\ found' = found \cup {d} BY <1>4 DEF WalkFolder
  <2>2. d \notin Ancestors[k] BY <1>4
  <2>3. CASE d = k BY <2>1, <2>3
  <2>4. CASE k \notin found /\ d # k
    <3>1. PICK i \in DOMAIN todo : Covers(todo[i], k) BY <2>4 DEF Ahead
    <3>2. i # 1 BY <1>2, <2>2, <2>4, <3>1 DEF Covers
    <3> QED BY <1>2, <2>1, <3>1, <3>2 DEF Ahead
  <2> QED BY <1>3, <2>3, <2>4
<1>5. CASE d \notin markers /\ k \notin found
  <2> DEFINE s == IF Depth(d) >= maxDepth THEN <<>> ELSE Sorted(Children(d))
  <2>1. todo' = s \o Tail(todo) BY <1>5 DEF WalkFolder
  <2>2. Children(d) \in SUBSET Dirs BY DEF Children
  <2>3. s \in Seq(Dirs) BY <2>2, SortedFacts, SeqMonotonic
  <2>4. PICK i \in DOMAIN todo : Covers(todo[i], k) BY <1>5 DEF Ahead
  <2>5. CASE i = 1
    <3>1. d \in Ancestors[k] BY <1>2, <1>5, <2>4, <2>5 DEF Covers
    <3>2. ~(Depth(d) >= maxDepth)
      <4>1. Depth(d) < Depth(k) /\ Depth(d) \in Nat /\ Depth(k) \in Nat BY <1>1, <1>2, <3>1, DepthFacts
      <4> QED BY <4>1, DepthType
    <3>3. PICK e \in Children(d) : Covers(e, k) BY <1>1, <3>1, ChildCovers
    <3>4. PICK m \in DOMAIN s : s[m] = e BY <2>2, <3>2, SortedFacts
    <3>5. m \in DOMAIN todo' /\ todo'[m] = e
      BY <1>2, <2>1, <2>3, <3>4, ConcatProperties
    <3> QED BY <3>3, <3>5 DEF Ahead
  <2>6. CASE i # 1
    <3>1. i - 1 \in DOMAIN Tail(todo) /\ Tail(todo)[i - 1] = todo[i] BY <1>2, <2>6
    <3>2. Len(s) \in Nat /\ i - 1 \in 1..Len(Tail(todo)) /\ Len(Tail(todo)) \in Nat BY <1>2, <2>3, <3>1
    <3>3. Len(s) + (i - 1) \in DOMAIN todo' /\ todo'[Len(s) + (i - 1)] = todo[i]
      <4>1. Tail(todo) \in Seq(Dirs) BY <1>2
      <4> QED BY ONLY <2>1, <2>3, <3>1, <3>2, <4>1, SecondPart
    <3> QED BY <2>4, <3>3 DEF Ahead
  <2> QED BY <2>5, <2>6
<1> QED BY <1>3, <1>4, <1>5

\* What an undisturbed walk has still to read lies within the depth, and below no job.
LEMMA WalkFolderStaysInside ==
  ASSUME TypeOK, WalkFolder,
         \A i \in DOMAIN todo : Depth(todo[i]) <= maxDepth /\ Ancestors[todo[i]] \cap markers = {}
  PROVE  /\ \A i \in DOMAIN todo' : Depth(todo'[i]) <= maxDepth /\ Ancestors[todo'[i]] \cap markers = {}
         /\ found' \subseteq found \cup Jobs
<1> DEFINE d == Head(todo)
           Inside(e) == Depth(e) <= maxDepth /\ Ancestors[e] \cap markers = {}
<1>1. todo \in Seq(Dirs) /\ todo # <<>> BY DEF TypeOK, WalkFolder
<1>2. /\ d \in Dirs /\ 1 \in DOMAIN todo /\ d = todo[1]
      /\ Tail(todo) \in Seq(Dirs)
      /\ \A i \in DOMAIN Tail(todo) : i + 1 \in DOMAIN todo /\ Tail(todo)[i] = todo[i + 1]
  BY <1>1
<1>3. Inside(d) /\ \A i \in DOMAIN Tail(todo) : Inside(Tail(todo)[i]) BY <1>2
<1>4. CASE d \in markers
  <2>1. todo' = Tail(todo) /\ found' = found \cup {d} BY <1>4 DEF WalkFolder
  <2>2. d \in Jobs BY <1>3, <1>4 DEF Jobs, InView
  <2> QED BY <1>3, <2>1, <2>2
<1>5. CASE d \notin markers
  <2> DEFINE s == IF Depth(d) >= maxDepth THEN <<>> ELSE Sorted(Children(d))
  <2>1. todo' = s \o Tail(todo) /\ found' = found BY <1>5 DEF WalkFolder
  <2>2. Children(d) \in SUBSET Dirs BY DEF Children
  <2>3. s \in Seq(Dirs) BY <2>2, SortedFacts, SeqMonotonic
  <2>4. ASSUME NEW i \in DOMAIN s PROVE Inside(s[i])
    <3>1. Depth(d) < maxDepth
      <4>1. ~(Depth(d) >= maxDepth) OBVIOUS
      <4> QED BY <1>2, <4>1, DepthFacts, DepthType
    <3>2. s[i] \in Children(d)
      <4>1. s \in Seq(Children(d)) BY <2>2, <3>1, SortedFacts
      <4> QED BY <4>1
    <3>3. Depth(s[i]) = Depth(d) + 1 /\ Ancestors[s[i]] = Ancestors[d] \cup {d} BY <1>2, <3>2, DepthFacts
    <3>4. Depth(d) \in Nat BY <1>2, DepthFacts
    <3> QED BY <1>3, <1>5, <3>1, <3>3, <3>4, DepthType
  <2>5. ASSUME NEW i \in DOMAIN todo' PROVE Inside(todo'[i])
    <3>0. Len(s) \in Nat /\ Len(Tail(todo)) \in Nat /\ i \in 1..(Len(s) + Len(Tail(todo)))
      BY <1>2, <2>1, <2>3, <2>5, ConcatProperties
    <3>1. CASE i <= Len(s)
      <4>1. i \in DOMAIN s /\ todo'[i] = s[i] BY <1>2, <2>1, <2>3, <3>0, <3>1, ConcatProperties
      <4> QED BY <2>4, <4>1
    <3>2. CASE i > Len(s)
      <4>1. i - Len(s) \in DOMAIN Tail(todo) /\ todo'[i] = Tail(todo)[i - Len(s)]
        BY <1>2, <2>1, <2>3, <3>0, <3>2, ConcatProperties
      <4> QED BY <1>3, <4>1
    <3> QED BY <3>0, <3>1, <3>2
  <2> QED BY <2>1, <2>5
<1> QED BY <1>4, <1>5

-----------------------------------------------------------------------------
(* The jobs that the user relies on *)

LEMMA KnownStaysStep ==
  ASSUME TypeOK, KnownStays, EditFits, [Next]_vars
  PROVE  KnownStays'
<1> DEFINE Stays(k) ==
             /\ Depth(k) <= maxDepth
             /\ Ancestors[k] \cap markers = {}
             /\ jobDirs # NoList => k \in jobDirs
             /\ walking => IF k \in DOMAIN changed THEN changed[k] ELSE k \in found \/ Ahead(k)
<1> SUFFICES ASSUME NEW k \in known' PROVE Stays(k)' BY DEF KnownStays
<1>0. known \subseteq markers /\ markers \subseteq Dirs /\ (k \in known => Stays(k)) BY DEF TypeOK, KnownStays
<1>1. ASSUME WalkFolder PROVE Stays(k)'
  <2>1. k \in known /\ walking /\ UNCHANGED <<markers, maxDepth, jobDirs, walking, changed, known>>
    BY <1>1 DEF WalkFolder, disk
  <2>2. CASE k \in DOMAIN changed BY <1>0, <2>1, <2>2
  <2>3. CASE k \notin DOMAIN changed
    <3>1. k \in found' \/ Ahead(k)' BY <1>0, <1>1, <2>1, <2>3, WalkFolderGoesOn
    <3> QED BY <1>0, <2>1, <2>3, <3>1
  <2> QED BY <2>2, <2>3
<1>9. ASSUME ReadDirFails PROVE Stays(k)'
  <2>1. /\ k \in known /\ UNCHANGED <<markers, maxDepth, jobDirs, walking, changed, found>>
        /\ todo' = Tail(todo) /\ ~Covers(Head(todo), k)
    BY <1>0, <1>9 DEF ReadDirFails, disk, Below, Covers
  <2>2. todo \in Seq(Dirs) /\ todo # <<>> BY <1>9 DEF ReadDirFails, TypeOK
  <2>3. ASSUME NEW i \in DOMAIN todo, Covers(todo[i], k) PROVE i - 1 \in DOMAIN todo' /\ todo'[i - 1] = todo[i]
    <3>1. i # 1 BY <2>1, <2>2, <2>3
    <3> QED BY <2>1, <2>2, <3>1
  <2>4. Ahead(k) => Ahead(k)' BY <2>3 DEF Ahead
  <2> QED BY <1>0, <2>1, <2>4
<1>2. ASSUME FinishWalk PROVE Stays(k)'
  <2>1. /\ k \in known /\ walking /\ todo = <<>> /\ jobDirs' = Merged(found)
        /\ UNCHANGED <<markers, maxDepth, known>>
    BY <1>2 DEF FinishWalk, disk
  <2>2. ~Ahead(k) BY <2>1 DEF Ahead
  <2>3. k \in Merged(found) BY <1>0, <2>1, <2>2 DEF Merged
  <2>4. walking' => todo' = <<Root>> /\ DOMAIN changed' = {}
    BY <1>2, EmptyIsChange DEF FinishWalk
  <2>5. walking' => Ahead(k)' BY <1>0, <2>1, <2>4, FreshAhead
  <2> QED BY <1>0, <2>1, <2>3, <2>4, <2>5
<1>3. ASSUME NEW d \in Dirs, SaveMarker(d) \/ DeleteMarker(d) PROVE Stays(k)'
  <2>1. k \in known /\ k \in Dirs BY <1>0, <1>3 DEF SaveMarker, DeleteMarker
  <2>2. Ancestors[k] \cap markers' = {}
    <3>1. CASE SaveMarker(d)
      <4>1. d \notin Ancestors[k] /\ markers' = markers \cup {d} BY <2>1, <3>1 DEF SaveMarker, Below
      <4> QED BY <1>0, <2>1, <4>1
    <3>2. CASE DeleteMarker(d) BY <1>0, <2>1, <3>2 DEF DeleteMarker
    <3> QED BY <1>3, <3>1, <3>2
  <2>3. UNCHANGED <<maxDepth, jobDirs, walking, changed, todo, found>> BY <1>3 DEF SaveMarker, DeleteMarker, walk
  <2> QED BY <1>0, <2>1, <2>2, <2>3 DEF Ahead
<1>4. ASSUME jobChanged PROVE Stays(k)'
  <2>0. /\ edit.dir \in Dirs /\ edit.saved \in BOOLEAN /\ StartWalk /\ UNCHANGED <<markers, maxDepth>>
        /\ changed' = Recorded(edit.dir, edit.saved)
        /\ ~edit.saved => edit.dir \notin known
    BY <1>4 DEF jobChanged, disk, TypeOK, EditFits
  <2>1. /\ k \in Dirs /\ (k = edit.dir => edit.saved)
        /\ \/ k \in known /\ Stays(k)
           \/ k = edit.dir /\ Ancestors[k] \cap markers = {} /\ Depth(k) <= maxDepth
    BY <1>0, <1>4, <2>0 DEF jobChanged, InView
  <2>2. Depth(k) <= maxDepth' /\ Ancestors[k] \cap markers' = {} BY <1>0, <2>0, <2>1
  <2>3. jobDirs' # NoList => k \in jobDirs'
    BY <1>0, <1>4, <2>1 DEF jobChanged, withJob
  <2>4. CASE walking
    <3>1. UNCHANGED <<todo, found>> BY <2>0, <2>4, StartWalkFacts
    <3>2. k = edit.dir => k \in DOMAIN changed' /\ changed'[k] = TRUE
      BY <2>0, <2>1, <2>4, RecordedFacts
    <3>3. /\ DOMAIN changed' = DOMAIN changed \cup {edit.dir}
          /\ \A e \in DOMAIN changed \ {edit.dir} : changed'[e] = changed[e]
      <4>1. edit.dir \in Dirs /\ edit.saved \in BOOLEAN /\ changed' = Recorded(edit.dir, edit.saved)
        BY <2>0
      <4>2. /\ DOMAIN Recorded(edit.dir, edit.saved) = DOMAIN changed \cup {edit.dir}
            /\ \A e \in DOMAIN changed \ {edit.dir} : Recorded(edit.dir, edit.saved)[e] = changed[e]
        BY ONLY TypeOK, <2>4, <4>1, RecordedFacts
      <4> QED BY ONLY <4>1, <4>2
    <3>4. k # edit.dir => (k \in DOMAIN changed' <=> k \in DOMAIN changed) BY <3>3
    <3>5. k # edit.dir /\ k \in DOMAIN changed => changed'[k] = changed[k] BY <3>3
    <3> QED BY <1>0, <2>1, <2>2, <2>3, <2>4, <3>1, <3>2, <3>4, <3>5 DEF Ahead
  <2>5. CASE ~walking
    <3>1. todo' = <<Root>> BY <2>0, <2>5, StartWalkFacts
    <3>2. DOMAIN changed' = {} BY <2>0, <2>5, EmptyIsChange DEF Recorded
    <3> QED BY <2>1, <2>2, <2>3, <3>1, <3>2, FreshAhead
  <2> QED BY <2>4, <2>5
<1>5. ASSUME RequestList PROVE Stays(k)'
  <2>1. k \in known /\ UNCHANGED <<markers, maxDepth, jobDirs, changed, known>> BY <1>5 DEF RequestList, disk
  <2>2. CASE UNCHANGED <<walking, walk>> BY <1>0, <2>1, <2>2 DEF Ahead, walk
  <2>3. CASE StartWalk
    <3>1. CASE walking
      <4>1. UNCHANGED <<todo, found>> /\ walking' BY <2>3, <3>1, StartWalkFacts
      <4> QED BY <1>0, <2>1, <3>1, <4>1 DEF Ahead
    <3>2. CASE ~walking
      <4>1. todo' = <<Root>> BY <2>3, <3>2, StartWalkFacts
      <4>2. DOMAIN changed' = {} BY <2>1, <3>2, EmptyIsChange DEF TypeOK
      <4> QED BY <1>0, <2>1, <4>1, <4>2, FreshAhead
    <3> QED BY <3>1, <3>2
  <2> QED BY <1>5, <2>2, <2>3 DEF RequestList
<1>6. ASSUME ReadList \/ AnswerList \/ UNCHANGED vars PROVE Stays(k)'
  BY <1>0, <1>6 DEF ReadList, AnswerList, vars, disk, walk, Ahead
<1>7. ASSUME NEW d \in Dirs, ChangeByHand(d) PROVE Stays(k)'
  <2>1. k \in known /\ k \in Dirs BY <1>0, <1>7 DEF ChangeByHand
  <2>2. Ancestors[k] \cap markers' = {}
    <3>1. CASE markers' = markers \ {d} BY <1>0, <2>1, <3>1
    <3>2. CASE markers' = markers \cup {d} /\ known' = known \ Below(d)
      <4>1. d \notin Ancestors[k] BY <2>1, <3>2 DEF Below
      <4> QED BY <1>0, <2>1, <3>2, <4>1
    <3> QED BY <1>7, <3>1, <3>2 DEF ChangeByHand
  <2>3. UNCHANGED <<maxDepth, jobDirs, walking, changed, todo, found>> BY <1>7 DEF ChangeByHand, walk
  <2> QED BY <1>0, <2>1, <2>2, <2>3 DEF Ahead
<1>8. ASSUME Restart \/ UpdateSettings PROVE Stays(k)'
  <2>1. k \in known /\ UNCHANGED markers /\ jobDirs' = NoList
    BY <1>8 DEF Restart, UpdateSettings, NewService
  <2>2. Depth(k) <= maxDepth' BY <1>0, <1>8 DEF Restart, UpdateSettings
  <2>3. walking' => todo' = <<Root>> BY <1>8 DEF Restart, UpdateSettings, NewService
  <2>4. DOMAIN changed' = {} BY <1>8, EmptyIsChange DEF Restart, UpdateSettings, NewService
  <2> QED BY <1>0, <2>1, <2>2, <2>3, <2>4, FreshAhead
<1> QED BY <1>1, <1>2, <1>3, <1>4, <1>5, <1>6, <1>7, <1>8, <1>9 DEF Next, Walk, Request, Edit

LEMMA EditFitsStep ==
  ASSUME TypeOK, EditFits, [Next]_vars
  PROVE  EditFits'
<1>1. ASSUME Walk \/ Request \/ UNCHANGED vars PROVE EditFits'
  <2>1. edit' = edit /\ known' \subseteq known
    BY <1>1 DEF Walk, WalkFolder, ReadDirFails, FinishWalk, Request, RequestList, ReadList, AnswerList, vars
  <2> QED BY <2>1 DEF EditFits
<1>2. ASSUME NEW d \in Dirs, SaveMarker(d) \/ DeleteMarker(d) PROVE EditFits'
  BY <1>2 DEF SaveMarker, DeleteMarker, EditFits
<1>3. ASSUME jobChanged \/ Restart \/ UpdateSettings PROVE EditFits'
  BY <1>3 DEF jobChanged, Restart, UpdateSettings, EditFits
<1>4. ASSUME NEW d \in Dirs, ChangeByHand(d) PROVE EditFits'
  <2>1. edit' = edit /\ known' \subseteq known BY <1>4 DEF ChangeByHand
  <2> QED BY <2>1 DEF EditFits
<1> QED BY <1>1, <1>2, <1>3, <1>4 DEF Next, Edit

-----------------------------------------------------------------------------
(* What an undisturbed walk is worth *)

\* A walk that begins is right.
LEMMA FreshIsRight ==
  ASSUME TypeOK', todo' = <<Root>>, found' = {}
  PROVE  WalkIsRight'
<1>1. \A d \in Jobs' : Ahead(d)' BY FreshAhead DEF TypeOK, Jobs, InView
<1>2. Depth(Root) <= maxDepth' /\ Ancestors[Root] = {}
  BY DepthFacts, AncestorsDef, BoundsAssumption DEF TypeOK
<1>3. \A i \in DOMAIN todo' : todo'[i] = Root OBVIOUS
<1> QED BY <1>1, <1>2, <1>3 DEF WalkIsRight

LEMMA WalkIsRightStep ==
  ASSUME TypeOK, TypeOK', WalkIsRight, [Next]_vars
  PROVE  WalkIsRight'
<1>1. ASSUME WalkFolder PROVE WalkIsRight'
  <2>0. UNCHANGED <<markers, maxDepth, walking, changed, drifted, edit>> BY <1>1 DEF WalkFolder, disk
  <2>1. SUFFICES ASSUME Undisturbed
                 PROVE  /\ found' \subseteq Jobs
                        /\ \A d \in Jobs : d \in found' \/ Ahead(d)'
                        /\ \A i \in DOMAIN todo' : /\ Depth(todo'[i]) <= maxDepth
                                                   /\ Ancestors[todo'[i]] \cap markers = {}
    BY <2>0 DEF WalkIsRight, Undisturbed, Jobs, InView
  <2>2. ASSUME NEW d \in Jobs PROVE d \in found' \/ Ahead(d)'
    BY <1>1, <2>1, WalkFolderGoesOn DEF WalkIsRight, Jobs, InView
  <2> QED BY <1>1, <2>1, <2>2, WalkFolderStaysInside DEF WalkIsRight
<1>9. ASSUME ReadDirFails PROVE WalkIsRight'
  BY <1>9 DEF ReadDirFails, WalkIsRight, Undisturbed
<1>2. ASSUME FinishWalk PROVE WalkIsRight'
  <2>1. CASE walking' BY <1>2, <2>1, FreshIsRight DEF FinishWalk
  <2>2. CASE ~walking' BY <2>2 DEF WalkIsRight, Undisturbed
  <2> QED BY <2>1, <2>2
<1>3. ASSUME NEW d \in Dirs, SaveMarker(d) \/ DeleteMarker(d) PROVE WalkIsRight'
  <2>e. \A saved \in BOOLEAN : [dir |-> d, saved |-> saved] \in [dir : Dirs, saved : BOOLEAN] OBVIOUS
  <2>1. edit' # NoEdit BY <1>3, <2>e, ValuesAssumption DEF SaveMarker, DeleteMarker
  <2> QED BY <2>1 DEF WalkIsRight, Undisturbed
<1>4. ASSUME jobChanged PROVE WalkIsRight'
  <2>1. edit.dir \in Dirs /\ edit.saved \in BOOLEAN /\ changed' = Recorded(edit.dir, edit.saved) /\ StartWalk
    BY <1>4 DEF jobChanged, TypeOK
  <2>2. CASE walking
    <3>1. changed' # EmptyChanges BY <2>1, <2>2, RecordedFacts
    <3> QED BY <3>1 DEF WalkIsRight, Undisturbed, EmptyChanges
  <2>3. CASE ~walking BY <2>1, <2>3, StartWalkFacts, FreshIsRight
  <2> QED BY <2>2, <2>3
<1>5. ASSUME RequestList PROVE WalkIsRight'
  <2>1. UNCHANGED <<markers, maxDepth, changed, edit>> BY <1>5 DEF RequestList, disk
  <2>2. CASE StartWalk /\ ~walking BY <2>2, StartWalkFacts, FreshIsRight
  <2>3. CASE StartWalk /\ walking
    <3>1. UNCHANGED <<todo, found, drifted, walking>> BY <2>3, StartWalkFacts DEF TypeOK
    <3> QED BY <2>1, <3>1 DEF WalkIsRight, Undisturbed, Jobs, InView, Ahead
  <2>4. CASE UNCHANGED <<walking, walk, drifted>>
    BY <2>1, <2>4 DEF WalkIsRight, Undisturbed, Jobs, InView, Ahead, walk
  <2> QED BY <1>5, <2>2, <2>3, <2>4 DEF RequestList
<1>6. ASSUME ReadList \/ AnswerList \/ UNCHANGED vars PROVE WalkIsRight'
  <2>1. UNCHANGED <<markers, maxDepth, walking, changed, edit, drifted, todo, found>>
    BY <1>6 DEF ReadList, AnswerList, vars, disk, walk
  <2> QED BY <2>1 DEF WalkIsRight, Undisturbed, Jobs, InView, Ahead
<1>7. ASSUME NEW d \in Dirs, ChangeByHand(d) PROVE WalkIsRight'
  <2>1. drifted' BY <1>7 DEF ChangeByHand
  <2> QED BY <2>1 DEF WalkIsRight, Undisturbed
<1>8. ASSUME NEW started \in BOOLEAN, NewService(started) PROVE WalkIsRight'
  <2>1. CASE started BY <1>8, <2>1, FreshIsRight DEF NewService
  <2>2. CASE ~started
    <3>1. ~walking' BY <1>8, <2>2 DEF NewService
    <3> QED BY <3>1 DEF WalkIsRight, Undisturbed
  <2> QED BY <2>1, <2>2
<1> QED BY <1>1, <1>2, <1>3, <1>4, <1>5, <1>6, <1>7, <1>8, <1>9
     DEF Next, Walk, Request, Edit, Restart, UpdateSettings

LEMMA ListedIsBackedUpStep ==
  ASSUME TypeOK, WalkIsRight, ListedIsBackedUp, [Next]_vars
  PROVE  ListedIsBackedUp'
<1>1. ASSUME WalkFolder \/ ReadDirFails PROVE ListedIsBackedUp'
  <2>1. CASE WalkFolder BY <2>1 DEF WalkFolder, ListedIsBackedUp
  <2>2. CASE ReadDirFails BY <2>2 DEF ReadDirFails, ListedIsBackedUp
  <2> QED BY <1>1, <2>1, <2>2
<1>2. ASSUME FinishWalk PROVE ListedIsBackedUp'
  <2>1. SUFFICES ASSUME ~walking', edit' = NoEdit, ~drifted' PROVE jobDirs' = Jobs'
    BY DEF ListedIsBackedUp, DiscoverJobs, Jobs
  <2>2. changed = EmptyChanges BY <1>2, <2>1 DEF FinishWalk, RepeatWalk
  <2>3. Undisturbed BY <1>2, <2>1, <2>2 DEF FinishWalk, Undisturbed, RepeatWalk
  <2>4. \A d : ~Ahead(d) BY <1>2 DEF FinishWalk, Ahead
  <2>5. found = Jobs BY <2>3, <2>4 DEF WalkIsRight
  <2>6. Merged(found) = found BY <2>2, EmptyIsChange DEF Merged, TypeOK
  <2> QED BY <1>2, <2>5, <2>6 DEF FinishWalk, disk, Jobs, InView
<1>3. ASSUME NEW d \in Dirs, SaveMarker(d) \/ DeleteMarker(d) PROVE ListedIsBackedUp'
  <2>e. \A saved \in BOOLEAN : [dir |-> d, saved |-> saved] \in [dir : Dirs, saved : BOOLEAN] OBVIOUS
  <2>1. edit' # NoEdit BY <1>3, <2>e, ValuesAssumption DEF SaveMarker, DeleteMarker
  <2> QED BY <2>1 DEF ListedIsBackedUp
<1>4. ASSUME jobChanged PROVE ListedIsBackedUp'
  <2>1. walking' BY <1>4, StartWalkFacts DEF jobChanged
  <2> QED BY <2>1 DEF ListedIsBackedUp
<1>5. ASSUME RequestList PROVE ListedIsBackedUp'
  <2>1. UNCHANGED <<markers, invalid, maxDepth, jobDirs, edit>> BY <1>5 DEF RequestList, disk
  <2>2. walking' \/ UNCHANGED <<walking, drifted>> BY <1>5, StartWalkFacts DEF RequestList
  <2> QED BY <2>1, <2>2 DEF ListedIsBackedUp, DiscoverJobs, InView
<1>6. ASSUME ReadList \/ AnswerList \/ UNCHANGED vars PROVE ListedIsBackedUp'
  <2>1. UNCHANGED <<markers, invalid, maxDepth, walking, jobDirs, edit, drifted>>
    BY <1>6 DEF ReadList, AnswerList, vars, disk
  <2> QED BY <2>1 DEF ListedIsBackedUp, DiscoverJobs, InView
<1>7. ASSUME NEW d \in Dirs, ChangeByHand(d) PROVE ListedIsBackedUp'
  BY <1>7 DEF ChangeByHand, ListedIsBackedUp
<1>8. ASSUME NEW started \in BOOLEAN, NewService(started) PROVE ListedIsBackedUp'
  BY <1>8 DEF NewService, ListedIsBackedUp
<1> QED BY <1>1, <1>2, <1>3, <1>4, <1>5, <1>6, <1>7, <1>8
     DEF Next, Walk, Request, Edit, Restart, UpdateSettings

LEMMA AnswerIsCompleteStep ==
  ASSUME TypeOK, KnownStays, AnswerIsComplete, [Next]_vars
  PROVE  AnswerIsComplete'
<1>1. ASSUME UNCHANGED <<reader, answer>> PROVE AnswerIsComplete' BY <1>1 DEF AnswerIsComplete
<1>2. ASSUME ReadList PROVE AnswerIsComplete'
  <2>1. /\ answer'.dirs = IF jobDirs = NoList THEN {} ELSE jobDirs
        /\ answer'.discovering = discovering
        /\ answer'.known = known
    BY <1>2 DEF ReadList
  <2> QED BY <2>1 DEF TypeOK, KnownStays, AnswerIsComplete
<1>3. ASSUME RequestList \/ AnswerList \/ Restart \/ UpdateSettings PROVE AnswerIsComplete'
  <2>1. reader' \in {"idle", "waiting"}
    BY <1>3 DEF RequestList, AnswerList, Restart, UpdateSettings, NewService
  <2> QED BY <2>1 DEF AnswerIsComplete
<1>4. ASSUME \/ WalkFolder \/ ReadDirFails \/ FinishWalk \/ jobChanged \/ UNCHANGED vars
             \/ \E d \in Dirs : SaveMarker(d) \/ DeleteMarker(d) \/ ChangeByHand(d)
      PROVE  UNCHANGED <<reader, answer>>
  BY <1>4 DEF WalkFolder, ReadDirFails, FinishWalk, SaveMarker, DeleteMarker, jobChanged, ChangeByHand, vars, request
<1> QED BY <1>1, <1>2, <1>3, <1>4 DEF Next, Walk, Request, Edit

-----------------------------------------------------------------------------
(* Theorems *)

LEMMA Start == Init => IInv
<1> SUFFICES ASSUME Init PROVE IInv OBVIOUS
<1>1. NoAnswer \in [dirs : SUBSET Dirs, discovering : BOOLEAN, known : SUBSET Dirs] BY DEF NoAnswer
<1>2. <<Root>> \in Seq(Dirs) BY DirsAssumption
<1>3. markers \subseteq Dirs BY DirsAssumption DEF Init
<1>4. TypeOK BY <1>1, <1>2, <1>3, EmptyIsChange DEF Init, TypeOK, Changes
<1>5. KnownStays /\ EditFits BY DEF Init, KnownStays, EditFits
<1>6. WalkIsRight
  <2>1. 1 \in DOMAIN todo /\ todo[1] = Root /\ \A i \in DOMAIN todo : todo[i] = Root BY DEF Init
  <2>2. \A d \in Jobs : Ahead(d) BY <1>3, <2>1, RootCovers DEF Ahead, Jobs, InView
  <2>3. Depth(Root) <= maxDepth /\ Ancestors[Root] = {} BY <1>4, DepthFacts, AncestorsDef, DepthType
  <2> QED BY <2>1, <2>2, <2>3 DEF Init, WalkIsRight
<1>7. ListedIsBackedUp /\ AnswerIsComplete BY DEF Init, ListedIsBackedUp, AnswerIsComplete
<1> QED BY <1>4, <1>5, <1>6, <1>7 DEF IInv

LEMMA Invariance == Spec => []IInv
<1>1. IInv /\ [Next]_vars => IInv'
  BY TypeStep, KnownStaysStep, EditFitsStep, WalkIsRightStep, ListedIsBackedUpStep, AnswerIsCompleteStep DEF IInv
<1> QED BY Start, <1>1, PTL DEF Spec

\* The list, the walk, the changes recorded during it and the answers keep their types; in
\* particular a service without a list is one whose first walk has not finished, and nothing is
\* recorded while nobody walks.
THEOREM TypeCorrect == Spec => []TypeOK
BY Invariance, PTL DEF IInv

\* directories.go, runWalks: a job that was saved within the depth, and that nothing has hidden or
\* made unreadable since, is not dropped by a walk that had passed its folder before, in whatever
\* order saves, deletions, changes by hand, changes of the depth and walks follow each other.
THEOREM SavedAlwaysListed == Spec => []SavedStaysListed
<1>1. IInv => SavedStaysListed BY DEF IInv, KnownStays, SavedStaysListed
<1> QED BY Invariance, <1>1, PTL

\* Once a walk has ended that nobody disturbed by hand, and no edit is under way, the list holds what
\* DiscoverJobs gives a backup cycle, and nothing else but broken markers and what lies in Scout's
\* own folders, for every tree: the walk with its sorted children, its depth limit and its stop at a
\* marker finds the jobs that no other job hides.
THEOREM ListedAlwaysBackedUp == Spec => []ListedIsBackedUp
BY Invariance, PTL DEF IInv

\* An answer that does not say that the first walk is running holds every job that was saved and is
\* in view.
THEOREM AnswerAlwaysComplete == Spec => []AnswerIsComplete
BY Invariance, PTL DEF IInv

-----------------------------------------------------------------------------
(* Why a walk ends *)

\* What the walk has still to read lies apart: no folder of todo is below another, or there twice.
TodoApart == \A i, j \in DOMAIN todo : i # j => ~Covers(todo[i], todo[j])

ToRead == {k \in Dirs : Ahead(k)}

\* A walk reads a folder, or fails to, that it will not come by again; it starts over only for changes that it
\* was told of, and of those each only once; everything else leaves it alone or ends it.
WalkShortens ==
  walking =>
    \/ ~walking'
    \/ (WalkFolder \/ ReadDirFails) /\ ToRead' \subseteq ToRead /\ Head(todo) \in ToRead \ ToRead'
    \/ FinishWalk /\ changed # EmptyChanges /\ changed' = EmptyChanges
    \/ Restart
    \/ ~Walk /\ UNCHANGED <<walking, todo>>

\* The children of a folder lie apart from each other, and from what lies apart from the folder.
LEMMA ChildrenApart ==
  ASSUME NEW d \in Dirs, NEW a \in Children(d)
  PROVE  /\ a \in Dirs /\ ~Covers(a, d) /\ Covers(d, a)
         /\ \A b \in Children(d) : a # b => ~Covers(a, b)
         /\ \A e \in Dirs : ~Covers(d, e) => ~Covers(a, e)
         /\ \A e \in Dirs : ~Covers(d, e) /\ ~Covers(e, d) => ~Covers(e, a)
<1>1. a \in Dirs /\ Ancestors[a] = Ancestors[d] \cup {d} BY DepthFacts DEF Children
<1>2. d \notin Ancestors[d] BY AncestorsProper
<1>3. a # d /\ a \notin Ancestors[d]
  <2>1. a \in Ancestors[d] => Ancestors[a] \subseteq Ancestors[d] BY AncestorsTransitive
  <2> QED BY <1>1, <1>2, <2>1
<1>4. ASSUME NEW b \in Children(d), a # b PROVE ~Covers(a, b)
  <2>1. Ancestors[b] = Ancestors[d] \cup {d} BY DepthFacts
  <2> QED BY <1>3, <1>4, <2>1 DEF Covers
<1>5. ASSUME NEW e \in Dirs, Covers(a, e) PROVE Covers(d, e)
  <2>1. a \in Ancestors[e] => Ancestors[a] \subseteq Ancestors[e] BY AncestorsTransitive
  <2> QED BY <1>1, <1>5, <2>1 DEF Covers
<1>6. ASSUME NEW e \in Dirs, Covers(e, a), ~Covers(d, e) PROVE Covers(e, d)
  BY <1>1, <1>6 DEF Covers
<1> QED BY <1>1, <1>3, <1>4, <1>5, <1>6 DEF Covers

\* What is on todo once a folder is read: the rest of it, and children of the folder.
LEMMA WalkFolderTodo ==
  ASSUME TypeOK, WalkFolder \/ ReadDirFails
  PROVE  \E n \in Nat :
           /\ \A i \in DOMAIN todo' : i <= n => todo'[i] \in Children(todo[1])
           /\ \A i, j \in DOMAIN todo' : i <= n /\ j <= n /\ i # j => todo'[i] # todo'[j]
           /\ \A i \in DOMAIN todo' : i > n => i - n + 1 \in DOMAIN todo /\ i - n + 1 # 1 /\ todo'[i] = todo[i - n + 1]
<1> DEFINE d == Head(todo)
<1>1. todo \in Seq(Dirs) /\ todo # <<>> BY DEF TypeOK, WalkFolder, ReadDirFails
<1>2. /\ d \in Dirs /\ 1 \in DOMAIN todo /\ d = todo[1] /\ Tail(todo) \in Seq(Dirs)
      /\ \A i \in DOMAIN Tail(todo) : i + 1 \in DOMAIN todo /\ i + 1 # 1 /\ Tail(todo)[i] = todo[i + 1]
  BY <1>1
<1>3. CASE (WalkFolder /\ d \in markers) \/ ReadDirFails
  <2>1. todo' = Tail(todo) BY <1>3 DEF WalkFolder, ReadDirFails
  <2>2. \A i \in DOMAIN todo' : i \in Nat /\ i > 0 /\ i - 0 + 1 = i + 1 BY <1>2, <2>1
  <2>3. \A i \in DOMAIN todo' : i > 0 => i - 0 + 1 \in DOMAIN todo /\ i - 0 + 1 # 1 /\ todo'[i] = todo[i - 0 + 1]
    BY <1>2, <2>1, <2>2
  <2>4. \A i \in DOMAIN todo' : ~(i <= 0) BY <2>2
  <2> QED BY <2>3, <2>4
<1>4. CASE WalkFolder /\ d \notin markers
  <2> DEFINE s == IF Depth(d) >= maxDepth THEN <<>> ELSE Sorted(Children(d))
             t == Tail(todo)
  <2>1. todo' = s \o t BY <1>4 DEF WalkFolder
  <2>2. Children(d) \in SUBSET Dirs BY DEF Children
  <2>3. /\ s \in Seq(Children(d)) /\ s \in Seq(Dirs)
        /\ \A i, j \in DOMAIN s : i # j => s[i] # s[j]
    BY <2>2, SortedFacts, SeqMonotonic
  <2>4. Len(s) \in Nat /\ Len(t) \in Nat /\ DOMAIN todo' = 1..(Len(s) + Len(t))
    BY <1>2, <2>1, <2>3, ConcatProperties
  <2>5. ASSUME NEW i \in DOMAIN todo', i <= Len(s)
        PROVE  i \in DOMAIN s /\ todo'[i] = s[i] /\ s[i] \in Children(d)
    <3>1. i \in DOMAIN s /\ todo'[i] = s[i] BY <1>2, <2>1, <2>3, <2>4, <2>5, ConcatProperties
    <3> QED BY <2>3, <3>1
  <2>6. ASSUME NEW i \in DOMAIN todo', i > Len(s)
        PROVE  i - Len(s) + 1 \in DOMAIN todo /\ i - Len(s) + 1 # 1 /\ todo'[i] = todo[i - Len(s) + 1]
    <3>1. i - Len(s) \in DOMAIN t /\ todo'[i] = t[i - Len(s)]
      BY <1>2, <2>1, <2>3, <2>4, <2>6, ConcatProperties
    <3> HIDE DEF s
    <3> QED BY <1>2, <3>1
  <2>7. \A i, j \in DOMAIN todo' : i <= Len(s) /\ j <= Len(s) /\ i # j => todo'[i] # todo'[j]
    BY <2>3, <2>5
  <2> HIDE DEF s
  <2> QED BY <1>2, <2>4, <2>5, <2>6, <2>7
<1> QED BY <1>3, <1>4

LEMMA WalkFolderApart ==
  ASSUME TypeOK, TodoApart, WalkFolder \/ ReadDirFails
  PROVE  TodoApart' /\ ToRead' \subseteq ToRead /\ Head(todo) \in ToRead \ ToRead'
<1> DEFINE d == todo[1]
<1>0. todo \in Seq(Dirs) /\ todo # <<>> BY DEF TypeOK, WalkFolder, ReadDirFails
<1>1. /\ todo \in Seq(Dirs) /\ todo # <<>> /\ 1 \in DOMAIN todo /\ d \in Dirs /\ Head(todo) = d
      /\ \A i \in DOMAIN todo : todo[i] \in Dirs
  BY <1>0
<1>2. PICK n \in Nat :
        /\ \A i \in DOMAIN todo' : i <= n => todo'[i] \in Children(d)
        /\ \A i, j \in DOMAIN todo' : i <= n /\ j <= n /\ i # j => todo'[i] # todo'[j]
        /\ \A i \in DOMAIN todo' : i > n => i - n + 1 \in DOMAIN todo /\ i - n + 1 # 1 /\ todo'[i] = todo[i - n + 1]
  BY WalkFolderTodo
<1>3. \A i \in DOMAIN todo' : i \in Nat
  <2>1. todo' \in Seq(Dirs) BY WalkFolderType
  <2> QED BY <2>1
<1>4. \A i \in DOMAIN todo : i # 1 => ~Covers(d, todo[i]) /\ ~Covers(todo[i], d) BY <1>1 DEF TodoApart
<1>5. ASSUME NEW i \in DOMAIN todo', NEW j \in DOMAIN todo', i # j PROVE ~Covers(todo'[i], todo'[j])
  <2>0. i \in Nat /\ j \in Nat BY <1>3
  <2>1. CASE i <= n /\ j <= n BY <1>1, <1>2, <1>5, <2>1, ChildrenApart
  <2>2. CASE i <= n /\ j > n
    <3>1. todo'[i] \in Children(d) /\ todo'[j] \in Dirs /\ ~Covers(d, todo'[j]) BY <1>1, <1>2, <1>4, <2>2
    <3> QED BY <1>1, <3>1, ChildrenApart
  <2>3. CASE i > n /\ j <= n
    <3>1. todo'[j] \in Children(d) /\ todo'[i] \in Dirs /\ ~Covers(d, todo'[i]) /\ ~Covers(todo'[i], d)
      BY <1>1, <1>2, <1>4, <2>3
    <3> QED BY <1>1, <3>1, ChildrenApart
  <2>4. CASE i > n /\ j > n
    <3>1. i - n + 1 # j - n + 1 BY <1>5, <2>0
    <3>2. /\ i - n + 1 \in DOMAIN todo /\ todo'[i] = todo[i - n + 1]
          /\ j - n + 1 \in DOMAIN todo /\ todo'[j] = todo[j - n + 1]
      BY <1>2, <2>4
    <3> QED BY <3>1, <3>2 DEF TodoApart
  <2> QED BY <2>0, <2>1, <2>2, <2>3, <2>4
<1>6. ASSUME NEW k \in Dirs, NEW i \in DOMAIN todo', Covers(todo'[i], k) PROVE Ahead(k) /\ k # d
  <2>0. i \in Nat BY <1>3
  <2>1. CASE i <= n
    <3>1. todo'[i] \in Children(d) BY <1>2, <2>1
    <3>2. Covers(d, k) BY <1>1, <1>6, <3>1, ChildrenApart
    <3> QED BY <1>1, <1>6, <3>1, <3>2, ChildrenApart DEF Ahead
  <2>2. CASE i > n
    <3>1. i - n + 1 \in DOMAIN todo /\ i - n + 1 # 1 /\ todo'[i] = todo[i - n + 1] BY <1>2, <2>2
    <3> QED BY <1>4, <1>6, <3>1 DEF Ahead
  <2> QED BY <2>0, <2>1, <2>2
<1>7. \A k \in Dirs : Ahead(k)' => Ahead(k) /\ k # d BY <1>6 DEF Ahead
<1>8. Ahead(d) BY <1>1 DEF Ahead, Covers
<1>9. TodoApart' BY <1>5 DEF TodoApart
<1>10. ToRead' = {k \in Dirs : Ahead(k)'} BY DEF ToRead
<1> QED BY <1>1, <1>7, <1>8, <1>9, <1>10 DEF ToRead

\* Only a folder that is read, or cannot be, leaves the folders to read; a walk starts with the root.
LEMMA OthersKeepTodo ==
  ASSUME Next, ~WalkFolder, ~ReadDirFails
  PROVE  todo' = todo \/ todo' = <<Root>> \/ todo' = <<>>
BY DEF Next, Walk, FinishWalk, Request, RequestList, ReadList, AnswerList, Edit, jobChanged, SaveMarker,
       DeleteMarker, ChangeByHand, Restart, UpdateSettings, NewService, StartWalk, walk

LEMMA TodoAlwaysApart == Spec => []TodoApart
<1>1. Init => TodoApart BY DEF Init, TodoApart
<1>2. TypeOK /\ TodoApart /\ [Next]_vars => TodoApart'
  <2>1. ASSUME todo' = <<Root>> \/ todo' = <<>> PROVE TodoApart'
    <3>1. \A i, j \in DOMAIN todo' : i = j BY <2>1
    <3> QED BY <3>1 DEF TodoApart
  <2>2. ASSUME TodoApart, todo' = todo PROVE TodoApart' BY <2>2 DEF TodoApart
  <2> QED BY <2>1, <2>2, WalkFolderApart, OthersKeepTodo DEF vars, walk
<1> QED BY <1>1, <1>2, TypeCorrect, PTL DEF Spec

\* A walk reads no folder twice, whatever markers come and go meanwhile, and starts over only when
\* SaveJob or DeleteJob told it of a change, which it then forgets: with the weak fairness of the
\* walk and finitely many changes this is why it ends (WalksEnd; runWalks, walkJobDirectories).
THEOREM WalksShorten == Spec => [][WalkShortens]_vars
<1>1. TypeOK /\ TodoApart /\ [Next]_vars => [WalkShortens]_vars
  <2>1. ASSUME TypeOK, TodoApart, WalkFolder \/ ReadDirFails PROVE WalkShortens
    BY <2>1, WalkFolderApart DEF WalkShortens
  <2>2. ASSUME FinishWalk PROVE WalkShortens
    BY <2>2 DEF FinishWalk, RepeatWalk, WalkShortens
  <2>3. ASSUME Request \/ Edit \/ (\E d \in Dirs : ChangeByHand(d)), ~Walk PROVE WalkShortens
    BY <2>3 DEF Request, RequestList, ReadList, AnswerList, Edit, jobChanged, SaveMarker, DeleteMarker,
                ChangeByHand, StartWalk, walk, WalkShortens
  <2>4. ASSUME Restart \/ UpdateSettings PROVE WalkShortens
    BY <2>4 DEF UpdateSettings, NewService, WalkShortens
  <2> QED BY <2>1, <2>2, <2>3, <2>4 DEF Next, Walk
<1> QED BY <1>1, TypeCorrect, TodoAlwaysApart, PTL DEF Spec
=============================================================================
