-------------------------- MODULE PlanMakingProofs --------------------------
(***************************************************************************)
(* Proofs about PlanMaking for any set of names, any contents and any      *)
(* number of changes: the types, that what `stable` returns is the source  *)
(* as it was at one moment, and that a plan has room in its target for     *)
(* what nobody touched, whatever changed beside it.                        *)
(*                                                                         *)
(* The second needs to know, of a walk that lists one directory after the  *)
(* other, what an unlisted path tells: it was absent at some moment since  *)
(* the walk began, or a directory above it is still to be listed.          *)
(* The last needs the other half: a node nobody touched stands under       *)
(* directories nobody touched, so every walk comes to it (LayoutOK).       *)
(***************************************************************************)
EXTENDS PlanMaking, SequenceTheorems, TLAPS

\* d is a directory above n.
Within(d, n) == Len(d) < Len(n) /\ SubSeq(n, 1, Len(d)) = d
Pending(n) == \E d \in dirs : Within(d, n)

Fresh == dirs = {Root}

\* The first collection: a name it has passed is as it found it, or was changed.
FirstOK ==
  /\ pc = "walk first" =>
       /\ first = None
       /\ \A n \in Names : Pending(n) \/ seen[n] = "file" \/ FileAt(source, n) = Absent \/ n \in early
  /\ pc = "read first" =>
       Fresh /\ \A n \in Names : n \in todo \/ first[n] = FileAt(source, n) \/ n \in early

\* The second, compared with the source in between.
SecondOK ==
  /\ pc \in {"walk first", "read first", "walk second"} => second = None
  /\ pc \in {"walk second", "read second"} =>
       \A n \in Names : /\ first[n] = mid[n] \/ n \in early
                        /\ FileAt(source, n) = mid[n] \/ n \in late
  /\ pc = "walk second" =>
       \A n \in Names : Pending(n) \/ seen[n] = "file" \/ mid[n] = Absent \/ n \in late
  /\ pc = "read second" =>
       \A n \in Names : n \in todo \/ second[n] = mid[n] \/ n \in late

IInv == TypeOK /\ FirstOK /\ SecondOK /\ StableIsSnapshot

-----------------------------------------------------------------------------
(* Paths and walks *)

\* The beginning of a sequence, and the beginning of that.
LEMMA Beginnings ==
  ASSUME NEW S, NEW n \in Seq(S), NEW k \in Nat, k < Len(n)
  PROVE  /\ SubSeq(n, 1, k + 1) \in Seq(S)
         /\ Len(SubSeq(n, 1, k + 1)) = k + 1
         /\ SubSeq(SubSeq(n, 1, k + 1), 1, k) = SubSeq(n, 1, k)
<1>1. Len(n) \in Nat
  OBVIOUS
<1>2. \A i \in 1..(k + 1) : n[i] \in S
  BY <1>1, ElementOfSeq
<1> DEFINE m == SubSeq(n, 1, k + 1)
<1>3. m \in Seq(S) /\ Len(m) = k + 1 /\ \A i \in 1..(k + 1) : m[i] = n[i]
  BY <1>1, <1>2, SubSeqProperties
<1> HIDE DEF m
<1>4. \A i \in 1..k : m[i] \in S /\ n[i] \in S
  BY <1>2, <1>3
<1>5. /\ SubSeq(m, 1, k) \in Seq(S) /\ SubSeq(n, 1, k) \in Seq(S)
      /\ Len(SubSeq(m, 1, k)) = Len(SubSeq(n, 1, k))
      /\ \A i \in 1..k : SubSeq(m, 1, k)[i] = m[i] /\ SubSeq(n, 1, k)[i] = n[i]
      /\ Len(SubSeq(n, 1, k)) = k
  BY <1>1, <1>3, <1>4, SubSeqProperties
<1>6. SubSeq(m, 1, k) = SubSeq(n, 1, k)
  BY <1>3, <1>5, SeqEqual
<1> QED
  BY <1>3, <1>6 DEF m

\* Every name lies under the root.
LEMMA UnderRoot ==
  ASSUME NEW n \in Names
  PROVE  Within(Root, n)
<1>1. n \in Seq(DOMAIN Lower) /\ n # <<>>
  BY NamesAssumption DEF Root
<1>2. Len(n) \in Nat /\ Len(n) # 0 /\ SubSeq(n, 1, 0) = <<>>
  BY <1>1, EmptySeq
<1> QED
  BY <1>2 DEF Within, Root

\* A name under d is listed with d, or lies under a name listed with d, which
\* is a directory if there is anything at the name.
LEMMA ListedOrBelow ==
  ASSUME NEW t \in Trees, NEW d \in Names \cup {Root}, NEW n \in Names, Within(d, n), n \notin Below(d)
  PROVE  \E c \in Below(d) : Within(c, n) /\ (t[n] # Absent => t[c] = Dir)
<1> DEFINE k == Len(d)
           c == SubSeq(n, 1, k + 1)
<1>1. n \in Seq(DOMAIN Lower) /\ d \in Seq(DOMAIN Lower) /\ Above(n) \subseteq Names
  BY NamesAssumption, EmptySeq DEF Root
<1>2. k \in Nat /\ Len(n) \in Nat /\ k < Len(n) /\ SubSeq(n, 1, k) = d
  BY <1>1 DEF Within
<1>3. Len(n) # k + 1
  BY <1>2 DEF Below
<1>4. k + 1 \in 1..(Len(n) - 1) /\ k + 1 < Len(n)
  BY <1>2, <1>3
<1>5. c \in Above(n)
  BY <1>4 DEF Above
<1>6. Len(c) = k + 1 /\ SubSeq(c, 1, k) = d
  BY <1>1, <1>2, Beginnings
<1>7. c \in Below(d)
  BY <1>1, <1>5, <1>6 DEF Below
<1>8. Within(c, n)
  BY <1>4, <1>6 DEF Within
<1>9. t[n] # Absent => t[c] = Dir
  BY <1>5 DEF Trees
<1> QED
  BY <1>7, <1>8, <1>9

\* Names listed with a directory lie under it.
LEMMA BelowWithin ==
  ASSUME NEW d \in Names \cup {Root}, NEW n \in Below(d)
  PROVE  n \in Names /\ Within(d, n)
<1>1. n \in Names /\ Len(n) = Len(d) + 1 /\ SubSeq(n, 1, Len(d)) = d /\ d \in Seq(DOMAIN Lower)
  BY NamesAssumption, EmptySeq DEF Below, Root
<1> QED
  BY <1>1 DEF Within

\* What listing one directory of a tree leaves unknown of a name.
LEMMA ListDirEffect ==
  ASSUME TypeOK, NEW t \in Trees, NEW d \in dirs,
         seen' = [m \in Names |-> IF m \in Below(d) THEN Kind(t[m]) ELSE seen[m]],
         dirs' = (dirs \ {d}) \cup {m \in Below(d) : t[m] = Dir},
         NEW n \in Names, Pending(n) \/ seen[n] = "file"
  PROVE  Pending(n)' \/ seen'[n] = "file" \/ FileAt(t, n) = Absent
<1>1. d \in Names \cup {Root}
  BY DEF TypeOK
<1>2. CASE n \in Below(d)
  BY <1>2 DEF Kind, FileAt
<1>3. CASE n \notin Below(d) /\ Within(d, n)
  <2>1. PICK c \in Below(d) : Within(c, n) /\ (t[n] # Absent => t[c] = Dir)
    BY <1>1, <1>3, ListedOrBelow
  <2>2. CASE t[c] = Dir
    BY <2>1, <2>2 DEF Pending
  <2>3. CASE t[n] = Absent
    BY <2>3 DEF FileAt
  <2> QED
    BY <2>1, <2>2, <2>3
<1>4. CASE n \notin Below(d) /\ ~Within(d, n)
  BY <1>4 DEF Pending
<1> QED
  BY <1>2, <1>3, <1>4

-----------------------------------------------------------------------------
(* The inductive invariant *)

\* Directories and absent paths are no file.
LEMMA FileAtType ==
  ASSUME NEW t \in Trees, NEW n \in Names
  PROVE  FileAt(t, n) \in Contents \cup {Absent}
  BY DEF FileAt, Trees, Node

\* The invariant holds at the start.
LEMMA InitInv == Init => IInv
<1> SUFFICES ASSUME Init PROVE IInv
  OBVIOUS
<1>1. TypeOK
  BY DEF Init, TypeOK, None, NoKinds, Manifest
<1>2. FirstOK
  BY UnderRoot DEF Init, FirstOK, Pending
<1> QED
  BY <1>1, <1>2 DEF Init, IInv, SecondOK, StableIsSnapshot

\* Every step keeps the types.
LEMMA TypeStep ==
  ASSUME TypeOK, Next
  PROVE  TypeOK'
<1>n. edits \in Nat
  BY DEF TypeOK
<1>m. edits + 1 \in Nat
  BY <1>n
<1> USE DEF TypeOK, trees, walk, history
<1>0. Trees \subseteq [Names -> Node] /\ None \in Manifest /\ NoKinds \in [Names -> {"none", "dir", "file"}]
  BY DEF Trees, None, Manifest, NoKinds
<1>1. ASSUME NEW n \in Names, NEW v \in Node, ChangeSource(n, v) \/ ChangeTarget(n, v)
      PROVE  TypeOK'
  <2>1. CASE ChangeSource(n, v)
    <3>1. edits' = edits + 1 /\ source' \in Trees /\ early' \subseteq Names /\ late' \subseteq Names
      BY <2>1, Zenon DEF ChangeSource
    <3>4. moved' \in [source : SUBSET Names, target : SUBSET Names]
      BY <2>1 DEF ChangeSource
    <3>2. edits' \in Nat
      BY <3>1, <1>m, Zenon
    <3>3. UNCHANGED <<target, pc, dirs, seen, todo, first, second, held, noted, mid>>
      BY <2>1, Zenon DEF ChangeSource
    <3> QED
      BY <3>1, <3>2, <3>3, <3>4, Zenon
  <2>2. CASE ChangeTarget(n, v)
    <3>1. edits' = edits + 1 /\ target' \in Trees
      BY <2>2, Zenon DEF ChangeTarget
    <3>4. moved' \in [source : SUBSET Names, target : SUBSET Names]
      BY <2>2 DEF ChangeTarget
    <3>2. edits' \in Nat
      BY <3>1, <1>m, Zenon
    <3>3. UNCHANGED <<source, pc, dirs, seen, todo, first, second, held, noted, mid, early, late>>
      BY <2>2, Zenon DEF ChangeTarget
    <3> QED
      BY <3>1, <3>2, <3>3, <3>4, Zenon
  <2> QED
    BY <1>1, <2>1, <2>2
<1>2. ASSUME NEW d \in dirs, ListDir(d)
      PROVE  TypeOK'
  BY <1>2 DEF ListDir, Below, Kind
<1>3. CASE ListFirst \/ ListSecond \/ ListTarget
  BY <1>0, <1>3 DEF ListFirst, ListSecond, ListTarget, Walked, Regular
<1>4. CASE Settle
  <2>1. mid' \in Manifest
    BY <1>4, FileAtType DEF Settle, Manifest
  <2> QED
    BY <1>4, <2>1 DEF Settle
<1>5. CASE Stable \/ Held \/ WritePlan
  BY <1>5 DEF Stable, Held, WritePlan
<1>6. CASE NoteLayout \/ CompareLayouts
  BY <1>0, <1>6 DEF NoteLayout, CompareLayouts, Walked, Files
<1>7. ASSUME NEW n \in Names, ReadFirst(n) \/ ReadSecond(n) \/ ReadTarget(n) \/ LookAgain(n)
      PROVE  TypeOK'
  <2>1. CASE ReadFirst(n)
    BY <2>1 DEF ReadFirst, Manifest
  <2>2. CASE ReadSecond(n)
    BY <2>2 DEF ReadSecond, Manifest
  <2>3. CASE ReadTarget(n)
    BY <2>3 DEF ReadTarget, Manifest
  <2>4. CASE LookAgain(n)
    BY <2>4 DEF LookAgain
  <2> QED
    BY <1>7, <2>1, <2>2, <2>3, <2>4
<1> QED
  BY <1>1, <1>2, <1>3, <1>4, <1>5, <1>6, <1>7 DEF Next

\* A change of the source is a change of the name it is about.
LEMMA SourceStep ==
  ASSUME IInv, NEW n \in Names, NEW v \in Node, ChangeSource(n, v)
  PROVE  FirstOK' /\ SecondOK' /\ StableIsSnapshot'
<1>1. /\ \A m \in Names : m # n => FileAt(source, m)' = FileAt(source, m)
      /\ \A m : Pending(m)' <=> Pending(m)
      /\ UNCHANGED <<pc, dirs, seen, todo, first, second, mid>>
      /\ pc \in {"walk first", "read first"} => early' = early \cup {n}
      /\ pc \notin {"walk first", "read first"} => early' = early
      /\ pc \in {"walk second", "read second"} => late' = late \cup {n}
      /\ pc \notin {"walk second", "read second"} => late' = late
  BY DEF IInv, TypeOK, Trees, ChangeSource, FileAt, Pending, walk
<1>2. FirstOK'
  BY <1>1 DEF IInv, FirstOK, Fresh
<1>3. SecondOK'
  BY <1>1 DEF IInv, SecondOK
<1>4. StableIsSnapshot'
  BY <1>1 DEF IInv, StableIsSnapshot
<1> QED
  BY <1>2, <1>3, <1>4

\* Listing a directory leaves no path unaccounted for.
LEMMA WalkStep ==
  ASSUME IInv, NEW d \in dirs, ListDir(d)
  PROVE  FirstOK' /\ SecondOK' /\ StableIsSnapshot'
<1>1. UNCHANGED <<pc, source, todo, first, second, mid, early, late>>
  BY DEF ListDir, trees, history
<1>2. ASSUME pc \in {"walk first", "walk second"}, NEW n \in Names, Pending(n) \/ seen[n] = "file"
      PROVE  Pending(n)' \/ seen'[n] = "file" \/ FileAt(source, n) = Absent
  BY <1>2, ListDirEffect DEF ListDir, IInv, TypeOK
<1>3. FirstOK'
  BY <1>1, <1>2 DEF IInv, FirstOK, FileAt, ListDir
<1>4. ASSUME pc = "walk second", NEW n \in Names
      PROVE  Pending(n)' \/ seen'[n] = "file" \/ mid[n] = Absent \/ n \in late
  BY <1>2, <1>4 DEF IInv, SecondOK
<1>5. SecondOK'
  BY <1>1, <1>4 DEF IInv, SecondOK, FileAt, ListDir
<1> QED
  BY <1>1, <1>3, <1>5 DEF IInv, StableIsSnapshot

\* The steps of the two collections of the source.
LEMMA StableStep ==
  ASSUME IInv, \/ ListFirst \/ Settle \/ ListSecond \/ Stable
               \/ \E n \in Names : ReadFirst(n) \/ ReadSecond(n)
  PROVE  FirstOK' /\ SecondOK' /\ StableIsSnapshot'
<1> USE DEF IInv, FirstOK, SecondOK, StableIsSnapshot, trees, history, walk, Fresh
<1>1. CASE ListFirst
  <2>1. \A n \in Names : ~Pending(n) /\ first[n] = Absent /\ (seen[n] = "file" => n \in todo')
    BY <1>1 DEF ListFirst, Walked, Pending, Regular, None
  <2>2. UNCHANGED <<source, first, second, mid, early, late>> /\ pc = "walk first" /\ pc' = "read first" /\ Fresh'
    BY <1>1 DEF ListFirst, Walked
  <2> QED
    BY <2>1, <2>2 DEF FileAt
<1>2. CASE Settle
  <2>1. /\ pc = "read first" /\ pc' = "walk second" /\ todo = {}
        /\ UNCHANGED <<source, first, second, early, late, dirs, seen>>
        /\ \A n \in Names : mid'[n] = FileAt(source, n)
    BY <1>2 DEF Settle
  <2>2. \A n \in Names : Pending(n)'
    BY <2>1, UnderRoot DEF Pending
  <2> QED
    BY <2>1, <2>2 DEF FileAt
<1>3. CASE ListSecond
  <2>1. \A n \in Names : ~Pending(n) /\ second[n] = Absent /\ (seen[n] = "file" => n \in todo')
    BY <1>3 DEF ListSecond, Walked, Pending, Regular, None
  <2>2. UNCHANGED <<source, first, second, mid, early, late>> /\ pc = "walk second" /\ pc' = "read second"
    BY <1>3 DEF ListSecond, Walked
  <2> QED
    BY <2>1, <2>2 DEF FileAt
<1>4. CASE Stable
  BY <1>4 DEF Stable
<1>5. ASSUME NEW n \in Names, ReadFirst(n)
      PROVE  FirstOK' /\ SecondOK' /\ StableIsSnapshot'
  <2>1. /\ pc = "read first" /\ pc' = pc /\ todo' = todo \ {n} /\ source[n] \in Contents
        /\ first' = [first EXCEPT ![n] = source[n]]
        /\ UNCHANGED <<source, second, mid, early, late, dirs, seen>>
    BY <1>5 DEF ReadFirst
  <2>2. first'[n] = FileAt(source, n) /\ \A m \in Names : m # n => first'[m] = first[m]
    BY <2>1, KindsAssumption DEF FileAt, TypeOK, Manifest
  <2> QED
    BY <2>1, <2>2 DEF FileAt
<1>6. ASSUME NEW n \in Names, ReadSecond(n)
      PROVE  FirstOK' /\ SecondOK' /\ StableIsSnapshot'
  <2>1. /\ pc = "read second" /\ pc' = pc /\ todo' = todo \ {n} /\ source[n] \in Contents
        /\ second' = [second EXCEPT ![n] = source[n]]
        /\ UNCHANGED <<source, first, mid, early, late, dirs, seen>>
    BY <1>6 DEF ReadSecond
  <2>2. second'[n] = FileAt(source, n) /\ \A m \in Names : m # n => second'[m] = second[m]
    BY <2>1, KindsAssumption DEF FileAt, TypeOK, Manifest
  <2> QED
    BY <2>1, <2>2 DEF FileAt
<1> QED
  BY <1>1, <1>2, <1>3, <1>4, <1>5, <1>6

\* The invariant is inductive.
LEMMA StepInv == IInv /\ [Next]_vars => IInv'
<1> SUFFICES ASSUME IInv, [Next]_vars PROVE IInv'
  OBVIOUS
<1>1. CASE Next
  <2>1. TypeOK'
    BY <1>1, TypeStep DEF IInv
  <2>2. ASSUME NEW n \in Names, NEW v \in Node, ChangeTarget(n, v)
        PROVE  FirstOK' /\ SecondOK' /\ StableIsSnapshot'
    BY <2>2 DEF ChangeTarget, IInv, FirstOK, SecondOK, StableIsSnapshot, Fresh, Pending, FileAt, walk, history
  <2>3. CASE \/ ListTarget \/ Held \/ NoteLayout \/ CompareLayouts \/ WritePlan
             \/ \E n \in Names : ReadTarget(n) \/ LookAgain(n)
    <3>1. /\ pc \in {"walk target", "read target", "walk source again", "walk target again", "look again"}
          /\ pc' \in {"read target", "walk source again", "walk target again", "look again", "planned"}
          /\ UNCHANGED <<second, mid, early, late>>
      BY <2>3 DEF ListTarget, Held, NoteLayout, CompareLayouts, WritePlan, ReadTarget, LookAgain, Walked, history
    <3>2. FirstOK' /\ SecondOK'
      BY <3>1 DEF FirstOK, SecondOK
    <3>3. \A n \in Names : second[n] = mid[n] \/ n \in early \cap late
      BY <3>1 DEF IInv, StableIsSnapshot
    <3>4. \A n \in Names : second'[n] = mid'[n] \/ n \in early' \cap late'
      BY <3>1, <3>3, Zenon
    <3>5. StableIsSnapshot'
      BY <3>4 DEF StableIsSnapshot
    <3> QED
      BY <2>1, <3>2, <3>5 DEF IInv
  <2> QED
    BY <1>1, <2>1, <2>2, <2>3, SourceStep, WalkStep, StableStep DEF Next, IInv
<1>2. CASE UNCHANGED vars
  BY <1>2 DEF vars, IInv, TypeOK, FirstOK, SecondOK, StableIsSnapshot, Fresh, Pending, FileAt
<1> QED
  BY <1>1, <1>2

\* Hence it holds of every behaviour.
LEMMA Invariance == Spec => []IInv
  BY InitInv, StepInv, PTL DEF Spec

-----------------------------------------------------------------------------
\* Collections hold contents only, whatever the trees turn into between the
\* walk that lists a file and the read of it (main.rs, layout and fingerprint).
THEOREM TypeCorrect == Spec => []TypeOK
  BY Invariance, PTL DEF IInv

\* Two equal collections are a snapshot: `stable` (main.rs) returns the source
\* as it was at one moment, except for a name that changed before and after it.
THEOREM SnapshotTaken == Spec => []StableIsSnapshot
  BY Invariance, PTL DEF IInv

-----------------------------------------------------------------------------
(* The layouts that are compared *)

\* The nodes of a tree that nobody touched.
Still(t, touched) == {n \in Names : t[n] # Absent} \ touched
StillSource == Still(source, moved.source)
StillTarget == Still(target, moved.target)

\* A walk of t knows the kind of each of these nodes, or has not come to it yet.
Walking(t, S) == \A n \in S : seen[n] = Kind(t[n]) \/ Pending(n)

\* Nobody touched the directories above a file that nobody touched; a walk comes to it; and
\* the layouts agree about what nobody touched.
LayoutOK ==
  /\ \A n \in StillSource : Above(n) \cap moved.source = {}
  /\ pc = "read target" => Fresh
  /\ \A n \in Files(second) \ moved.source : second[n] = source[n]
  /\ pc = "walk source again" => Walking(source, StillSource)
  /\ pc = "walk target again" =>
       /\ Walking(target, StillTarget)
       /\ \A n \in StillSource : noted[n] = Kind(source[n])
  /\ pc \in {"look again", "planned"} =>
       \A m \in StillSource, n \in StillTarget :
         Fold(m) = Fold(n) => m = n /\ Kind(source[m]) = Kind(target[n])

\* A walk that begins has come to no node.
LEMMA WalkBegins ==
  ASSUME Fresh, NEW t, NEW S \in SUBSET Names
  PROVE  Walking(t, S)
  BY UnderRoot DEF Walking, Pending, Fresh

\* A walk that is over knows every node.
LEMMA WalkEnds ==
  ASSUME NEW t, NEW S, Walking(t, S), dirs = {}
  PROVE  \A n \in S : seen[n] = Kind(t[n])
  BY DEF Walking, Pending

\* Listing one directory of the tree as it is keeps the walk.
LEMMA WalkGoesOn ==
  ASSUME TypeOK, NEW t \in Trees, NEW S \in SUBSET {n \in Names : t[n] # Absent}, Walking(t, S), NEW d \in dirs,
         seen' = [m \in Names |-> IF m \in Below(d) THEN Kind(t[m]) ELSE seen[m]],
         dirs' = (dirs \ {d}) \cup {m \in Below(d) : t[m] = Dir}
  PROVE  \A n \in S : seen'[n] = Kind(t[n]) \/ Pending(n)'
<1> SUFFICES ASSUME NEW n \in S
             PROVE  seen'[n] = Kind(t[n]) \/ Pending(n)'
  OBVIOUS
<1>1. d \in Names \cup {Root} /\ n \in Names /\ t[n] # Absent
  BY DEF TypeOK
<1>2. CASE n \in Below(d) \/ seen[n] = Kind(t[n])
  BY <1>1, <1>2
<1>3. CASE n \notin Below(d) /\ Pending(n)
  <2>1. CASE Within(d, n)
    <3>1. PICK c \in Below(d) : Within(c, n) /\ t[c] = Dir
      BY <1>1, <1>3, <2>1, ListedOrBelow
    <3> QED
      BY <3>1 DEF Pending
  <2>2. CASE ~Within(d, n)
    BY <1>3, <2>2 DEF Pending
  <2> QED
    BY <2>1, <2>2
<1> QED
  BY <1>2, <1>3 DEF Walking

\* A change keeps what is known of the nodes it does not touch.
LEMMA LayoutChange ==
  ASSUME TypeOK, LayoutOK, NEW k \in Names, NEW v \in Node, ChangeSource(k, v) \/ ChangeTarget(k, v)
  PROVE  LayoutOK'
<1>1. /\ UNCHANGED <<pc, dirs, seen, second, noted>>
      /\ source \in Trees /\ target \in Trees
      /\ moved \in [source : SUBSET Names, target : SUBSET Names]
  BY DEF ChangeSource, ChangeTarget, walk, TypeOK
<1>2. Fresh' <=> Fresh
  BY <1>1 DEF Fresh
<1>3. \A n : Pending(n)' <=> Pending(n)
  BY <1>1 DEF Pending
<1>4. Files(second)' = Files(second)
  BY <1>1 DEF Files, FileAt
<1>5. CASE ChangeSource(k, v)
  <2>1. /\ v # source[k] /\ source' = [source EXCEPT ![k] = v] /\ source' \in Trees
        /\ moved'.source = moved.source \cup {k} /\ moved'.target = moved.target /\ target' = target
    BY <1>1, <1>5 DEF ChangeSource
  <2>2. /\ Still(source', moved'.source) \subseteq Still(source, moved.source) \ {k}
        /\ \A n \in Names \ {k} : source'[n] = source[n]
    <3>1. \A n \in Names \ {k} : source'[n] = source[n]
      BY <1>1, <2>1 DEF Trees
    <3>2. Still(source', moved'.source) = {n \in Names : source'[n] # Absent} \ (moved.source \cup {k})
      BY <2>1 DEF Still
    <3> QED BY <3>1, <3>2 DEF Still
  <2>13. ASSUME NEW n \in Still(source', moved'.source) PROVE k \notin Above(n)
    <3>1. n \in Names /\ n # k /\ source'[n] # Absent /\ source[n] # Absent
      BY <2>1, <2>2, <2>13 DEF Still
    <3>2. k \in Above(n) => source'[k] = Dir /\ source[k] = Dir
      BY <1>1, <2>1, <3>1 DEF Trees
    <3>3. source'[k] = v
      BY <1>1, <2>1 DEF Trees
    <3> QED BY <2>1, <3>2, <3>3
  <2>3. StillSource' = Still(source', moved'.source) /\ StillSource = Still(source, moved.source)
    BY DEF StillSource, Still
  <2>4. /\ \A n \in StillSource' : n \in StillSource /\ n \in Names /\ n # k /\ source'[n] = source[n]
        /\ \A n \in StillSource' : k \notin Above(n)
    BY <2>2, <2>3, <2>13 DEF Still
  <2>5. StillTarget' = StillTarget
    BY <2>1 DEF StillTarget, Still
  <2>6. \A n \in StillSource' : Above(n) \cap moved'.source = {}
    <3>1. \A n \in StillSource : Above(n) \cap moved.source = {}
      BY DEF LayoutOK
    <3> QED BY <2>1, <2>4, <3>1
  <2>7. \A n \in Files(second)' \ moved'.source : second'[n] = source'[n]
    <3>1. \A n \in Files(second) \ moved.source : second[n] = source[n] /\ n \in Names
      BY DEF LayoutOK, Files
    <3> QED BY <1>1, <1>4, <2>1, <2>2, <3>1
  <2>8. pc = "walk source again" => Walking(source, StillSource)'
    <3>1. pc = "walk source again" => \A n \in StillSource : seen[n] = Kind(source[n]) \/ Pending(n)
      BY DEF LayoutOK, Walking
    <3> QED BY <1>1, <1>3, <2>4, <3>1 DEF Walking
  <2>9. pc = "walk target again" => Walking(target, StillTarget)'
    <3>1. pc = "walk target again" => \A n \in StillTarget : seen[n] = Kind(target[n]) \/ Pending(n)
      BY DEF LayoutOK, Walking
    <3> QED BY <1>1, <1>3, <2>1, <2>5, <3>1 DEF Walking
  <2>10. pc = "walk target again" => \A n \in StillSource' : noted'[n] = Kind(source'[n])
    <3>1. pc = "walk target again" => \A n \in StillSource : noted[n] = Kind(source[n])
      BY DEF LayoutOK
    <3> QED BY <1>1, <2>4, <3>1
  <2>11. ASSUME pc \in {"look again", "planned"}, NEW m \in StillSource', NEW n \in StillTarget',
                Fold(m) = Fold(n)
         PROVE  m = n /\ Kind(source'[m]) = Kind(target'[n])
    <3>1. m \in StillSource /\ n \in StillTarget /\ source'[m] = source[m] /\ target'[n] = target[n]
      BY <2>1, <2>4, <2>5
    <3>2. m = n /\ Kind(source[m]) = Kind(target[n])
      BY <2>11, <3>1 DEF LayoutOK
    <3>3. Kind(source'[m]) = Kind(source[m]) /\ Kind(target'[n]) = Kind(target[n])
      BY <3>1 DEF Kind
    <3> QED BY <3>2, <3>3
  <2>12. pc = "read target" => Fresh'
    BY <1>2 DEF LayoutOK
  <2> QED
    BY <1>1, <2>6, <2>7, <2>8, <2>9, <2>10, <2>11, <2>12 DEF LayoutOK
<1>6. CASE ChangeTarget(k, v)
  <2>1. /\ v # target[k] /\ target' = [target EXCEPT ![k] = v] /\ target' \in Trees
        /\ moved'.target = moved.target \cup {k} /\ moved'.source = moved.source /\ source' = source
    BY <1>1, <1>6 DEF ChangeTarget
  <2>2. /\ Still(target', moved'.target) \subseteq Still(target, moved.target) \ {k}
        /\ \A n \in Names \ {k} : target'[n] = target[n]
    <3>1. \A n \in Names \ {k} : target'[n] = target[n]
      BY <1>1, <2>1 DEF Trees
    <3>2. Still(target', moved'.target) = {n \in Names : target'[n] # Absent} \ (moved.target \cup {k})
      BY <2>1 DEF Still
    <3> QED BY <3>1, <3>2 DEF Still
  <2>3. StillTarget' = Still(target', moved'.target) /\ StillTarget = Still(target, moved.target)
    BY DEF StillTarget, Still
  <2>4. \A n \in StillTarget' : n \in StillTarget /\ n \in Names /\ n # k /\ target'[n] = target[n]
    BY <2>2, <2>3 DEF Still
  <2>5. StillSource' = StillSource
    BY <2>1 DEF StillSource, Still
  <2>6. /\ \A n \in StillSource' : Above(n) \cap moved'.source = {}
        /\ pc = "read target" => Fresh'
    BY <1>2, <2>1, <2>5 DEF LayoutOK
  <2>7. \A n \in Files(second)' \ moved'.source : second'[n] = source'[n]
    BY <1>1, <1>4, <2>1 DEF LayoutOK
  <2>8. pc = "walk source again" => Walking(source, StillSource)'
    <3>1. pc = "walk source again" => \A n \in StillSource : seen[n] = Kind(source[n]) \/ Pending(n)
      BY DEF LayoutOK, Walking
    <3> QED BY <1>1, <1>3, <2>1, <2>5, <3>1 DEF Walking
  <2>9. pc = "walk target again" => Walking(target, StillTarget)'
    <3>1. pc = "walk target again" => \A n \in StillTarget : seen[n] = Kind(target[n]) \/ Pending(n)
      BY DEF LayoutOK, Walking
    <3> QED BY <1>1, <1>3, <2>4, <3>1 DEF Walking
  <2>10. pc = "walk target again" => \A n \in StillSource' : noted'[n] = Kind(source'[n])
    BY <1>1, <2>1, <2>5 DEF LayoutOK
  <2>11. ASSUME pc \in {"look again", "planned"}, NEW m \in StillSource', NEW n \in StillTarget',
                Fold(m) = Fold(n)
         PROVE  m = n /\ Kind(source'[m]) = Kind(target'[n])
    <3>1. m \in StillSource /\ n \in StillTarget /\ source'[m] = source[m] /\ target'[n] = target[n]
      BY <2>1, <2>4, <2>5
    <3>2. m = n /\ Kind(source[m]) = Kind(target[n])
      BY <2>11, <3>1 DEF LayoutOK
    <3>3. Kind(source'[m]) = Kind(source[m]) /\ Kind(target'[n]) = Kind(target[n])
      BY <3>1 DEF Kind
    <3> QED BY <3>2, <3>3
  <2> QED
    BY <1>1, <2>6, <2>7, <2>8, <2>9, <2>10, <2>11 DEF LayoutOK
<1> QED
  BY <1>5, <1>6

\* Every step keeps what the compared layouts say.
LEMMA LayoutStep ==
  ASSUME TypeOK, LayoutOK, [Next]_vars
  PROVE  LayoutOK'
<1>0. /\ source \in Trees /\ target \in Trees
      /\ StillSource \in SUBSET {n \in Names : source[n] # Absent}
      /\ StillTarget \in SUBSET {n \in Names : target[n] # Absent}
  BY DEF TypeOK, StillSource, StillTarget, Still
<1>s. ASSUME UNCHANGED <<source, target, moved>>
      PROVE  StillSource' = StillSource /\ StillTarget' = StillTarget
  BY <1>s DEF StillSource, StillTarget
<1>1. ASSUME NEW n \in Names, NEW v \in Node, ChangeSource(n, v) \/ ChangeTarget(n, v)
      PROVE  LayoutOK'
  BY <1>1, LayoutChange
<1>2. ASSUME NEW d \in dirs, ListDir(d)
      PROVE  LayoutOK'
  <2>1. /\ UNCHANGED <<source, target, moved, pc, second, noted>>
        /\ pc \in {"walk first", "walk second", "walk target", "walk source again", "walk target again"}
    BY <1>2 DEF ListDir, trees, history
  <2>2. StillSource' = StillSource /\ StillTarget' = StillTarget
    BY <1>s, <2>1
  <2>3. ASSUME pc = "walk source again" PROVE Walking(source, StillSource)'
    <3>1. /\ seen' = [m \in Names |-> IF m \in Below(d) THEN Kind(source[m]) ELSE seen[m]]
          /\ dirs' = (dirs \ {d}) \cup {m \in Below(d) : source[m] = Dir}
      BY <1>2, <2>3 DEF ListDir
    <3>2. Walking(source, StillSource)
      BY <2>3 DEF LayoutOK
    <3>3. \A n \in StillSource : seen'[n] = Kind(source[n]) \/ Pending(n)'
      BY <1>0, <3>1, <3>2, WalkGoesOn
    <3> QED
      BY <2>1, <2>2, <3>3 DEF Walking
  <2>4. ASSUME pc = "walk target again" PROVE Walking(target, StillTarget)'
    <3>1. /\ seen' = [m \in Names |-> IF m \in Below(d) THEN Kind(target[m]) ELSE seen[m]]
          /\ dirs' = (dirs \ {d}) \cup {m \in Below(d) : target[m] = Dir}
      BY <1>2, <2>4 DEF ListDir
    <3>2. Walking(target, StillTarget)
      BY <2>4 DEF LayoutOK
    <3>3. \A n \in StillTarget : seen'[n] = Kind(target[n]) \/ Pending(n)'
      BY <1>0, <3>1, <3>2, WalkGoesOn
    <3> QED
      BY <2>1, <2>2, <3>3 DEF Walking
  <2> QED
    BY <2>1, <2>2, <2>3, <2>4 DEF LayoutOK, Files, FileAt
<1>3. CASE ListFirst \/ ListSecond \/ ListTarget
  <2>1. /\ UNCHANGED <<source, target, moved, second, noted>> /\ dirs' = {Root}
        /\ pc' \in {"read first", "read second", "read target"}
    BY <1>3 DEF ListFirst, ListSecond, ListTarget, Walked, trees, history
  <2> QED
    BY <1>s, <2>1 DEF LayoutOK, Fresh, Files, FileAt
<1>4. CASE Settle \/ Stable
  <2>1. /\ UNCHANGED <<source, target, moved, second, noted>>
        /\ pc' \in {"walk second", "walk target"}
    BY <1>4 DEF Settle, Stable, trees, history
  <2> QED
    BY <1>s, <2>1 DEF LayoutOK, Files, FileAt
<1>5. CASE Held
  <2>1. /\ pc = "read target" /\ pc' = "walk source again"
        /\ UNCHANGED <<source, target, moved, dirs, seen, second, noted>>
    BY <1>5 DEF Held, trees, walk, history
  <2>2. Walking(source, StillSource)
    BY <1>0, <2>1, WalkBegins DEF LayoutOK
  <2>3. Walking(source, StillSource)'
    BY <1>s, <2>1, <2>2 DEF Walking, Pending
  <2> QED
    BY <1>s, <2>1, <2>3 DEF LayoutOK, Files, FileAt
<1>6. CASE NoteLayout
  <2>1. /\ pc = "walk source again" /\ pc' = "walk target again" /\ dirs = {} /\ noted' = seen
        /\ UNCHANGED <<source, target, moved, second>> /\ dirs' = {Root}
    BY <1>6 DEF NoteLayout, Walked, trees, history
  <2>2. \A n \in StillSource : noted'[n] = Kind(source[n])
    BY <2>1, WalkEnds DEF LayoutOK
  <2>3. Walking(target, StillTarget)'
    <3>1. \A n \in StillTarget : Within(Root, n)
      BY <1>0, UnderRoot
    <3> QED
      BY <1>s, <2>1, <3>1 DEF Walking, Pending
  <2> QED
    BY <1>s, <2>1, <2>2, <2>3 DEF LayoutOK, Files, FileAt
<1>7. CASE CompareLayouts
  <2>1. /\ pc = "walk target again" /\ pc' = "look again" /\ dirs = {} /\ Compatible(noted, seen)
        /\ UNCHANGED <<source, target, moved, second>>
    BY <1>7 DEF CompareLayouts, Walked, trees, history
  <2>2. /\ \A m \in StillSource : noted[m] = Kind(source[m])
        /\ \A n \in StillTarget : seen[n] = Kind(target[n])
    BY <2>1, WalkEnds DEF LayoutOK
  <2>3. /\ StillSource \subseteq Listed(noted)
        /\ StillTarget \subseteq Listed(seen)
    BY <1>0, <2>2 DEF Listed, Kind
  <2>4. \A m \in StillSource, n \in StillTarget :
          Fold(m) = Fold(n) => m = n /\ Kind(source[m]) = Kind(target[n])
    BY <2>1, <2>2, <2>3 DEF Compatible
  <2> QED
    BY <1>s, <2>1, <2>4 DEF LayoutOK, Files, FileAt
<1>8. CASE WritePlan
  <2>1. pc = "look again" /\ pc' = "planned" /\ UNCHANGED <<source, target, moved, second, noted>>
    BY <1>8 DEF WritePlan, trees, history
  <2> QED
    BY <1>s, <2>1 DEF LayoutOK, Files, FileAt
<1>9. ASSUME NEW n \in Names, ReadFirst(n) \/ ReadTarget(n) \/ LookAgain(n)
      PROVE  LayoutOK'
  <2>1. /\ UNCHANGED <<source, target, moved, pc, dirs, seen, second, noted>>
        /\ pc \in {"read first", "read target", "look again"}
    BY <1>9 DEF ReadFirst, ReadTarget, LookAgain, trees, walk, history
  <2> QED
    BY <1>s, <2>1 DEF LayoutOK, Files, FileAt, Fresh
<1>10. ASSUME NEW n \in Names, ReadSecond(n)
       PROVE  LayoutOK'
  <2>1. /\ pc = "read second" /\ second' = [second EXCEPT ![n] = source[n]]
        /\ UNCHANGED <<source, target, moved, pc>>
    BY <1>10 DEF ReadSecond, trees, history
  <2>2. \A m \in Names : second'[m] = IF m = n THEN source[n] ELSE second[m]
    BY <2>1 DEF TypeOK, Manifest
  <2>3. \A m \in Files(second)' \ moved.source : second'[m] = source[m]
    BY <2>2 DEF LayoutOK, Files, FileAt
  <2> QED
    BY <1>s, <2>1, <2>3 DEF LayoutOK
<1>11. CASE UNCHANGED vars
  <2>1. UNCHANGED <<source, target, moved, pc, dirs, seen, second, noted>>
    BY <1>11 DEF vars
  <2> QED
    BY <1>s, <2>1 DEF LayoutOK, Files, FileAt, Fresh, Walking, Pending
<1> QED
  BY <1>1, <1>2, <1>3, <1>4, <1>5, <1>6, <1>7, <1>8, <1>9, <1>10, <1>11 DEF Next

\* Hence it holds of every behaviour.
LEMMA LayoutInvariance == Spec => [](TypeOK /\ LayoutOK)
<1>1. Init => TypeOK /\ LayoutOK
  <2> SUFFICES ASSUME Init PROVE TypeOK /\ LayoutOK
    OBVIOUS
  <2>1. TypeOK
    BY InitInv DEF IInv
  <2>2. Files(second) = {} /\ pc = "walk first" /\ moved.source = {}
    BY DEF Init, Files, FileAt, None
  <2> QED
    BY <2>1, <2>2 DEF LayoutOK
<1>2. TypeOK /\ LayoutOK /\ [Next]_vars => LayoutOK'
  BY LayoutStep
<1> QED
  BY <1>1, <1>2, TypeCorrect, PTL DEF Spec

\* Among what nobody touched, a plan has room for every file of it.
LEMMA CompatibleFits ==
  ASSUME TypeOK, LayoutOK, pc = "planned",
         NEW n \in Files(second) \ moved.source, NEW q \in StillTarget
  PROVE  /\ Fold(q) = Fold(n) => q = n /\ target[q] # Dir
         /\ \A d \in Above(n) : Fold(q) = Fold(d) => q = d /\ target[q] = Dir
<1>1. \A m \in StillSource, r \in StillTarget :
        Fold(m) = Fold(r) => m = r /\ Kind(source[m]) = Kind(target[r])
  BY DEF LayoutOK
<1>2. n \in Names /\ second[n] \in Contents /\ second[n] = source[n]
  <2>1. second[n] \in Contents \cup {Absent} /\ n \in Names
    BY DEF Files, TypeOK, Manifest
  <2>2. second[n] # Absent
    BY DEF Files, FileAt
  <2> QED
    BY <2>1, <2>2 DEF LayoutOK
<1>3. n \in StillSource /\ Kind(source[n]) = "file"
  BY <1>2, KindsAssumption DEF StillSource, Still, Kind
<1>4. Fold(q) = Fold(n) => q = n /\ target[q] # Dir
  BY <1>1, <1>3, KindsAssumption DEF Kind
<1>5. ASSUME NEW d \in Above(n), Fold(q) = Fold(d) PROVE q = d /\ target[q] = Dir
  <2>1. d \in Names /\ source[d] = Dir
    BY <1>2, KindsAssumption, NamesAssumption DEF TypeOK, Trees
  <2>2. d \notin moved.source
    BY <1>3 DEF LayoutOK
  <2>3. d \in StillSource /\ Kind(source[d]) = "dir"
    BY <2>1, <2>2, KindsAssumption DEF StillSource, Still, Kind
  <2>4. q = d /\ Kind(target[q]) = "dir"
    BY <1>1, <1>5, <2>3
  <2> QED
    BY <2>4 DEF Kind
<1> QED
  BY <1>4, <1>5

\* A plan has room in its target for every file that nobody touched, among the nodes that
\* nobody touched, empty directories and names that differ in case too: however other names
\* changed between the walks of stable, tree and compatible_layouts (main.rs, make_plan).
THEOREM PlansFit == Spec => []PlanFits
<1>1. TypeOK /\ LayoutOK => PlanFits
  BY CompatibleFits DEF PlanFits, StillTarget, Still
<1> QED
  BY <1>1, LayoutInvariance, PTL
=============================================================================
