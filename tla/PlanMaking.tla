----------------------------- MODULE PlanMaking -----------------------------
(***************************************************************************)
(* How cloudwins observes two directory trees that others keep changing    *)
(* (tools/cloudwins/src/main.rs, make_plan and what it calls): the source  *)
(* is collected twice and must not have changed, the target is collected   *)
(* once, both layouts are compared, every path is looked at again, and the *)
(* names of the plan must fit into one case-insensitive tree.              *)
(*                                                                         *)
(* A walk lists one directory after the other, and the files it found are  *)
(* then read one by one, in an order left open.  Reading a file is one     *)
(* step: fingerprint refuses a file whose size, time or identity moved     *)
(* between its open and its end, so the content it returns was the file's  *)
(* all along.  A command that meets an error, or is stopped, takes no more  *)
(* steps; nothing is written before the plan is.                           *)
(***************************************************************************)
EXTENDS Naturals, Sequences, FiniteSets

CONSTANTS Names,     \* relative paths: non-empty sequences of components
          Lower,     \* lower case of a component
          Contents,  \* contents of a file
          Absent,    \* nothing at a path
          Dir,       \* a directory at a path
          MaxNodes,  \* bound: nodes of a tree at the start
          MaxEdits   \* bound: changes made while the plan is made

Fold(n) == [i \in 1..Len(n) |-> Lower[n[i]]]

Above(n) == {SubSeq(n, 1, i) : i \in 1..(Len(n) - 1)}
Root == <<>>

ASSUME KindsAssumption == Absent \notin Contents /\ Dir \notin Contents /\ Dir # Absent
ASSUME NamesAssumption == Names \subseteq Seq(DOMAIN Lower) \ {Root}
                          /\ \A n \in Names : Above(n) \subseteq Names

VARIABLES source, target,  \* the two directory trees
          pc,              \* control state of the command
          dirs, seen,      \* a walk: directories still to list, kinds of the nodes listed
          todo,            \* files listed and not yet read, or paths not yet looked at again
          first, second,   \* the two collections of the source
          held,            \* the collection of the target
          noted,           \* layout of the source when the layouts are compared
          edits,           \* changes so far
          mid,             \* history: the source when its first collection was complete
          early, late,     \* history: names of the source changed before and after that
          moved            \* history: names changed at any time, in either tree

vars == <<source, target, pc, dirs, seen, todo, first, second, held, noted,
          edits, mid, early, late, moved>>
walk == <<dirs, seen>>
trees == <<source, target, edits>>
history == <<mid, early, late, moved>>

Node == Contents \cup {Absent, Dir}
Manifest == [Names -> Contents \cup {Absent}]
\* A node has directories above it.
Trees == {t \in [Names -> Node] :
            \A n \in Names : t[n] # Absent => \A q \in Above(n) : t[q] = Dir}

FileAt(t, n) == IF t[n] = Dir THEN Absent ELSE t[n]
Files(t) == {n \in Names : FileAt(t, n) # Absent}
None == [n \in Names |-> Absent]

\* layout: the nodes of a tree by kind; names that differ in case only are rejected.
Kind(v) == IF v = Absent THEN "none" ELSE IF v = Dir THEN "dir" ELSE "file"
NoKinds == [n \in Names |-> "none"]
Listed(k) == {n \in Names : k[n] # "none"}
Regular(k) == {n \in Names : k[n] = "file"}
NoCollision(k) == \A m, n \in Listed(k) : Fold(m) = Fold(n) => m = n
Below(d) == {n \in Names : Len(n) = Len(d) + 1 /\ SubSeq(n, 1, Len(d)) = d}

\* compatible_layouts, empty directories included.
Compatible(k, l) ==
  \A m \in Listed(k), n \in Listed(l) : Fold(m) = Fold(n) => m = n /\ k[m] = l[n]

\* manifest_namespace: every file and every directory above one, by folded name.
Inodes(names) == {[name |-> n, dir |-> FALSE] : n \in names}
                   \cup {[name |-> q, dir |-> TRUE] : q \in UNION {Above(n) : n \in names}}
Namespace(names) == \A x, y \in Inodes(names) : Fold(x.name) = Fold(y.name) => x = y

\* validate_plan: a plan has a file, and its names fit into one tree.
ValidatePlan(src, dst) == Files(src) # {} /\ Namespace(Files(src) \cup Files(dst))

Init ==
  /\ source \in Trees /\ target \in Trees
  /\ \A t \in {source, target} : Cardinality({n \in Names : t[n] # Absent}) <= MaxNodes
  /\ pc = "walk first"
  /\ dirs = {Root} /\ seen = NoKinds /\ todo = {}
  /\ first = None /\ second = None /\ held = None /\ noted = NoKinds
  /\ edits = 0
  /\ mid = None /\ early = {} /\ late = {}
  /\ moved = [source |-> {}, target |-> {}]

-----------------------------------------------------------------------------
(* The cloud client and people *)

ChangeSource(n, v) ==
  /\ pc # "planned" /\ edits < MaxEdits /\ v # source[n]
  /\ source' = [source EXCEPT ![n] = v]
  /\ source' \in Trees
  /\ edits' = edits + 1
  /\ early' = IF pc \in {"walk first", "read first"} THEN early \cup {n} ELSE early
  /\ late' = IF pc \in {"walk second", "read second"} THEN late \cup {n} ELSE late
  /\ moved' = [moved EXCEPT !.source = @ \cup {n}]
  /\ UNCHANGED <<target, pc, walk, todo, first, second, held, noted, mid>>

ChangeTarget(n, v) ==
  /\ pc # "planned" /\ edits < MaxEdits /\ v # target[n]
  /\ target' = [target EXCEPT ![n] = v]
  /\ target' \in Trees
  /\ edits' = edits + 1
  /\ moved' = [moved EXCEPT !.target = @ \cup {n}]
  /\ UNCHANGED <<source, pc, walk, todo, first, second, held, noted, mid, early, late>>

-----------------------------------------------------------------------------
(* Walking a tree *)

\* One directory is listed; it is an error if it is no directory any more.
ListDir(d) ==
  LET t == IF pc \in {"walk first", "walk second", "walk source again"} THEN source ELSE target
  IN  /\ pc \in {"walk first", "walk second", "walk target", "walk source again", "walk target again"}
      /\ d \in dirs
      /\ d # Root => t[d] = Dir
      /\ seen' = [n \in Names |-> IF n \in Below(d) THEN Kind(t[n]) ELSE seen[n]]
      /\ dirs' = (dirs \ {d}) \cup {n \in Below(d) : t[n] = Dir}
      /\ UNCHANGED <<trees, pc, todo, first, second, held, noted, history>>

\* A walk is over; the next one will start at the root.
Walked(label) ==
  /\ pc = label /\ dirs = {} /\ NoCollision(seen)
  /\ dirs' = {Root} /\ seen' = NoKinds

-----------------------------------------------------------------------------
(* stable: the source, twice *)

ListFirst ==
  /\ Walked("walk first")
  /\ todo' = Regular(seen) /\ pc' = "read first"
  /\ UNCHANGED <<trees, first, second, held, noted, history>>

\* Mistake: whatever is now at the path is recorded.
ReadFirstAnything(n) ==
  /\ pc = "read first" /\ n \in todo
  /\ first' = [first EXCEPT ![n] = source[n]]
  /\ todo' = todo \ {n}
  /\ UNCHANGED <<trees, pc, walk, second, held, noted, history>>

\* A file that has gone, or is no regular file any more, is an error.
ReadFirst(n) ==
  /\ pc = "read first" /\ n \in todo
  /\ source[n] \in Contents
  /\ first' = [first EXCEPT ![n] = source[n]]
  /\ todo' = todo \ {n}
  /\ UNCHANGED <<trees, pc, walk, second, held, noted, history>>

\* The settle time passes.
Settle ==
  /\ pc = "read first" /\ todo = {}
  /\ pc' = "walk second"
  /\ mid' = [n \in Names |-> FileAt(source, n)]
  /\ UNCHANGED <<trees, walk, todo, first, second, held, noted, early, late, moved>>

ListSecond ==
  /\ Walked("walk second")
  /\ todo' = Regular(seen) /\ pc' = "read second"
  /\ UNCHANGED <<trees, first, second, held, noted, history>>

ReadSecond(n) ==
  /\ pc = "read second" /\ n \in todo
  /\ source[n] \in Contents
  /\ second' = [second EXCEPT ![n] = source[n]]
  /\ todo' = todo \ {n}
  /\ UNCHANGED <<trees, pc, walk, first, held, noted, history>>

\* Mistake: one collection is enough.
StableUncompared ==
  /\ pc = "read second" /\ todo = {}
  /\ second # None
  /\ pc' = "walk target"
  /\ UNCHANGED <<trees, walk, todo, first, second, held, noted, history>>

\* Both collections must be equal, and not empty.
Stable ==
  /\ pc = "read second" /\ todo = {}
  /\ first = second /\ second # None
  /\ pc' = "walk target"
  /\ UNCHANGED <<trees, walk, todo, first, second, held, noted, history>>

-----------------------------------------------------------------------------
(* make_plan: the target, once *)

ListTarget ==
  /\ Walked("walk target")
  /\ todo' = Regular(seen) /\ pc' = "read target"
  /\ UNCHANGED <<trees, first, second, held, noted, history>>

ReadTarget(n) ==
  /\ pc = "read target" /\ n \in todo
  /\ target[n] \in Contents
  /\ held' = [held EXCEPT ![n] = target[n]]
  /\ todo' = todo \ {n}
  /\ UNCHANGED <<trees, pc, walk, first, second, noted, history>>

Held ==
  /\ pc = "read target" /\ todo = {}
  /\ pc' = "walk source again"
  /\ UNCHANGED <<trees, walk, todo, first, second, held, noted, history>>

\* compatible_layouts walks the source, then the target.
NoteLayout ==
  /\ Walked("walk source again")
  /\ noted' = seen /\ pc' = "walk target again"
  /\ UNCHANGED <<trees, todo, first, second, held, history>>

\* Mistake: the manifests are enough, so empty directories go unnoticed.
CompareNothing ==
  /\ Walked("walk target again")
  /\ todo' = Files(second) /\ pc' = "look again"
  /\ UNCHANGED <<trees, first, second, held, noted, history>>

CompareLayouts ==
  /\ Walked("walk target again")
  /\ Compatible(noted, seen)
  /\ todo' = Files(second) /\ pc' = "look again"
  /\ UNCHANGED <<trees, first, second, held, noted, history>>

\* Each path of the source still holds in the target what was collected there.
LookAgain(n) ==
  /\ pc = "look again" /\ n \in todo
  /\ target[n] = held[n]
  /\ todo' = todo \ {n}
  /\ UNCHANGED <<trees, pc, walk, first, second, held, noted, history>>

\* The plan is checked as apply and rollback will check it, and written: it
\* holds the trees `second` and `held`.
WritePlan ==
  /\ pc = "look again" /\ todo = {}
  /\ ValidatePlan(second, held)
  /\ pc' = "planned"
  /\ UNCHANGED <<trees, walk, todo, first, second, held, noted, history>>

Next ==
  \/ \E n \in Names, v \in Node : ChangeSource(n, v) \/ ChangeTarget(n, v)
  \/ \E d \in dirs : ListDir(d)
  \/ ListFirst \/ Settle \/ ListSecond \/ Stable
  \/ ListTarget \/ Held \/ NoteLayout \/ CompareLayouts \/ WritePlan
  \/ \E n \in Names : ReadFirst(n) \/ ReadSecond(n) \/ ReadTarget(n) \/ LookAgain(n)

Spec == Init /\ [][Next]_vars
-----------------------------------------------------------------------------
(* Properties *)

\* Collections hold contents only: no directory is ever taken for a file.
TypeOK ==
  /\ source \in Trees /\ target \in Trees
  /\ pc \in {"walk first", "read first", "walk second", "read second", "walk target", "read target",
             "walk source again", "walk target again", "look again", "planned"}
  /\ dirs \subseteq Names \cup {Root}
  /\ seen \in [Names -> {"none", "dir", "file"}] /\ noted \in [Names -> {"none", "dir", "file"}]
  /\ first \in Manifest /\ second \in Manifest /\ held \in Manifest /\ mid \in Manifest
  /\ todo \subseteq Names /\ early \subseteq Names /\ late \subseteq Names
  /\ moved \in [source : SUBSET Names, target : SUBSET Names]
  /\ edits \in Nat

\* What `stable` returns is the source as it was at one moment, between its two
\* collections: a path that differs was changed before that moment and again
\* after it (and back, since both collections found the same).
StableIsSnapshot ==
  pc \in {"walk target", "read target", "walk source again", "walk target again", "look again", "planned"} =>
    \A n \in Names : second[n] = mid[n] \/ n \in early \cap late

\* The manifests and the layouts of a plan come from four walks at different moments, while
\* other names come and go.  Still every file of the plan that nobody touched has room among
\* the nodes of the target that nobody touched: no node of another name or kind, an empty
\* directory say, is in its way.
PlanFits ==
  pc = "planned" =>
    \A n \in Files(second) \ moved.source,
       q \in {m \in Names : target[m] # Absent} \ moved.target :
      /\ Fold(q) = Fold(n) => q = n /\ target[q] # Dir
      /\ \A d \in Above(n) : Fold(q) = Fold(d) => q = d /\ target[q] = Dir
=============================================================================
