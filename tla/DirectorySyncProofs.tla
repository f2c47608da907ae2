------------------------- MODULE DirectorySyncProofs -------------------------
(***************************************************************************)
(* Theorems about DirectorySync, for any set of roots, any retention and   *)
(* any number of changes and commands.                                     *)
(*                                                                         *)
(* Two equal readings are one moment because contents never return: once a *)
(* root differs from what a reading began with it never equals it again    *)
(* (NoReturn, NoReturnOfWanted).  What a push overwrites is the head it    *)
(* observed or what was delivered since; that every root of that head has  *)
(* been live here or copied (HeadKept) follows the baselines (BaseKept)    *)
(* and the trees that are applied (AppliesHead).                           *)
(***************************************************************************)
EXTENDS DirectorySync, TLAPS

Kinds == {"none", "push", "pull", "acknowledge", "snapshot", "restore"}

\* A manifest read to its end is a tree.
LEMMA FullIsTree == ASSUME got \in Manifest, Full PROVE got \in Tree
BY DEF Manifest, Full, Tree, Content, Unread

\* A manifest of which nothing has been read is a manifest.
LEMMA BlankIsManifest == Blank \in Manifest
BY DEF Blank, Manifest, Content, Unread

\* An empty tree is a tree.
LEMMA EmptyIsTree == Empty \in Tree
BY DEF Empty, Tree, Content, Absent

\* A machine without an operation has locals of their type.
LEMMA NoOpIsOp == NoOp \in Ops
BY DEF NoOp, Ops

\* A tree holds contents.
LEMMA ContentsOfTree == \A t \in Tree : In({t}) \subseteq Content
BY DEF In, Tree

\* A tree is a manifest.
LEMMA TreeIsManifest == \A t \in Tree : t \in Manifest
BY DEF Tree, Manifest

\* Adding a snapshot and pruning keeps the retention.
LEMMA PruningKeeps ==
  ASSUME NEW s \in Seq(Taken), NEW t \in Taken
  PROVE  /\ Pruned(<<t>> \o s) \in Seq(Taken)
         /\ Keep > 0 => Len(Pruned(<<t>> \o s)) <= Keep
         /\ \A i \in DOMAIN Pruned(<<t>> \o s) :
              Pruned(<<t>> \o s)[i] = t \/ \E j \in DOMAIN s : Pruned(<<t>> \o s)[i] = s[j]
<1> SUFFICES ASSUME NEW n \in Seq(Taken), n = <<t>> \o s
             PROVE  /\ Pruned(n) \in Seq(Taken)
                    /\ Keep > 0 => Len(Pruned(n)) <= Keep
                    /\ \A i \in DOMAIN Pruned(n) :
                         Pruned(n)[i] = t \/ \E j \in DOMAIN s : Pruned(n)[i] = s[j]
  <2>1. <<t>> \o s \in Seq(Taken)
    OBVIOUS
  <2> QED BY <2>1
<1>1. Len(n) = Len(s) + 1 /\ Len(s) \in Nat /\ Len(n) \in Nat
  OBVIOUS
<1>2. \A i \in 1..Len(n) : n[i] = t \/ \E j \in DOMAIN s : n[i] = s[j]
  <2> SUFFICES ASSUME NEW i \in 1..Len(n), i # 1 PROVE \E j \in DOMAIN s : n[i] = s[j]
    BY <1>1
  <2>1. i - 1 \in 1..Len(s) /\ n[i] = s[i - 1]
    BY <1>1
  <2> QED BY <2>1
<1>3. CASE Keep = 0 \/ Len(n) <= Keep
  <2>1. Pruned(n) = n BY <1>3 DEF Pruned
  <2>2. DOMAIN n = 1..Len(n) OBVIOUS
  <2>3. Keep > 0 => Len(n) <= Keep BY <1>3, SettingAssumption
  <2> QED BY <2>1, <2>2, <2>3, <1>2
<1>4. CASE ~(Keep = 0 \/ Len(n) <= Keep)
  <2>1. Pruned(n) = SubSeq(n, 1, Keep) BY <1>4 DEF Pruned
  <2>2. Keep \in Nat /\ Keep < Len(n) BY <1>4, <1>1, SettingAssumption
  <2>3. SubSeq(n, 1, Keep) \in Seq(Taken) /\ Len(SubSeq(n, 1, Keep)) = Keep
    BY <2>2, <1>1
  <2>4. \A i \in 1..Keep : SubSeq(n, 1, Keep)[i] = n[i] /\ i \in 1..Len(n)
    BY <2>2, <1>1
  <2>5. DOMAIN SubSeq(n, 1, Keep) = 1..Keep
    BY <2>3
  <2>6. Keep <= Keep BY <2>2
  <2> DEFINE p == SubSeq(n, 1, Keep)
  <2>7. /\ Pruned(n) = p /\ p \in Seq(Taken) /\ Len(p) = Keep /\ DOMAIN p = 1..Keep
        /\ \A i \in 1..Keep : p[i] = n[i] /\ i \in 1..Len(n)
    BY <2>1, <2>3, <2>4, <2>5
  <2> HIDE DEF p
  <2>8. \A i \in DOMAIN p : p[i] = t \/ \E j \in DOMAIN s : p[i] = s[j]
    <3> SUFFICES ASSUME NEW i \in DOMAIN p
                 PROVE  p[i] = t \/ \E j \in DOMAIN s : p[i] = s[j]
      OBVIOUS
    <3>1. i \in 1..Keep
      BY <2>7
    <3>2. p[i] = n[i] /\ i \in 1..Len(n)
      BY <2>7, <3>1
    <3> QED BY <3>2, <1>2
  <2> QED BY <2>6, <2>7, <2>8
<1> QED BY <1>3, <1>4

\* Every step keeps the types.
LEMMA TypeStep == TypeOK /\ [Next]_vars => TypeOK'
<1> SUFFICES ASSUME TypeOK, [Next]_vars PROVE TypeOK' OBVIOUS
<1>1. ASSUME NEW r \in Roots, Deliver(r) PROVE TypeOK'
  <2>1. data' \in Tree /\ live' \in Tree /\ made' \in Nat
    BY <1>1, FullIsTree DEF TypeOK, Deliver, Tree, Content, Absent, files
  <2>2. base' \in Manifest /\ sync' \in Manifest
    BY <1>1, FullIsTree, TreeIsManifest DEF TypeOK, Deliver, states
  <2>3. recovery' \subseteq Tree /\ backups' \subseteq Tree /\ snapshots' \in Seq(Taken)
         /\ (Keep > 0 => Len(snapshots') <= Keep)
    BY <1>1, FullIsTree DEF TypeOK, Deliver, copies
  <2>4. pc' \in Phases /\ op' \in Ops
    BY <1>1 DEF TypeOK, Deliver, Phases, Heads, Copies, Verifies, Ops, locals
  <2>5. head' \in Tree /\ stage' \in Tree /\ old' \in Tree /\ local' \in Tree
    BY <1>1, EmptyIsTree, FullIsTree DEF TypeOK, Deliver, locals
  <2>6. at' \in [Roots -> {"todo", "out", "done"}]
    BY <1>1 DEF TypeOK, Deliver, locals
  <2>7. got' \in Manifest /\ prev' \in Manifest /\ tries' \in 0..3 /\ start' \in Manifest
    BY <1>1, BlankIsManifest, TreeIsManifest DEF TypeOK, Deliver, reader, Heads, Copies, Verifies
  <2>8. /\ known' \subseteq Content /\ captured' \subseteq Content /\ removed' \subseteq Content
       /\ missed' \subseteq Content /\ unapplied' \subseteq Content /\ commands' \in Nat
    BY <1>1, FullIsTree DEF TypeOK, Deliver, Tree, Content, Absent, history
  <2> QED BY <2>1, <2>2, <2>3, <2>4, <2>5, <2>6, <2>7, <2>8 DEF TypeOK
<1>2. ASSUME NEW r \in Roots, Edit(r) PROVE TypeOK'
  <2>1. data' \in Tree /\ live' \in Tree /\ made' \in Nat
    BY <1>2, FullIsTree DEF TypeOK, Edit, Tree, Content, Absent, files
  <2>2. base' \in Manifest /\ sync' \in Manifest
    BY <1>2, FullIsTree, TreeIsManifest DEF TypeOK, Edit, states
  <2>3. recovery' \subseteq Tree /\ backups' \subseteq Tree /\ snapshots' \in Seq(Taken)
         /\ (Keep > 0 => Len(snapshots') <= Keep)
    BY <1>2, FullIsTree DEF TypeOK, Edit, copies
  <2>4. pc' \in Phases /\ op' \in Ops
    BY <1>2 DEF TypeOK, Edit, Phases, Heads, Copies, Verifies, Ops, locals
  <2>5. head' \in Tree /\ stage' \in Tree /\ old' \in Tree /\ local' \in Tree
    BY <1>2, EmptyIsTree, FullIsTree DEF TypeOK, Edit, locals
  <2>6. at' \in [Roots -> {"todo", "out", "done"}]
    BY <1>2 DEF TypeOK, Edit, locals
  <2>7. got' \in Manifest /\ prev' \in Manifest /\ tries' \in 0..3 /\ start' \in Manifest
    BY <1>2, BlankIsManifest, TreeIsManifest DEF TypeOK, Edit, reader, Heads, Copies, Verifies
  <2>8. /\ known' \subseteq Content /\ captured' \subseteq Content /\ removed' \subseteq Content
       /\ missed' \subseteq Content /\ unapplied' \subseteq Content /\ commands' \in Nat
    BY <1>2, FullIsTree DEF TypeOK, Edit, Tree, Content, Absent, history
  <2> QED BY <2>1, <2>2, <2>3, <2>4, <2>5, <2>6, <2>7, <2>8 DEF TypeOK
<1>3. ASSUME NEW r \in Roots, ReadRoot(r) PROVE TypeOK'
  <2>1. data' \in Tree /\ live' \in Tree /\ made' \in Nat
    BY <1>3, FullIsTree DEF TypeOK, ReadRoot, Tree, Content, Absent, files
  <2>2. base' \in Manifest /\ sync' \in Manifest
    BY <1>3, FullIsTree, TreeIsManifest DEF TypeOK, ReadRoot, states
  <2>3. recovery' \subseteq Tree /\ backups' \subseteq Tree /\ snapshots' \in Seq(Taken)
         /\ (Keep > 0 => Len(snapshots') <= Keep)
    BY <1>3, FullIsTree DEF TypeOK, ReadRoot, copies
  <2>4. pc' \in Phases /\ op' \in Ops
    BY <1>3 DEF TypeOK, ReadRoot, Phases, Heads, Copies, Verifies, Ops, locals
  <2>5. head' \in Tree /\ stage' \in Tree /\ old' \in Tree /\ local' \in Tree
    BY <1>3, EmptyIsTree, FullIsTree DEF TypeOK, ReadRoot, locals
  <2>6. at' \in [Roots -> {"todo", "out", "done"}]
    BY <1>3 DEF TypeOK, ReadRoot, locals
  <2>7. got' \in Manifest /\ prev' \in Manifest /\ tries' \in 0..3 /\ start' \in Manifest
    <3>1. data[r] \in Content
      BY <1>3 DEF TypeOK, Tree
    <3>2. got' \in Manifest
      BY <1>3, <3>1 DEF TypeOK, ReadRoot, Manifest
    <3>3. prev' \in Manifest /\ tries' \in 0..3 /\ start' \in Manifest
      BY <1>3 DEF TypeOK, ReadRoot
    <3> QED BY <3>2, <3>3
  <2>8. /\ known' \subseteq Content /\ captured' \subseteq Content /\ removed' \subseteq Content
       /\ missed' \subseteq Content /\ unapplied' \subseteq Content /\ commands' \in Nat
    BY <1>3, FullIsTree DEF TypeOK, ReadRoot, Tree, Content, Absent, history
  <2> QED BY <2>1, <2>2, <2>3, <2>4, <2>5, <2>6, <2>7, <2>8 DEF TypeOK
<1>4. ASSUME Again PROVE TypeOK'
  <2>1. data' \in Tree /\ live' \in Tree /\ made' \in Nat
    BY <1>4, FullIsTree DEF TypeOK, Again, Tree, Content, Absent, files
  <2>2. base' \in Manifest /\ sync' \in Manifest
    BY <1>4, FullIsTree, TreeIsManifest DEF TypeOK, Again, states
  <2>3. recovery' \subseteq Tree /\ backups' \subseteq Tree /\ snapshots' \in Seq(Taken)
         /\ (Keep > 0 => Len(snapshots') <= Keep)
    BY <1>4, FullIsTree DEF TypeOK, Again, copies
  <2>4. pc' \in Phases /\ op' \in Ops
    BY <1>4 DEF TypeOK, Again, Phases, Heads, Copies, Verifies, Ops, locals
  <2>5. head' \in Tree /\ stage' \in Tree /\ old' \in Tree /\ local' \in Tree
    BY <1>4, EmptyIsTree, FullIsTree DEF TypeOK, Again, locals
  <2>6. at' \in [Roots -> {"todo", "out", "done"}]
    BY <1>4 DEF TypeOK, Again, locals
  <2>7. got' \in Manifest /\ prev' \in Manifest /\ tries' \in 0..3 /\ start' \in Manifest
    BY <1>4, BlankIsManifest, TreeIsManifest DEF TypeOK, Again, reader, Heads, Copies, Verifies
  <2>8. /\ known' \subseteq Content /\ captured' \subseteq Content /\ removed' \subseteq Content
       /\ missed' \subseteq Content /\ unapplied' \subseteq Content /\ commands' \in Nat
    BY <1>4, FullIsTree DEF TypeOK, Again, Tree, Content, Absent, history
  <2> QED BY <2>1, <2>2, <2>3, <2>4, <2>5, <2>6, <2>7, <2>8 DEF TypeOK
<1>5. ASSUME Abort PROVE TypeOK'
  <2>1. data' \in Tree /\ live' \in Tree /\ made' \in Nat
    BY <1>5, FullIsTree DEF TypeOK, Abort, Finish, NoOp, Tree, Content, Absent, files
  <2>2. base' \in Manifest /\ sync' \in Manifest
    BY <1>5, FullIsTree, TreeIsManifest DEF TypeOK, Abort, Finish, NoOp, states
  <2>3. recovery' \subseteq Tree /\ backups' \subseteq Tree /\ snapshots' \in Seq(Taken)
         /\ (Keep > 0 => Len(snapshots') <= Keep)
    BY <1>5, FullIsTree DEF TypeOK, Abort, Finish, NoOp, copies
  <2>4. pc' \in Phases /\ op' \in Ops
    BY <1>5 DEF TypeOK, Abort, Finish, NoOp, Phases, Heads, Copies, Verifies, Ops, locals
  <2>5. head' \in Tree /\ stage' \in Tree /\ old' \in Tree /\ local' \in Tree
    BY <1>5, EmptyIsTree, FullIsTree DEF TypeOK, Abort, Finish, NoOp, locals
  <2>6. at' \in [Roots -> {"todo", "out", "done"}]
    BY <1>5 DEF TypeOK, Abort, Finish, NoOp, locals
  <2>7. got' \in Manifest /\ prev' \in Manifest /\ tries' \in 0..3 /\ start' \in Manifest
    BY <1>5, BlankIsManifest, TreeIsManifest DEF TypeOK, Abort, Finish, NoOp, reader, Heads, Copies, Verifies
  <2>8. /\ known' \subseteq Content /\ captured' \subseteq Content /\ removed' \subseteq Content
       /\ missed' \subseteq Content /\ unapplied' \subseteq Content /\ commands' \in Nat
    BY <1>5, FullIsTree DEF TypeOK, Abort, Finish, NoOp, Tree, Content, Absent, history
  <2> QED BY <2>1, <2>2, <2>3, <2>4, <2>5, <2>6, <2>7, <2>8 DEF TypeOK
<1>6. ASSUME Push PROVE TypeOK'
  <2>1. data' \in Tree /\ live' \in Tree /\ made' \in Nat
    BY <1>6, FullIsTree DEF TypeOK, Push, Begin, Enter, NoOp, Tree, Content, Absent, files
  <2>2. base' \in Manifest /\ sync' \in Manifest
    BY <1>6, FullIsTree, TreeIsManifest DEF TypeOK, Push, Begin, Enter, NoOp, states
  <2>3. recovery' \subseteq Tree /\ backups' \subseteq Tree /\ snapshots' \in Seq(Taken)
         /\ (Keep > 0 => Len(snapshots') <= Keep)
    BY <1>6, FullIsTree DEF TypeOK, Push, Begin, Enter, NoOp, copies
  <2>4. pc' \in Phases /\ op' \in Ops
    <3>1. PICK b \in BOOLEAN : Begin([NoOp EXCEPT !.name = "push", !.manual = b], "head")
      BY <1>6, Zenon DEF Push
    <3>2. pc' \in Phases
      BY <3>1 DEF Begin, Enter, Phases, Heads
    <3>3. op' = [NoOp EXCEPT !.name = "push", !.manual = b]
      BY <3>1 DEF Begin
    <3>4. op' \in Ops
      BY <3>3 DEF NoOp, Ops
    <3> QED BY <3>2, <3>4
  <2>5. head' \in Tree /\ stage' \in Tree /\ old' \in Tree /\ local' \in Tree
    BY <1>6, EmptyIsTree, FullIsTree DEF TypeOK, Push, Begin, Enter, NoOp, locals
  <2>6. at' \in [Roots -> {"todo", "out", "done"}]
    BY <1>6 DEF TypeOK, Push, Begin, Enter, NoOp, locals
  <2>7. got' \in Manifest /\ prev' \in Manifest /\ tries' \in 0..3 /\ start' \in Manifest
    BY <1>6, BlankIsManifest, TreeIsManifest DEF TypeOK, Push, Begin, Enter, NoOp, reader, Heads, Copies, Verifies
  <2>8. /\ known' \subseteq Content /\ captured' \subseteq Content /\ removed' \subseteq Content
       /\ missed' \subseteq Content /\ unapplied' \subseteq Content /\ commands' \in Nat
    BY <1>6, FullIsTree DEF TypeOK, Push, Begin, Enter, NoOp, Tree, Content, Absent, history
  <2> QED BY <2>1, <2>2, <2>3, <2>4, <2>5, <2>6, <2>7, <2>8 DEF TypeOK
<1>7. ASSUME Pull PROVE TypeOK'
  <2>1. data' \in Tree /\ live' \in Tree /\ made' \in Nat
    BY <1>7, FullIsTree DEF TypeOK, Pull, Begin, Enter, NoOp, Tree, Content, Absent, files
  <2>2. base' \in Manifest /\ sync' \in Manifest
    BY <1>7, FullIsTree, TreeIsManifest DEF TypeOK, Pull, Begin, Enter, NoOp, states
  <2>3. recovery' \subseteq Tree /\ backups' \subseteq Tree /\ snapshots' \in Seq(Taken)
         /\ (Keep > 0 => Len(snapshots') <= Keep)
    BY <1>7, FullIsTree DEF TypeOK, Pull, Begin, Enter, NoOp, copies
  <2>4. pc' \in Phases /\ op' \in Ops
    <3>1. PICK b \in BOOLEAN : Begin([NoOp EXCEPT !.name = "pull", !.discard = b], "head")
      BY <1>7, Zenon DEF Pull
    <3>2. pc' \in Phases
      BY <3>1 DEF Begin, Enter, Phases, Heads
    <3>3. op' = [NoOp EXCEPT !.name = "pull", !.discard = b]
      BY <3>1 DEF Begin
    <3>4. op' \in Ops
      BY <3>3 DEF NoOp, Ops
    <3> QED BY <3>2, <3>4
  <2>5. head' \in Tree /\ stage' \in Tree /\ old' \in Tree /\ local' \in Tree
    BY <1>7, EmptyIsTree, FullIsTree DEF TypeOK, Pull, Begin, Enter, NoOp, locals
  <2>6. at' \in [Roots -> {"todo", "out", "done"}]
    BY <1>7 DEF TypeOK, Pull, Begin, Enter, NoOp, locals
  <2>7. got' \in Manifest /\ prev' \in Manifest /\ tries' \in 0..3 /\ start' \in Manifest
    BY <1>7, BlankIsManifest, TreeIsManifest DEF TypeOK, Pull, Begin, Enter, NoOp, reader, Heads, Copies, Verifies
  <2>8. /\ known' \subseteq Content /\ captured' \subseteq Content /\ removed' \subseteq Content
       /\ missed' \subseteq Content /\ unapplied' \subseteq Content /\ commands' \in Nat
    BY <1>7, FullIsTree DEF TypeOK, Pull, Begin, Enter, NoOp, Tree, Content, Absent, history
  <2> QED BY <2>1, <2>2, <2>3, <2>4, <2>5, <2>6, <2>7, <2>8 DEF TypeOK
<1>8. ASSUME Acknowledge PROVE TypeOK'
  <2>1. data' \in Tree /\ live' \in Tree /\ made' \in Nat
    BY <1>8, FullIsTree DEF TypeOK, Acknowledge, Begin, Enter, NoOp, Tree, Content, Absent, files
  <2>2. base' \in Manifest /\ sync' \in Manifest
    BY <1>8, FullIsTree, TreeIsManifest DEF TypeOK, Acknowledge, Begin, Enter, NoOp, states
  <2>3. recovery' \subseteq Tree /\ backups' \subseteq Tree /\ snapshots' \in Seq(Taken)
         /\ (Keep > 0 => Len(snapshots') <= Keep)
    BY <1>8, FullIsTree DEF TypeOK, Acknowledge, Begin, Enter, NoOp, copies
  <2>4. pc' \in Phases /\ op' \in Ops
    BY <1>8 DEF TypeOK, Acknowledge, Begin, Enter, NoOp, Phases, Heads, Copies, Verifies, Ops, locals
  <2>5. head' \in Tree /\ stage' \in Tree /\ old' \in Tree /\ local' \in Tree
    BY <1>8, EmptyIsTree, FullIsTree DEF TypeOK, Acknowledge, Begin, Enter, NoOp, locals
  <2>6. at' \in [Roots -> {"todo", "out", "done"}]
    BY <1>8 DEF TypeOK, Acknowledge, Begin, Enter, NoOp, locals
  <2>7. got' \in Manifest /\ prev' \in Manifest /\ tries' \in 0..3 /\ start' \in Manifest
    BY <1>8, BlankIsManifest, TreeIsManifest DEF TypeOK, Acknowledge, Begin, Enter, NoOp, reader, Heads, Copies, Verifies
  <2>8. /\ known' \subseteq Content /\ captured' \subseteq Content /\ removed' \subseteq Content
       /\ missed' \subseteq Content /\ unapplied' \subseteq Content /\ commands' \in Nat
    BY <1>8, FullIsTree DEF TypeOK, Acknowledge, Begin, Enter, NoOp, Tree, Content, Absent, history
  <2> QED BY <2>1, <2>2, <2>3, <2>4, <2>5, <2>6, <2>7, <2>8 DEF TypeOK
<1>9. ASSUME Snapshot PROVE TypeOK'
  <2>1. data' \in Tree /\ live' \in Tree /\ made' \in Nat
    BY <1>9, FullIsTree DEF TypeOK, Snapshot, Begin, Enter, NoOp, Tree, Content, Absent, files
  <2>2. base' \in Manifest /\ sync' \in Manifest
    BY <1>9, FullIsTree, TreeIsManifest DEF TypeOK, Snapshot, Begin, Enter, NoOp, states
  <2>3. recovery' \subseteq Tree /\ backups' \subseteq Tree /\ snapshots' \in Seq(Taken)
         /\ (Keep > 0 => Len(snapshots') <= Keep)
    BY <1>9, FullIsTree DEF TypeOK, Snapshot, Begin, Enter, NoOp, copies
  <2>4. pc' \in Phases /\ op' \in Ops
    BY <1>9 DEF TypeOK, Snapshot, Begin, Enter, NoOp, Phases, Heads, Copies, Verifies, Ops, locals
  <2>5. head' \in Tree /\ stage' \in Tree /\ old' \in Tree /\ local' \in Tree
    BY <1>9, EmptyIsTree, FullIsTree DEF TypeOK, Snapshot, Begin, Enter, NoOp, locals
  <2>6. at' \in [Roots -> {"todo", "out", "done"}]
    BY <1>9 DEF TypeOK, Snapshot, Begin, Enter, NoOp, locals
  <2>7. got' \in Manifest /\ prev' \in Manifest /\ tries' \in 0..3 /\ start' \in Manifest
    BY <1>9, BlankIsManifest, TreeIsManifest DEF TypeOK, Snapshot, Begin, Enter, NoOp, reader, Heads, Copies, Verifies
  <2>8. /\ known' \subseteq Content /\ captured' \subseteq Content /\ removed' \subseteq Content
       /\ missed' \subseteq Content /\ unapplied' \subseteq Content /\ commands' \in Nat
    BY <1>9, FullIsTree DEF TypeOK, Snapshot, Begin, Enter, NoOp, Tree, Content, Absent, history
  <2> QED BY <2>1, <2>2, <2>3, <2>4, <2>5, <2>6, <2>7, <2>8 DEF TypeOK
<1>10. ASSUME Restore PROVE TypeOK'
  <2>1. data' \in Tree /\ live' \in Tree /\ made' \in Nat
    BY <1>10, FullIsTree DEF TypeOK, Taken, Restore, Begin, Enter, Tree, Content, Absent, files
  <2>2. base' \in Manifest /\ sync' \in Manifest
    BY <1>10, FullIsTree, TreeIsManifest DEF TypeOK, Taken, Restore, Begin, Enter, states
  <2>3. recovery' \subseteq Tree /\ backups' \subseteq Tree /\ snapshots' \in Seq(Taken)
         /\ (Keep > 0 => Len(snapshots') <= Keep)
    BY <1>10, FullIsTree DEF TypeOK, Taken, Restore, Begin, Enter, copies
  <2>4. pc' \in Phases /\ op' \in Ops /\ stage' \in Tree
    <3>1. PICK i \in DOMAIN snapshots, d \in BOOLEAN, k \in BOOLEAN :
            /\ stage' = snapshots[i].tree
            /\ Begin([name |-> "restore", manual |-> TRUE, discard |-> d, sourceOnly |-> k,
                      chosen |-> snapshots[i].id], "head")
      BY <1>10 DEF Restore
    <3>2. pc' \in Phases
      BY <3>1 DEF Begin, Enter, Phases, Heads
    <3>3. snapshots[i].id \in Nat /\ snapshots[i].tree \in Tree
      <4>1. snapshots[i] \in Taken
        BY <3>1 DEF TypeOK
      <4> QED BY <4>1 DEF Taken
    <3>4. op' = [name |-> "restore", manual |-> TRUE, discard |-> d, sourceOnly |-> k,
                 chosen |-> snapshots[i].id]
      BY <3>1 DEF Begin
    <3>5. op' \in Ops
      BY <3>3, <3>4 DEF Ops
    <3> QED BY <3>1, <3>2, <3>3, <3>5
  <2>5. head' \in Tree /\ old' \in Tree /\ local' \in Tree
    BY <1>10 DEF TypeOK, Restore, Begin, Enter
  <2>6. at' \in [Roots -> {"todo", "out", "done"}]
    BY <1>10 DEF TypeOK, Taken, Restore, Begin, Enter, locals
  <2>7. got' \in Manifest /\ prev' \in Manifest /\ tries' \in 0..3 /\ start' \in Manifest
    BY <1>10, BlankIsManifest, TreeIsManifest DEF TypeOK, Taken, Restore, Begin, Enter, reader, Heads, Copies, Verifies
  <2>8. /\ known' \subseteq Content /\ captured' \subseteq Content /\ removed' \subseteq Content
       /\ missed' \subseteq Content /\ unapplied' \subseteq Content /\ commands' \in Nat
    BY <1>10, FullIsTree DEF TypeOK, Taken, Restore, Begin, Enter, Tree, Content, Absent, history
  <2> QED BY <2>1, <2>2, <2>3, <2>4, <2>5, <2>6, <2>7, <2>8 DEF TypeOK
<1>11. ASSUME CheckHead PROVE TypeOK'
  <2>1. data' \in Tree /\ live' \in Tree /\ made' \in Nat
    BY <1>11, FullIsTree DEF TypeOK, CheckHead, Read, Accepted, BaselineIs, AfterCheck, Enter, Quiet, Tree, Content, Absent, files
  <2>2. base' \in Manifest /\ sync' \in Manifest
    BY <1>11, FullIsTree, TreeIsManifest DEF TypeOK, CheckHead, Read, Accepted, BaselineIs, AfterCheck, Enter, Quiet, states
  <2>3. recovery' \subseteq Tree /\ backups' \subseteq Tree /\ snapshots' \in Seq(Taken)
         /\ (Keep > 0 => Len(snapshots') <= Keep)
    BY <1>11, FullIsTree DEF TypeOK, CheckHead, Read, Accepted, BaselineIs, AfterCheck, Enter, Quiet, copies
  <2>4. pc' \in Phases /\ op' \in Ops
    BY <1>11 DEF TypeOK, CheckHead, Read, Accepted, BaselineIs, AfterCheck, Enter, Quiet, Phases, Heads, Copies, Verifies, Ops, locals
  <2>5. head' \in Tree /\ stage' \in Tree /\ old' \in Tree /\ local' \in Tree
    BY <1>11, EmptyIsTree, FullIsTree DEF TypeOK, CheckHead, Read, Accepted, BaselineIs, AfterCheck, Enter, Quiet, locals
  <2>6. at' \in [Roots -> {"todo", "out", "done"}]
    BY <1>11 DEF TypeOK, CheckHead, Read, Accepted, BaselineIs, AfterCheck, Enter, Quiet, locals
  <2>7. got' \in Manifest /\ prev' \in Manifest /\ tries' \in 0..3 /\ start' \in Manifest
    BY <1>11, BlankIsManifest, TreeIsManifest DEF TypeOK, CheckHead, Read, Accepted, BaselineIs, AfterCheck, Enter, Quiet, reader, Heads, Copies, Verifies
  <2>8. /\ known' \subseteq Content /\ captured' \subseteq Content /\ removed' \subseteq Content
       /\ missed' \subseteq Content /\ unapplied' \subseteq Content /\ commands' \in Nat
    BY <1>11, FullIsTree DEF TypeOK, CheckHead, Read, Accepted, BaselineIs, AfterCheck, Enter, Quiet, Tree, Content, Absent, history
  <2> QED BY <2>1, <2>2, <2>3, <2>4, <2>5, <2>6, <2>7, <2>8 DEF TypeOK
<1>12. ASSUME Override PROVE TypeOK'
  <2>1. data' \in Tree /\ live' \in Tree /\ made' \in Nat
    BY <1>12, FullIsTree DEF TypeOK, Override, Read, Accepted, Enter, Quiet, Tree, Content, Absent, files
  <2>2. base' \in Manifest /\ sync' \in Manifest
    BY <1>12, FullIsTree, TreeIsManifest DEF TypeOK, Override, Read, Accepted, Enter, Quiet, states
  <2>3. recovery' \subseteq Tree /\ backups' \subseteq Tree /\ snapshots' \in Seq(Taken)
         /\ (Keep > 0 => Len(snapshots') <= Keep)
    BY <1>12, FullIsTree DEF TypeOK, Override, Read, Accepted, Enter, Quiet, copies
  <2>4. pc' \in Phases /\ op' \in Ops
    BY <1>12 DEF TypeOK, Override, Read, Accepted, Enter, Quiet, Phases, Heads, Copies, Verifies, Ops, locals
  <2>5. head' \in Tree /\ stage' \in Tree /\ old' \in Tree /\ local' \in Tree
    BY <1>12, EmptyIsTree, FullIsTree DEF TypeOK, Override, Read, Accepted, Enter, Quiet, locals
  <2>6. at' \in [Roots -> {"todo", "out", "done"}]
    BY <1>12 DEF TypeOK, Override, Read, Accepted, Enter, Quiet, locals
  <2>7. got' \in Manifest /\ prev' \in Manifest /\ tries' \in 0..3 /\ start' \in Manifest
    BY <1>12, BlankIsManifest, TreeIsManifest DEF TypeOK, Override, Read, Accepted, Enter, Quiet, reader, Heads, Copies, Verifies
  <2>8. /\ known' \subseteq Content /\ captured' \subseteq Content /\ removed' \subseteq Content
       /\ missed' \subseteq Content /\ unapplied' \subseteq Content /\ commands' \in Nat
    BY <1>12, FullIsTree DEF TypeOK, Override, Read, Accepted, Enter, Quiet, Tree, Content, Absent, history
  <2> QED BY <2>1, <2>2, <2>3, <2>4, <2>5, <2>6, <2>7, <2>8 DEF TypeOK
<1>13. ASSUME ObserveHead PROVE TypeOK'
  <2>1. data' \in Tree /\ live' \in Tree /\ made' \in Nat
    BY <1>13, FullIsTree DEF TypeOK, ObserveHead, Read, Accepted, Enter, Quiet, Tree, Content, Absent, files
  <2>2. base' \in Manifest /\ sync' \in Manifest
    BY <1>13, FullIsTree, TreeIsManifest DEF TypeOK, ObserveHead, Read, Accepted, Enter, Quiet, states
  <2>3. recovery' \subseteq Tree /\ backups' \subseteq Tree /\ snapshots' \in Seq(Taken)
         /\ (Keep > 0 => Len(snapshots') <= Keep)
    BY <1>13, FullIsTree DEF TypeOK, ObserveHead, Read, Accepted, Enter, Quiet, copies
  <2>4. pc' \in Phases /\ op' \in Ops
    BY <1>13 DEF TypeOK, ObserveHead, Read, Accepted, Enter, Quiet, Phases, Heads, Copies, Verifies, Ops, locals
  <2>5. head' \in Tree /\ stage' \in Tree /\ old' \in Tree /\ local' \in Tree
    BY <1>13, EmptyIsTree, FullIsTree DEF TypeOK, ObserveHead, Read, Accepted, Enter, Quiet, locals
  <2>6. at' \in [Roots -> {"todo", "out", "done"}]
    BY <1>13 DEF TypeOK, ObserveHead, Read, Accepted, Enter, Quiet, locals
  <2>7. got' \in Manifest /\ prev' \in Manifest /\ tries' \in 0..3 /\ start' \in Manifest
    BY <1>13, BlankIsManifest, TreeIsManifest DEF TypeOK, ObserveHead, Read, Accepted, Enter, Quiet, reader, Heads, Copies, Verifies
  <2>8. /\ known' \subseteq Content /\ captured' \subseteq Content /\ removed' \subseteq Content
       /\ missed' \subseteq Content /\ unapplied' \subseteq Content /\ commands' \in Nat
    BY <1>13, FullIsTree DEF TypeOK, ObserveHead, Read, Accepted, Enter, Quiet, Tree, Content, Absent, history
  <2> QED BY <2>1, <2>2, <2>3, <2>4, <2>5, <2>6, <2>7, <2>8 DEF TypeOK
<1>14. ASSUME Preserve PROVE TypeOK'
  <2>1. data' \in Tree /\ live' \in Tree /\ made' \in Nat
    BY <1>14, FullIsTree DEF TypeOK, Preserve, Read, Accepted, Enter, Quiet, Tree, Content, Absent, files
  <2>2. base' \in Manifest /\ sync' \in Manifest
    BY <1>14, FullIsTree, TreeIsManifest DEF TypeOK, Preserve, Read, Accepted, Enter, Quiet, states
  <2>3. recovery' \subseteq Tree /\ backups' \subseteq Tree /\ snapshots' \in Seq(Taken)
         /\ (Keep > 0 => Len(snapshots') <= Keep)
    BY <1>14, FullIsTree DEF TypeOK, Preserve, Read, Accepted, Enter, Quiet, copies
  <2>4. pc' \in Phases /\ op' \in Ops
    BY <1>14 DEF TypeOK, Preserve, Read, Accepted, Enter, Quiet, Phases, Heads, Copies, Verifies, Ops, locals
  <2>5. head' \in Tree /\ stage' \in Tree /\ old' \in Tree /\ local' \in Tree
    BY <1>14, EmptyIsTree, FullIsTree DEF TypeOK, Preserve, Read, Accepted, Enter, Quiet, locals
  <2>6. at' \in [Roots -> {"todo", "out", "done"}]
    BY <1>14 DEF TypeOK, Preserve, Read, Accepted, Enter, Quiet, locals
  <2>7. got' \in Manifest /\ prev' \in Manifest /\ tries' \in 0..3 /\ start' \in Manifest
    BY <1>14, BlankIsManifest, TreeIsManifest DEF TypeOK, Preserve, Read, Accepted, Enter, Quiet, reader, Heads, Copies, Verifies
  <2>8. /\ known' \subseteq Content /\ captured' \subseteq Content /\ removed' \subseteq Content
       /\ missed' \subseteq Content /\ unapplied' \subseteq Content /\ commands' \in Nat
    BY <1>14, FullIsTree DEF TypeOK, Preserve, Read, Accepted, Enter, Quiet, Tree, Content, Absent, history
  <2> QED BY <2>1, <2>2, <2>3, <2>4, <2>5, <2>6, <2>7, <2>8 DEF TypeOK
<1>15. ASSUME Preserved PROVE TypeOK'
  <2>1. data' \in Tree /\ live' \in Tree /\ made' \in Nat
    BY <1>15, FullIsTree DEF TypeOK, Preserved, Read, Accepted, AfterCheck, Enter, locals, Tree, Content, Absent, files
  <2>2. base' \in Manifest /\ sync' \in Manifest
    BY <1>15, FullIsTree, TreeIsManifest DEF TypeOK, Preserved, Read, Accepted, AfterCheck, Enter, locals, states
  <2>3. recovery' \subseteq Tree /\ backups' \subseteq Tree /\ snapshots' \in Seq(Taken)
         /\ (Keep > 0 => Len(snapshots') <= Keep)
    BY <1>15, FullIsTree DEF TypeOK, Preserved, Read, Accepted, AfterCheck, Enter, locals, copies
  <2>4. pc' \in Phases /\ op' \in Ops
    BY <1>15 DEF TypeOK, Preserved, Read, Accepted, AfterCheck, Enter, locals, Phases, Heads, Copies, Verifies, Ops
  <2>5. head' \in Tree /\ stage' \in Tree /\ old' \in Tree /\ local' \in Tree
    BY <1>15, EmptyIsTree, FullIsTree DEF TypeOK, Preserved, Read, Accepted, AfterCheck, Enter, locals
  <2>6. at' \in [Roots -> {"todo", "out", "done"}]
    BY <1>15 DEF TypeOK, Preserved, Read, Accepted, AfterCheck, Enter, locals
  <2>7. got' \in Manifest /\ prev' \in Manifest /\ tries' \in 0..3 /\ start' \in Manifest
    BY <1>15, BlankIsManifest, TreeIsManifest DEF TypeOK, Preserved, Read, Accepted, AfterCheck, Enter, locals, reader, Heads, Copies, Verifies
  <2>8. /\ known' \subseteq Content /\ captured' \subseteq Content /\ removed' \subseteq Content
       /\ missed' \subseteq Content /\ unapplied' \subseteq Content /\ commands' \in Nat
    BY <1>15, FullIsTree DEF TypeOK, Preserved, Read, Accepted, AfterCheck, Enter, locals, Tree, Content, Absent, history
  <2> QED BY <2>1, <2>2, <2>3, <2>4, <2>5, <2>6, <2>7, <2>8 DEF TypeOK
<1>16. ASSUME Snapshotted PROVE TypeOK'
  <2>a. got \in Tree
    BY <1>16, FullIsTree DEF Snapshotted, Read, Accepted, TypeOK
  <2>b. snapshots' = Pruned(<<[id |-> commands, tree |-> got]>> \o snapshots) /\ [id |-> commands, tree |-> got] \in Taken
    BY <1>16, <2>a DEF Snapshotted, TypeOK, Taken
  <2>1. data' \in Tree /\ live' \in Tree /\ made' \in Nat
    BY <1>16, FullIsTree DEF TypeOK, Snapshotted, Read, Accepted, Enter, Finish, NoOp, locals, Tree, Content, Absent, files
  <2>2. base' \in Manifest /\ sync' \in Manifest
    BY <1>16, FullIsTree, TreeIsManifest DEF TypeOK, Snapshotted, Read, Accepted, Enter, Finish, NoOp, locals, states
  <2>3. recovery' \subseteq Tree /\ backups' \subseteq Tree /\ snapshots' \in Seq(Taken)
         /\ (Keep > 0 => Len(snapshots') <= Keep)
    BY <1>16, <2>a, <2>b, PruningKeeps DEF TypeOK, Snapshotted
  <2>4. pc' \in Phases /\ op' \in Ops
    <3>1. pc' \in Phases
      BY <1>16 DEF TypeOK, Snapshotted, Read, Accepted, Enter, Finish, NoOp, locals, Phases, Heads, Copies, Verifies
    <3>2. op' = NoOp \/ op' = op
      BY <1>16 DEF TypeOK, Snapshotted, Read, Accepted, Enter, Finish, NoOp, locals, locals
    <3>3. op' \in Ops
      BY <1>16, <3>2, NoOpIsOp DEF TypeOK, Snapshotted, Read, Accepted, Enter, Finish, NoOp, locals
    <3> QED BY <3>1, <3>2, <3>3
  <2>5. head' \in Tree /\ stage' \in Tree /\ old' \in Tree /\ local' \in Tree
    BY <1>16, EmptyIsTree, FullIsTree DEF TypeOK, Snapshotted, Read, Accepted, Enter, Finish, NoOp, locals, locals
  <2>6. at' \in [Roots -> {"todo", "out", "done"}]
    BY <1>16 DEF TypeOK, Snapshotted, Read, Accepted, Enter, Finish, NoOp, locals, locals
  <2>7. got' \in Manifest /\ prev' \in Manifest /\ tries' \in 0..3 /\ start' \in Manifest
    BY <1>16, BlankIsManifest, TreeIsManifest DEF TypeOK, Snapshotted, Read, Accepted, Enter, Finish, NoOp, locals, reader, Heads, Copies, Verifies
  <2>8. /\ known' \subseteq Content /\ captured' \subseteq Content /\ removed' \subseteq Content
       /\ missed' \subseteq Content /\ unapplied' \subseteq Content /\ commands' \in Nat
    BY <1>16, FullIsTree DEF TypeOK, Snapshotted, Read, Accepted, Enter, Finish, NoOp, locals, Tree, Content, Absent, history
  <2> QED BY <2>1, <2>2, <2>3, <2>4, <2>5, <2>6, <2>7, <2>8 DEF TypeOK
<1>17. ASSUME NEW r \in Roots, Capture(r) PROVE TypeOK'
  <2>1. data' \in Tree /\ live' \in Tree /\ made' \in Nat
    BY <1>17, FullIsTree DEF TypeOK, Capture, Captures, Tree, Content, Absent, files
  <2>2. base' \in Manifest /\ sync' \in Manifest
    BY <1>17, FullIsTree, TreeIsManifest DEF TypeOK, Capture, Captures, states
  <2>3. recovery' \subseteq Tree /\ backups' \subseteq Tree /\ snapshots' \in Seq(Taken)
         /\ (Keep > 0 => Len(snapshots') <= Keep)
    BY <1>17, FullIsTree DEF TypeOK, Capture, Captures, copies
  <2>4. pc' \in Phases /\ op' \in Ops
    BY <1>17 DEF TypeOK, Capture, Captures, Phases, Heads, Copies, Verifies, Ops, locals
  <2>5. head' \in Tree /\ stage' \in Tree /\ old' \in Tree /\ local' \in Tree
    BY <1>17, EmptyIsTree, FullIsTree DEF TypeOK, Capture, Captures, locals
  <2>6. at' \in [Roots -> {"todo", "out", "done"}]
    BY <1>17 DEF TypeOK, Capture, Captures, locals
  <2>7. got' \in Manifest /\ prev' \in Manifest /\ tries' \in 0..3 /\ start' \in Manifest
    BY <1>17, BlankIsManifest, TreeIsManifest DEF TypeOK, Capture, Captures, reader, Heads, Copies, Verifies
  <2>8. /\ known' \subseteq Content /\ captured' \subseteq Content /\ removed' \subseteq Content
       /\ missed' \subseteq Content /\ unapplied' \subseteq Content /\ commands' \in Nat
    <3>1. data[r] \in Content
      BY <1>17 DEF TypeOK, Capture, Captures, Tree
    <3>2. captured' \subseteq Content /\ missed' \subseteq Content
      BY <1>17, <3>1 DEF TypeOK, Capture, Captures
    <3>3. known' \subseteq Content /\ removed' \subseteq Content /\ unapplied' \subseteq Content /\ commands' \in Nat
      BY <1>17 DEF TypeOK, Capture, Captures, history
    <3> QED BY <3>1, <3>2, <3>3
  <2> QED BY <2>1, <2>2, <2>3, <2>4, <2>5, <2>6, <2>7, <2>8 DEF TypeOK
<1>18. ASSUME CaptureDone PROVE TypeOK'
  <2>1. data' \in Tree /\ live' \in Tree /\ made' \in Nat
    BY <1>18, FullIsTree DEF TypeOK, CaptureDone, Done, Enter, Quiet, Tree, Content, Absent, files
  <2>2. base' \in Manifest /\ sync' \in Manifest
    BY <1>18, FullIsTree, TreeIsManifest DEF TypeOK, CaptureDone, Done, Enter, Quiet, states
  <2>3. recovery' \subseteq Tree /\ backups' \subseteq Tree /\ snapshots' \in Seq(Taken)
         /\ (Keep > 0 => Len(snapshots') <= Keep)
    BY <1>18, FullIsTree DEF TypeOK, CaptureDone, Done, Enter, Quiet, copies
  <2>4. pc' \in Phases /\ op' \in Ops
    BY <1>18 DEF TypeOK, CaptureDone, Done, Enter, Quiet, Phases, Heads, Copies, Verifies, Ops, locals
  <2>5. head' \in Tree /\ stage' \in Tree /\ old' \in Tree /\ local' \in Tree
    BY <1>18, EmptyIsTree, FullIsTree DEF TypeOK, CaptureDone, Done, Enter, Quiet, locals
  <2>6. at' \in [Roots -> {"todo", "out", "done"}]
    BY <1>18 DEF TypeOK, CaptureDone, Done, Enter, Quiet, locals
  <2>7. got' \in Manifest /\ prev' \in Manifest /\ tries' \in 0..3 /\ start' \in Manifest
    BY <1>18, BlankIsManifest, TreeIsManifest DEF TypeOK, CaptureDone, Done, Enter, Quiet, reader, Heads, Copies, Verifies
  <2>8. /\ known' \subseteq Content /\ captured' \subseteq Content /\ removed' \subseteq Content
       /\ missed' \subseteq Content /\ unapplied' \subseteq Content /\ commands' \in Nat
    BY <1>18, FullIsTree DEF TypeOK, CaptureDone, Done, Enter, Quiet, Tree, Content, Absent, history
  <2> QED BY <2>1, <2>2, <2>3, <2>4, <2>5, <2>6, <2>7, <2>8 DEF TypeOK
<1>19. ASSUME Publish PROVE TypeOK'
  <2>1. data' \in Tree /\ live' \in Tree /\ made' \in Nat
    BY <1>19, FullIsTree DEF TypeOK, Publish, Read, Accepted, Enter, locals, Tree, Content, Absent, files
  <2>2. base' \in Manifest /\ sync' \in Manifest
    BY <1>19, FullIsTree, TreeIsManifest DEF TypeOK, Publish, Read, Accepted, Enter, locals, states
  <2>3. recovery' \subseteq Tree /\ backups' \subseteq Tree /\ snapshots' \in Seq(Taken)
         /\ (Keep > 0 => Len(snapshots') <= Keep)
    BY <1>19, FullIsTree DEF TypeOK, Publish, Read, Accepted, Enter, locals, copies
  <2>4. pc' \in Phases /\ op' \in Ops
    BY <1>19 DEF TypeOK, Publish, Read, Accepted, Enter, locals, Phases, Heads, Copies, Verifies, Ops, locals
  <2>5. head' \in Tree /\ stage' \in Tree /\ old' \in Tree /\ local' \in Tree
    BY <1>19, EmptyIsTree, FullIsTree DEF TypeOK, Publish, Read, Accepted, Enter, locals, locals
  <2>6. at' \in [Roots -> {"todo", "out", "done"}]
    BY <1>19 DEF TypeOK, Publish, Read, Accepted, Enter, locals, locals
  <2>7. got' \in Manifest /\ prev' \in Manifest /\ tries' \in 0..3 /\ start' \in Manifest
    BY <1>19, BlankIsManifest, TreeIsManifest DEF TypeOK, Publish, Read, Accepted, Enter, locals, reader, Heads, Copies, Verifies
  <2>8. /\ known' \subseteq Content /\ captured' \subseteq Content /\ removed' \subseteq Content
       /\ missed' \subseteq Content /\ unapplied' \subseteq Content /\ commands' \in Nat
    BY <1>19, FullIsTree DEF TypeOK, Publish, Read, Accepted, Enter, locals, Tree, Content, Absent, history
  <2> QED BY <2>1, <2>2, <2>3, <2>4, <2>5, <2>6, <2>7, <2>8 DEF TypeOK
<1>20. ASSUME Settle PROVE TypeOK'
  <2>1. data' \in Tree /\ live' \in Tree /\ made' \in Nat
    BY <1>20, FullIsTree DEF TypeOK, Settle, Finish, NoOp, Tree, Content, Absent, files
  <2>2. base' \in Manifest /\ sync' \in Manifest
    BY <1>20, FullIsTree, TreeIsManifest DEF TypeOK, Settle, Finish, NoOp, states
  <2>3. recovery' \subseteq Tree /\ backups' \subseteq Tree /\ snapshots' \in Seq(Taken)
         /\ (Keep > 0 => Len(snapshots') <= Keep)
    BY <1>20, FullIsTree DEF TypeOK, Settle, Finish, NoOp, copies
  <2>4. pc' \in Phases /\ op' \in Ops
    BY <1>20 DEF TypeOK, Settle, Finish, NoOp, Phases, Heads, Copies, Verifies, Ops, locals
  <2>5. head' \in Tree /\ stage' \in Tree /\ old' \in Tree /\ local' \in Tree
    BY <1>20, EmptyIsTree, FullIsTree DEF TypeOK, Settle, Finish, NoOp, locals
  <2>6. at' \in [Roots -> {"todo", "out", "done"}]
    BY <1>20 DEF TypeOK, Settle, Finish, NoOp, locals
  <2>7. got' \in Manifest /\ prev' \in Manifest /\ tries' \in 0..3 /\ start' \in Manifest
    BY <1>20, BlankIsManifest, TreeIsManifest DEF TypeOK, Settle, Finish, NoOp, reader, Heads, Copies, Verifies
  <2>8. /\ known' \subseteq Content /\ captured' \subseteq Content /\ removed' \subseteq Content
       /\ missed' \subseteq Content /\ unapplied' \subseteq Content /\ commands' \in Nat
    BY <1>20, FullIsTree DEF TypeOK, Settle, Finish, NoOp, Tree, Content, Absent, history
  <2> QED BY <2>1, <2>2, <2>3, <2>4, <2>5, <2>6, <2>7, <2>8 DEF TypeOK
<1>21. ASSUME Fetch PROVE TypeOK'
  <2>1. data' \in Tree /\ live' \in Tree /\ made' \in Nat
    BY <1>21, FullIsTree DEF TypeOK, Fetch, Read, Accepted, Enter, Tree, Content, Absent, files
  <2>2. base' \in Manifest /\ sync' \in Manifest
    BY <1>21, FullIsTree, TreeIsManifest DEF TypeOK, Fetch, Read, Accepted, Enter, states
  <2>3. recovery' \subseteq Tree /\ backups' \subseteq Tree /\ snapshots' \in Seq(Taken)
         /\ (Keep > 0 => Len(snapshots') <= Keep)
    BY <1>21, FullIsTree DEF TypeOK, Fetch, Read, Accepted, Enter, copies
  <2>4. pc' \in Phases /\ op' \in Ops
    BY <1>21 DEF TypeOK, Fetch, Read, Accepted, Enter, Phases, Heads, Copies, Verifies, Ops, locals
  <2>5. head' \in Tree /\ stage' \in Tree /\ old' \in Tree /\ local' \in Tree
    BY <1>21, EmptyIsTree, FullIsTree DEF TypeOK, Fetch, Read, Accepted, Enter, locals
  <2>6. at' \in [Roots -> {"todo", "out", "done"}]
    BY <1>21 DEF TypeOK, Fetch, Read, Accepted, Enter, locals
  <2>7. got' \in Manifest /\ prev' \in Manifest /\ tries' \in 0..3 /\ start' \in Manifest
    BY <1>21, BlankIsManifest, TreeIsManifest DEF TypeOK, Fetch, Read, Accepted, Enter, reader, Heads, Copies, Verifies
  <2>8. /\ known' \subseteq Content /\ captured' \subseteq Content /\ removed' \subseteq Content
       /\ missed' \subseteq Content /\ unapplied' \subseteq Content /\ commands' \in Nat
    BY <1>21, FullIsTree DEF TypeOK, Fetch, Read, Accepted, Enter, Tree, Content, Absent, history
  <2> QED BY <2>1, <2>2, <2>3, <2>4, <2>5, <2>6, <2>7, <2>8 DEF TypeOK
<1>22. ASSUME SameHead PROVE TypeOK'
  <2>1. data' \in Tree /\ live' \in Tree /\ made' \in Nat
    BY <1>22, FullIsTree DEF TypeOK, SameHead, Read, Accepted, Enter, Quiet, Tree, Content, Absent, files
  <2>2. base' \in Manifest /\ sync' \in Manifest
    BY <1>22, FullIsTree, TreeIsManifest DEF TypeOK, SameHead, Read, Accepted, Enter, Quiet, states
  <2>3. recovery' \subseteq Tree /\ backups' \subseteq Tree /\ snapshots' \in Seq(Taken)
         /\ (Keep > 0 => Len(snapshots') <= Keep)
    BY <1>22, FullIsTree DEF TypeOK, SameHead, Read, Accepted, Enter, Quiet, copies
  <2>4. pc' \in Phases /\ op' \in Ops
    BY <1>22 DEF TypeOK, SameHead, Read, Accepted, Enter, Quiet, Phases, Heads, Copies, Verifies, Ops, locals
  <2>5. head' \in Tree /\ stage' \in Tree /\ old' \in Tree /\ local' \in Tree
    BY <1>22, EmptyIsTree, FullIsTree DEF TypeOK, SameHead, Read, Accepted, Enter, Quiet, locals
  <2>6. at' \in [Roots -> {"todo", "out", "done"}]
    BY <1>22 DEF TypeOK, SameHead, Read, Accepted, Enter, Quiet, locals
  <2>7. got' \in Manifest /\ prev' \in Manifest /\ tries' \in 0..3 /\ start' \in Manifest
    BY <1>22, BlankIsManifest, TreeIsManifest DEF TypeOK, SameHead, Read, Accepted, Enter, Quiet, reader, Heads, Copies, Verifies
  <2>8. /\ known' \subseteq Content /\ captured' \subseteq Content /\ removed' \subseteq Content
       /\ missed' \subseteq Content /\ unapplied' \subseteq Content /\ commands' \in Nat
    BY <1>22, FullIsTree DEF TypeOK, SameHead, Read, Accepted, Enter, Quiet, Tree, Content, Absent, history
  <2> QED BY <2>1, <2>2, <2>3, <2>4, <2>5, <2>6, <2>7, <2>8 DEF TypeOK
<1>23. ASSUME Acknowledged PROVE TypeOK'
  <2>1. data' \in Tree /\ live' \in Tree /\ made' \in Nat
    BY <1>23, FullIsTree DEF TypeOK, Acknowledged, Read, Accepted, Finish, NoOp, Tree, Content, Absent, files
  <2>2. base' \in Manifest /\ sync' \in Manifest
    BY <1>23, FullIsTree, TreeIsManifest DEF TypeOK, Acknowledged, Read, Accepted, Finish, NoOp, states
  <2>3. recovery' \subseteq Tree /\ backups' \subseteq Tree /\ snapshots' \in Seq(Taken)
         /\ (Keep > 0 => Len(snapshots') <= Keep)
    BY <1>23, FullIsTree DEF TypeOK, Acknowledged, Read, Accepted, Finish, NoOp, copies
  <2>4. pc' \in Phases /\ op' \in Ops
    BY <1>23 DEF TypeOK, Acknowledged, Read, Accepted, Finish, NoOp, Phases, Heads, Copies, Verifies, Ops, locals
  <2>5. head' \in Tree /\ stage' \in Tree /\ old' \in Tree /\ local' \in Tree
    BY <1>23, EmptyIsTree, FullIsTree DEF TypeOK, Acknowledged, Read, Accepted, Finish, NoOp, locals
  <2>6. at' \in [Roots -> {"todo", "out", "done"}]
    BY <1>23 DEF TypeOK, Acknowledged, Read, Accepted, Finish, NoOp, locals
  <2>7. got' \in Manifest /\ prev' \in Manifest /\ tries' \in 0..3 /\ start' \in Manifest
    BY <1>23, BlankIsManifest, TreeIsManifest DEF TypeOK, Acknowledged, Read, Accepted, Finish, NoOp, reader, Heads, Copies, Verifies
  <2>8. /\ known' \subseteq Content /\ captured' \subseteq Content /\ removed' \subseteq Content
       /\ missed' \subseteq Content /\ unapplied' \subseteq Content /\ commands' \in Nat
    <3>1. In({head}) \subseteq Content
      BY <1>23, ContentsOfTree DEF TypeOK, Acknowledged, Read, Accepted, Finish, NoOp
    <3>2. unapplied' \subseteq Content
      BY <1>23, <3>1 DEF TypeOK, Acknowledged, Read, Accepted, Finish, NoOp
    <3>3. missed' \subseteq Content
      BY <1>23, <3>1 DEF TypeOK, Acknowledged, Read, Accepted, Finish, NoOp
    <3>4. known' \subseteq Content /\ captured' \subseteq Content /\ removed' \subseteq Content /\ commands' \in Nat
      BY <1>23 DEF TypeOK, Acknowledged, Read, Accepted, Finish, NoOp, history
    <3> QED BY <3>1, <3>2, <3>3, <3>4
  <2> QED BY <2>1, <2>2, <2>3, <2>4, <2>5, <2>6, <2>7, <2>8 DEF TypeOK
<1>24. ASSUME Guard PROVE TypeOK'
  <2>1. data' \in Tree /\ live' \in Tree /\ made' \in Nat
    BY <1>24, FullIsTree DEF TypeOK, Guard, Enter, Tree, Content, Absent, files
  <2>2. base' \in Manifest /\ sync' \in Manifest
    BY <1>24, FullIsTree, TreeIsManifest DEF TypeOK, Guard, Enter, states
  <2>3. recovery' \subseteq Tree /\ backups' \subseteq Tree /\ snapshots' \in Seq(Taken)
         /\ (Keep > 0 => Len(snapshots') <= Keep)
    BY <1>24, FullIsTree DEF TypeOK, Guard, Enter, copies
  <2>4. pc' \in Phases /\ op' \in Ops
    BY <1>24 DEF TypeOK, Guard, Enter, Phases, Heads, Copies, Verifies, Ops, locals
  <2>5. head' \in Tree /\ stage' \in Tree /\ old' \in Tree /\ local' \in Tree
    BY <1>24, EmptyIsTree, FullIsTree DEF TypeOK, Guard, Enter, locals
  <2>6. at' \in [Roots -> {"todo", "out", "done"}]
    BY <1>24 DEF TypeOK, Guard, Enter, locals
  <2>7. got' \in Manifest /\ prev' \in Manifest /\ tries' \in 0..3 /\ start' \in Manifest
    BY <1>24, BlankIsManifest, TreeIsManifest DEF TypeOK, Guard, Enter, reader, Heads, Copies, Verifies
  <2>8. /\ known' \subseteq Content /\ captured' \subseteq Content /\ removed' \subseteq Content
       /\ missed' \subseteq Content /\ unapplied' \subseteq Content /\ commands' \in Nat
    BY <1>24, FullIsTree DEF TypeOK, Guard, Enter, Tree, Content, Absent, history
  <2> QED BY <2>1, <2>2, <2>3, <2>4, <2>5, <2>6, <2>7, <2>8 DEF TypeOK
<1>25. ASSUME Unchanged PROVE TypeOK'
  <2>1. data' \in Tree /\ live' \in Tree /\ made' \in Nat
    BY <1>25, FullIsTree DEF TypeOK, Unchanged, Enter, Quiet, Tree, Content, Absent, files
  <2>2. base' \in Manifest /\ sync' \in Manifest
    BY <1>25, FullIsTree, TreeIsManifest DEF TypeOK, Unchanged, Enter, Quiet, states
  <2>3. recovery' \subseteq Tree /\ backups' \subseteq Tree /\ snapshots' \in Seq(Taken)
         /\ (Keep > 0 => Len(snapshots') <= Keep)
    BY <1>25, FullIsTree DEF TypeOK, Unchanged, Enter, Quiet, copies
  <2>4. pc' \in Phases /\ op' \in Ops
    BY <1>25 DEF TypeOK, Unchanged, Enter, Quiet, Phases, Heads, Copies, Verifies, Ops, locals
  <2>5. head' \in Tree /\ stage' \in Tree /\ old' \in Tree /\ local' \in Tree
    BY <1>25, EmptyIsTree, FullIsTree DEF TypeOK, Unchanged, Enter, Quiet, locals
  <2>6. at' \in [Roots -> {"todo", "out", "done"}]
    BY <1>25 DEF TypeOK, Unchanged, Enter, Quiet, locals
  <2>7. got' \in Manifest /\ prev' \in Manifest /\ tries' \in 0..3 /\ start' \in Manifest
    BY <1>25, BlankIsManifest, TreeIsManifest DEF TypeOK, Unchanged, Enter, Quiet, reader, Heads, Copies, Verifies
  <2>8. /\ known' \subseteq Content /\ captured' \subseteq Content /\ removed' \subseteq Content
       /\ missed' \subseteq Content /\ unapplied' \subseteq Content /\ commands' \in Nat
    BY <1>25, FullIsTree DEF TypeOK, Unchanged, Enter, Quiet, Tree, Content, Absent, history
  <2> QED BY <2>1, <2>2, <2>3, <2>4, <2>5, <2>6, <2>7, <2>8 DEF TypeOK
<1>26. ASSUME NEW r \in Roots, Apply(r) PROVE TypeOK'
  <2>1. data' \in Tree /\ live' \in Tree /\ made' \in Nat
    BY <1>26, FullIsTree DEF TypeOK, Apply, Tree, Content, Absent, files
  <2>2. base' \in Manifest /\ sync' \in Manifest
    BY <1>26, FullIsTree, TreeIsManifest DEF TypeOK, Apply, states
  <2>3. recovery' \subseteq Tree /\ backups' \subseteq Tree /\ snapshots' \in Seq(Taken)
         /\ (Keep > 0 => Len(snapshots') <= Keep)
    BY <1>26, FullIsTree DEF TypeOK, Apply, copies
  <2>4. pc' \in Phases /\ op' \in Ops
    BY <1>26 DEF TypeOK, Apply, Phases, Heads, Copies, Verifies, Ops, locals
  <2>5. head' \in Tree /\ stage' \in Tree /\ old' \in Tree /\ local' \in Tree
    BY <1>26, EmptyIsTree, FullIsTree DEF TypeOK, Apply, locals
  <2>6. at' \in [Roots -> {"todo", "out", "done"}]
    BY <1>26 DEF TypeOK, Apply, locals
  <2>7. got' \in Manifest /\ prev' \in Manifest /\ tries' \in 0..3 /\ start' \in Manifest
    BY <1>26, BlankIsManifest, TreeIsManifest DEF TypeOK, Apply, reader, Heads, Copies, Verifies
  <2>8. /\ known' \subseteq Content /\ captured' \subseteq Content /\ removed' \subseteq Content
       /\ missed' \subseteq Content /\ unapplied' \subseteq Content /\ commands' \in Nat
    <3>1. stage[r] \in Content
      BY <1>26 DEF TypeOK, Apply, Tree
    <3>2. known' \subseteq Content
      BY <1>26, <3>1 DEF TypeOK, Apply, history
    <3>3. /\ captured' \subseteq Content /\ removed' \subseteq Content
         /\ missed' \subseteq Content /\ unapplied' \subseteq Content /\ commands' \in Nat
      BY <1>26 DEF TypeOK, Apply, history
    <3> QED BY <3>1, <3>2, <3>3
  <2> QED BY <2>1, <2>2, <2>3, <2>4, <2>5, <2>6, <2>7, <2>8 DEF TypeOK
<1>27. ASSUME ApplyDone PROVE TypeOK'
  <2>1. data' \in Tree /\ live' \in Tree /\ made' \in Nat
    BY <1>27, FullIsTree DEF TypeOK, ApplyDone, Done, Enter, Quiet, Tree, Content, Absent, files
  <2>2. base' \in Manifest /\ sync' \in Manifest
    BY <1>27, FullIsTree, TreeIsManifest DEF TypeOK, ApplyDone, Done, Enter, Quiet, states
  <2>3. recovery' \subseteq Tree /\ backups' \subseteq Tree /\ snapshots' \in Seq(Taken)
         /\ (Keep > 0 => Len(snapshots') <= Keep)
    BY <1>27, FullIsTree DEF TypeOK, ApplyDone, Done, Enter, Quiet, copies
  <2>4. pc' \in Phases /\ op' \in Ops
    BY <1>27 DEF TypeOK, ApplyDone, Done, Enter, Quiet, Phases, Heads, Copies, Verifies, Ops, locals
  <2>5. head' \in Tree /\ stage' \in Tree /\ old' \in Tree /\ local' \in Tree
    BY <1>27, EmptyIsTree, FullIsTree DEF TypeOK, ApplyDone, Done, Enter, Quiet, locals
  <2>6. at' \in [Roots -> {"todo", "out", "done"}]
    BY <1>27 DEF TypeOK, ApplyDone, Done, Enter, Quiet, locals
  <2>7. got' \in Manifest /\ prev' \in Manifest /\ tries' \in 0..3 /\ start' \in Manifest
    BY <1>27, BlankIsManifest, TreeIsManifest DEF TypeOK, ApplyDone, Done, Enter, Quiet, reader, Heads, Copies, Verifies
  <2>8. /\ known' \subseteq Content /\ captured' \subseteq Content /\ removed' \subseteq Content
       /\ missed' \subseteq Content /\ unapplied' \subseteq Content /\ commands' \in Nat
    BY <1>27, FullIsTree DEF TypeOK, ApplyDone, Done, Enter, Quiet, Tree, Content, Absent, history
  <2> QED BY <2>1, <2>2, <2>3, <2>4, <2>5, <2>6, <2>7, <2>8 DEF TypeOK
<1>28. ASSUME Pulled PROVE TypeOK'
  <2>1. data' \in Tree /\ live' \in Tree /\ made' \in Nat
    BY <1>28, FullIsTree DEF TypeOK, Pulled, Read, Accepted, Enter, locals, Tree, Content, Absent, files
  <2>2. base' \in Manifest /\ sync' \in Manifest
    BY <1>28, FullIsTree, TreeIsManifest DEF TypeOK, Pulled, Read, Accepted, Enter, locals, states
  <2>3. recovery' \subseteq Tree /\ backups' \subseteq Tree /\ snapshots' \in Seq(Taken)
         /\ (Keep > 0 => Len(snapshots') <= Keep)
    BY <1>28, FullIsTree DEF TypeOK, Pulled, Read, Accepted, Enter, locals, copies
  <2>4. pc' \in Phases /\ op' \in Ops
    BY <1>28 DEF TypeOK, Pulled, Read, Accepted, Enter, locals, Phases, Heads, Copies, Verifies, Ops
  <2>5. head' \in Tree /\ stage' \in Tree /\ old' \in Tree /\ local' \in Tree
    BY <1>28, EmptyIsTree, FullIsTree DEF TypeOK, Pulled, Read, Accepted, Enter, locals
  <2>6. at' \in [Roots -> {"todo", "out", "done"}]
    BY <1>28 DEF TypeOK, Pulled, Read, Accepted, Enter, locals
  <2>7. got' \in Manifest /\ prev' \in Manifest /\ tries' \in 0..3 /\ start' \in Manifest
    BY <1>28, BlankIsManifest, TreeIsManifest DEF TypeOK, Pulled, Read, Accepted, Enter, locals, reader, Heads, Copies, Verifies
  <2>8. /\ known' \subseteq Content /\ captured' \subseteq Content /\ removed' \subseteq Content
       /\ missed' \subseteq Content /\ unapplied' \subseteq Content /\ commands' \in Nat
    BY <1>28, FullIsTree DEF TypeOK, Pulled, Read, Accepted, Enter, locals, Tree, Content, Absent, history
  <2> QED BY <2>1, <2>2, <2>3, <2>4, <2>5, <2>6, <2>7, <2>8 DEF TypeOK
<1>29. ASSUME BackedUp PROVE TypeOK'
  <2>1. data' \in Tree /\ live' \in Tree /\ made' \in Nat
    BY <1>29, FullIsTree DEF TypeOK, BackedUp, Read, Accepted, Selected, Present, Enter, Tree, Content, Absent, files
  <2>2. base' \in Manifest /\ sync' \in Manifest
    BY <1>29, FullIsTree, TreeIsManifest DEF TypeOK, BackedUp, Read, Accepted, Selected, Present, Enter, states
  <2>3. recovery' \subseteq Tree /\ backups' \subseteq Tree /\ snapshots' \in Seq(Taken)
         /\ (Keep > 0 => Len(snapshots') <= Keep)
    BY <1>29, FullIsTree DEF TypeOK, BackedUp, Read, Accepted, Selected, Present, Enter, copies
  <2>4. pc' \in Phases /\ op' \in Ops
    BY <1>29 DEF TypeOK, BackedUp, Read, Accepted, Selected, Present, Enter, Phases, Heads, Copies, Verifies, Ops, locals
  <2>5. head' \in Tree /\ stage' \in Tree /\ old' \in Tree /\ local' \in Tree
    BY <1>29, EmptyIsTree, FullIsTree DEF TypeOK, BackedUp, Read, Accepted, Selected, Present, Enter, locals
  <2>6. at' \in [Roots -> {"todo", "out", "done"}]
    BY <1>29 DEF TypeOK, BackedUp, Read, Accepted, Selected, Present, Enter, locals
  <2>7. got' \in Manifest /\ prev' \in Manifest /\ tries' \in 0..3 /\ start' \in Manifest
    BY <1>29, BlankIsManifest, TreeIsManifest DEF TypeOK, BackedUp, Read, Accepted, Selected, Present, Enter, reader, Heads, Copies, Verifies
  <2>8. /\ known' \subseteq Content /\ captured' \subseteq Content /\ removed' \subseteq Content
       /\ missed' \subseteq Content /\ unapplied' \subseteq Content /\ commands' \in Nat
    BY <1>29, FullIsTree DEF TypeOK, BackedUp, Read, Accepted, Selected, Present, Enter, Tree, Content, Absent, history
  <2> QED BY <2>1, <2>2, <2>3, <2>4, <2>5, <2>6, <2>7, <2>8 DEF TypeOK
<1>30. ASSUME NEW r \in Roots, Remove(r) PROVE TypeOK'
  <2>1. data' \in Tree /\ live' \in Tree /\ made' \in Nat
    BY <1>30, FullIsTree DEF TypeOK, Remove, Busy, Tree, Content, Absent, files
  <2>2. base' \in Manifest /\ sync' \in Manifest
    BY <1>30, FullIsTree, TreeIsManifest DEF TypeOK, Remove, Busy, states
  <2>3. recovery' \subseteq Tree /\ backups' \subseteq Tree /\ snapshots' \in Seq(Taken)
         /\ (Keep > 0 => Len(snapshots') <= Keep)
    BY <1>30, FullIsTree DEF TypeOK, Remove, Busy, copies
  <2>4. pc' \in Phases /\ op' \in Ops
    BY <1>30 DEF TypeOK, Remove, Busy, Phases, Heads, Copies, Verifies, Ops, locals
  <2>5. head' \in Tree /\ stage' \in Tree /\ old' \in Tree /\ local' \in Tree
    BY <1>30, EmptyIsTree, FullIsTree DEF TypeOK, Remove, Busy, locals
  <2>6. at' \in [Roots -> {"todo", "out", "done"}]
    BY <1>30 DEF TypeOK, Remove, Busy, locals
  <2>7. got' \in Manifest /\ prev' \in Manifest /\ tries' \in 0..3 /\ start' \in Manifest
    BY <1>30, BlankIsManifest, TreeIsManifest DEF TypeOK, Remove, Busy, reader, Heads, Copies, Verifies
  <2>8. /\ known' \subseteq Content /\ captured' \subseteq Content /\ removed' \subseteq Content
       /\ missed' \subseteq Content /\ unapplied' \subseteq Content /\ commands' \in Nat
    BY <1>30, FullIsTree DEF TypeOK, Remove, Busy, Tree, Content, Absent, history
  <2> QED BY <2>1, <2>2, <2>3, <2>4, <2>5, <2>6, <2>7, <2>8 DEF TypeOK
<1>31. ASSUME NEW r \in Roots, Place(r) PROVE TypeOK'
  <2>1. data' \in Tree /\ live' \in Tree /\ made' \in Nat
    BY <1>31, FullIsTree DEF TypeOK, Place, Target, Tree, Content, Absent, files
  <2>2. base' \in Manifest /\ sync' \in Manifest
    BY <1>31, FullIsTree, TreeIsManifest DEF TypeOK, Place, Target, states
  <2>3. recovery' \subseteq Tree /\ backups' \subseteq Tree /\ snapshots' \in Seq(Taken)
         /\ (Keep > 0 => Len(snapshots') <= Keep)
    BY <1>31, FullIsTree DEF TypeOK, Place, Target, copies
  <2>4. pc' \in Phases /\ op' \in Ops
    BY <1>31 DEF TypeOK, Place, Target, Phases, Heads, Copies, Verifies, Ops, locals
  <2>5. head' \in Tree /\ stage' \in Tree /\ old' \in Tree /\ local' \in Tree
    BY <1>31, EmptyIsTree, FullIsTree DEF TypeOK, Place, Target, locals
  <2>6. at' \in [Roots -> {"todo", "out", "done"}]
    BY <1>31 DEF TypeOK, Place, Target, locals
  <2>7. got' \in Manifest /\ prev' \in Manifest /\ tries' \in 0..3 /\ start' \in Manifest
    BY <1>31, BlankIsManifest, TreeIsManifest DEF TypeOK, Place, Target, reader, Heads, Copies, Verifies
  <2>8. /\ known' \subseteq Content /\ captured' \subseteq Content /\ removed' \subseteq Content
       /\ missed' \subseteq Content /\ unapplied' \subseteq Content /\ commands' \in Nat
    BY <1>31, FullIsTree DEF TypeOK, Place, Target, Tree, Content, Absent, history
  <2> QED BY <2>1, <2>2, <2>3, <2>4, <2>5, <2>6, <2>7, <2>8 DEF TypeOK
<1>32. ASSUME PlaceDone PROVE TypeOK'
  <2>1. data' \in Tree /\ live' \in Tree /\ made' \in Nat
    BY <1>32, FullIsTree DEF TypeOK, PlaceDone, Done, Enter, Quiet, Tree, Content, Absent, files
  <2>2. base' \in Manifest /\ sync' \in Manifest
    BY <1>32, FullIsTree, TreeIsManifest DEF TypeOK, PlaceDone, Done, Enter, Quiet, states
  <2>3. recovery' \subseteq Tree /\ backups' \subseteq Tree /\ snapshots' \in Seq(Taken)
         /\ (Keep > 0 => Len(snapshots') <= Keep)
    BY <1>32, FullIsTree DEF TypeOK, PlaceDone, Done, Enter, Quiet, copies
  <2>4. pc' \in Phases /\ op' \in Ops
    BY <1>32 DEF TypeOK, PlaceDone, Done, Enter, Quiet, Phases, Heads, Copies, Verifies, Ops, locals
  <2>5. head' \in Tree /\ stage' \in Tree /\ old' \in Tree /\ local' \in Tree
    BY <1>32, EmptyIsTree, FullIsTree DEF TypeOK, PlaceDone, Done, Enter, Quiet, locals
  <2>6. at' \in [Roots -> {"todo", "out", "done"}]
    BY <1>32 DEF TypeOK, PlaceDone, Done, Enter, Quiet, locals
  <2>7. got' \in Manifest /\ prev' \in Manifest /\ tries' \in 0..3 /\ start' \in Manifest
    BY <1>32, BlankIsManifest, TreeIsManifest DEF TypeOK, PlaceDone, Done, Enter, Quiet, reader, Heads, Copies, Verifies
  <2>8. /\ known' \subseteq Content /\ captured' \subseteq Content /\ removed' \subseteq Content
       /\ missed' \subseteq Content /\ unapplied' \subseteq Content /\ commands' \in Nat
    BY <1>32, FullIsTree DEF TypeOK, PlaceDone, Done, Enter, Quiet, Tree, Content, Absent, history
  <2> QED BY <2>1, <2>2, <2>3, <2>4, <2>5, <2>6, <2>7, <2>8 DEF TypeOK
<1>33. ASSUME ReplaceFails PROVE TypeOK'
  <2>1. data' \in Tree /\ live' \in Tree /\ made' \in Nat
    BY <1>33, FullIsTree DEF TypeOK, ReplaceFails, Accepted, Enter, Tree, Content, Absent, files
  <2>2. base' \in Manifest /\ sync' \in Manifest
    BY <1>33, FullIsTree, TreeIsManifest DEF TypeOK, ReplaceFails, Accepted, Enter, states
  <2>3. recovery' \subseteq Tree /\ backups' \subseteq Tree /\ snapshots' \in Seq(Taken)
         /\ (Keep > 0 => Len(snapshots') <= Keep)
    BY <1>33, FullIsTree DEF TypeOK, ReplaceFails, Accepted, Enter, copies
  <2>4. pc' \in Phases /\ op' \in Ops
    BY <1>33 DEF TypeOK, ReplaceFails, Accepted, Enter, Phases, Heads, Copies, Verifies, Ops, locals
  <2>5. head' \in Tree /\ stage' \in Tree /\ old' \in Tree /\ local' \in Tree
    BY <1>33, EmptyIsTree, FullIsTree DEF TypeOK, ReplaceFails, Accepted, Enter, locals
  <2>6. at' \in [Roots -> {"todo", "out", "done"}]
    BY <1>33 DEF TypeOK, ReplaceFails, Accepted, Enter, locals
  <2>7. got' \in Manifest /\ prev' \in Manifest /\ tries' \in 0..3 /\ start' \in Manifest
    BY <1>33, BlankIsManifest, TreeIsManifest DEF TypeOK, ReplaceFails, Accepted, Enter, reader, Heads, Copies, Verifies
  <2>8. /\ known' \subseteq Content /\ captured' \subseteq Content /\ removed' \subseteq Content
       /\ missed' \subseteq Content /\ unapplied' \subseteq Content /\ commands' \in Nat
    BY <1>33, FullIsTree DEF TypeOK, ReplaceFails, Accepted, Enter, Tree, Content, Absent, history
  <2> QED BY <2>1, <2>2, <2>3, <2>4, <2>5, <2>6, <2>7, <2>8 DEF TypeOK
<1>34. ASSUME Undone PROVE TypeOK'
  <2>1. data' \in Tree /\ live' \in Tree /\ made' \in Nat
    BY <1>34, FullIsTree DEF TypeOK, Undone, Read, Accepted, Finish, NoOp, Tree, Content, Absent, files
  <2>2. base' \in Manifest /\ sync' \in Manifest
    BY <1>34, FullIsTree, TreeIsManifest DEF TypeOK, Undone, Read, Accepted, Finish, NoOp, states
  <2>3. recovery' \subseteq Tree /\ backups' \subseteq Tree /\ snapshots' \in Seq(Taken)
         /\ (Keep > 0 => Len(snapshots') <= Keep)
    BY <1>34, FullIsTree DEF TypeOK, Undone, Read, Accepted, Finish, NoOp, copies
  <2>4. pc' \in Phases /\ op' \in Ops
    BY <1>34 DEF TypeOK, Undone, Read, Accepted, Finish, NoOp, Phases, Heads, Copies, Verifies, Ops, locals
  <2>5. head' \in Tree /\ stage' \in Tree /\ old' \in Tree /\ local' \in Tree
    BY <1>34, EmptyIsTree, FullIsTree DEF TypeOK, Undone, Read, Accepted, Finish, NoOp, locals
  <2>6. at' \in [Roots -> {"todo", "out", "done"}]
    BY <1>34 DEF TypeOK, Undone, Read, Accepted, Finish, NoOp, locals
  <2>7. got' \in Manifest /\ prev' \in Manifest /\ tries' \in 0..3 /\ start' \in Manifest
    BY <1>34, BlankIsManifest, TreeIsManifest DEF TypeOK, Undone, Read, Accepted, Finish, NoOp, reader, Heads, Copies, Verifies
  <2>8. /\ known' \subseteq Content /\ captured' \subseteq Content /\ removed' \subseteq Content
       /\ missed' \subseteq Content /\ unapplied' \subseteq Content /\ commands' \in Nat
    BY <1>34, FullIsTree DEF TypeOK, Undone, Read, Accepted, Finish, NoOp, Tree, Content, Absent, history
  <2> QED BY <2>1, <2>2, <2>3, <2>4, <2>5, <2>6, <2>7, <2>8 DEF TypeOK
<1>35. ASSUME Installed PROVE TypeOK'
  <2>1. data' \in Tree /\ live' \in Tree /\ made' \in Nat
    BY <1>35, FullIsTree DEF TypeOK, Installed, Read, Accepted, Enter, Tree, Content, Absent, files
  <2>2. base' \in Manifest /\ sync' \in Manifest
    BY <1>35, FullIsTree, TreeIsManifest DEF TypeOK, Installed, Read, Accepted, Enter, states
  <2>3. recovery' \subseteq Tree /\ backups' \subseteq Tree /\ snapshots' \in Seq(Taken)
         /\ (Keep > 0 => Len(snapshots') <= Keep)
    BY <1>35, FullIsTree DEF TypeOK, Installed, Read, Accepted, Enter, copies
  <2>4. pc' \in Phases /\ op' \in Ops
    BY <1>35 DEF TypeOK, Installed, Read, Accepted, Enter, Phases, Heads, Copies, Verifies, Ops, locals
  <2>5. head' \in Tree /\ stage' \in Tree /\ old' \in Tree /\ local' \in Tree
    BY <1>35, EmptyIsTree, FullIsTree DEF TypeOK, Installed, Read, Accepted, Enter, locals
  <2>6. at' \in [Roots -> {"todo", "out", "done"}]
    BY <1>35 DEF TypeOK, Installed, Read, Accepted, Enter, locals
  <2>7. got' \in Manifest /\ prev' \in Manifest /\ tries' \in 0..3 /\ start' \in Manifest
    BY <1>35, BlankIsManifest, TreeIsManifest DEF TypeOK, Installed, Read, Accepted, Enter, reader, Heads, Copies, Verifies
  <2>8. /\ known' \subseteq Content /\ captured' \subseteq Content /\ removed' \subseteq Content
       /\ missed' \subseteq Content /\ unapplied' \subseteq Content /\ commands' \in Nat
    BY <1>35, FullIsTree DEF TypeOK, Installed, Read, Accepted, Enter, Tree, Content, Absent, history
  <2> QED BY <2>1, <2>2, <2>3, <2>4, <2>5, <2>6, <2>7, <2>8 DEF TypeOK
<1>36. ASSUME Restored PROVE TypeOK'
  <2>1. data' \in Tree /\ live' \in Tree /\ made' \in Nat
    BY <1>36, FullIsTree DEF TypeOK, Restored, Read, Accepted, Enter, Finish, NoOp, locals, Tree, Content, Absent, files
  <2>2. base' \in Manifest /\ sync' \in Manifest
    BY <1>36, FullIsTree, TreeIsManifest DEF TypeOK, Restored, Read, Accepted, Enter, Finish, NoOp, locals, states
  <2>3. recovery' \subseteq Tree /\ backups' \subseteq Tree /\ snapshots' \in Seq(Taken)
         /\ (Keep > 0 => Len(snapshots') <= Keep)
    BY <1>36, FullIsTree DEF TypeOK, Restored, Read, Accepted, Enter, Finish, NoOp, locals, copies
  <2>4. pc' \in Phases /\ op' \in Ops
    <3>1. pc' \in Phases
      BY <1>36 DEF TypeOK, Restored, Read, Accepted, Enter, Finish, NoOp, locals, Phases, Heads, Copies, Verifies
    <3>2. op' = NoOp \/ op' = op
      BY <1>36 DEF TypeOK, Restored, Read, Accepted, Enter, Finish, NoOp, locals, locals
    <3>3. op' \in Ops
      BY <1>36, <3>2, NoOpIsOp DEF TypeOK, Restored, Read, Accepted, Enter, Finish, NoOp, locals
    <3> QED BY <3>1, <3>2, <3>3
  <2>5. head' \in Tree /\ stage' \in Tree /\ old' \in Tree /\ local' \in Tree
    BY <1>36, EmptyIsTree, FullIsTree DEF TypeOK, Restored, Read, Accepted, Enter, Finish, NoOp, locals, locals
  <2>6. at' \in [Roots -> {"todo", "out", "done"}]
    BY <1>36 DEF TypeOK, Restored, Read, Accepted, Enter, Finish, NoOp, locals, locals
  <2>7. got' \in Manifest /\ prev' \in Manifest /\ tries' \in 0..3 /\ start' \in Manifest
    BY <1>36, BlankIsManifest, TreeIsManifest DEF TypeOK, Restored, Read, Accepted, Enter, Finish, NoOp, locals, reader, Heads, Copies, Verifies
  <2>8. /\ known' \subseteq Content /\ captured' \subseteq Content /\ removed' \subseteq Content
       /\ missed' \subseteq Content /\ unapplied' \subseteq Content /\ commands' \in Nat
    <3>1. In({stage}) \subseteq Content
      BY <1>36, ContentsOfTree DEF TypeOK, Restored, Read, Accepted, Enter, Finish, NoOp, locals
    <3>2. unapplied' \subseteq Content
      BY <1>36, <3>1 DEF TypeOK, Restored, Read, Accepted, Enter, Finish, NoOp, locals
    <3>3. missed' \subseteq Content
      BY <1>36, FullIsTree DEF TypeOK, Restored, Read, Accepted, Enter, Finish, NoOp, locals, Tree
    <3>4. known' \subseteq Content /\ captured' \subseteq Content /\ removed' \subseteq Content /\ commands' \in Nat
      BY <1>36 DEF TypeOK, Restored, Read, Accepted, Enter, Finish, NoOp, locals, history
    <3> QED BY <3>1, <3>2, <3>3, <3>4
  <2> QED BY <2>1, <2>2, <2>3, <2>4, <2>5, <2>6, <2>7, <2>8 DEF TypeOK
<1>37. CASE UNCHANGED vars
  BY <1>37 DEF TypeOK, Manifest, Tree, Content, Phases, Heads, Copies, Verifies, Ops, Unread, Absent, Blank, Empty, vars, files, states, copies, locals, reader, history
<1> QED
  BY <1>1, <1>2, <1>3, <1>4, <1>5, <1>6, <1>7, <1>8, <1>9, <1>10, <1>11, <1>12, <1>13, <1>14, <1>15, <1>16, <1>17, <1>18, <1>19, <1>20, <1>21, <1>22, <1>23, <1>24, <1>25, <1>26, <1>27, <1>28, <1>29, <1>30, <1>31, <1>32, <1>33, <1>34, <1>35, <1>36, <1>37
  DEF Next, Environment, Commands, Reading, Heading, Pushing, Pulling, Restoring

\* Everything starts with its type.
LEMMA TypeInit == Init => TypeOK
BY SettingAssumption DEF Init, TypeOK, Manifest, Tree, Content, Phases, Heads, Copies, Verifies, Ops, Unread, Absent, Blank, Empty, NoOp

\* Every variable of the data root and its copies keeps its type and no more
\* snapshots are kept than maintenance.snapshot_keep says.
THEOREM TypeCorrect == Spec => []TypeOK
BY TypeInit, TypeStep, PTL DEF Spec

-----------------------------------------------------------------------------
(* No tree is mixed from two moments *)

\* A content that is read or kept was made before.
Bounded ==
  /\ \A r \in Roots : /\ data[r] <= made /\ live[r] <= made /\ got[r] <= made /\ prev[r] <= made
                      /\ stage[r] <= made /\ old[r] <= made
  /\ \A i \in DOMAIN snapshots, r \in Roots : snapshots[i].tree[r] <= made

\* Only a phase that reads has a manifest.
BlankBetween == pc \notin Heads \cup Copies \cup Verifies => got = Blank /\ prev = Blank

\* What changed since the running manifest was begun does not come back: a
\* content of the manifest before that is not there at the beginning is not
\* there now, so finding it shows that it was there at the beginning.
NoReturn ==
  \A r \in Roots : /\ prev[r] # start[r] => prev[r] # data[r]
                   /\ got[r] = prev[r] /\ got[r] # Unread => start[r] = got[r]

\* The same for the tree a replacement must have left.
NoReturnOfWanted ==
  pc \in Verifies =>
    \A r \in Roots : /\ Wanted[r] # start[r] => Wanted[r] # data[r]
                     /\ got[r] = Wanted[r] => start[r] = got[r]

\* Every step keeps the bound.
LEMMA BoundedStep == TypeOK /\ Bounded /\ [Next]_vars => Bounded'
<1> SUFFICES ASSUME TypeOK /\ Bounded, [Next]_vars PROVE Bounded' OBVIOUS
<1>1. ASSUME NEW r \in Roots, Deliver(r) PROVE Bounded'
  <2>1. made \in Nat /\ made' = made + 1
    BY <1>1 DEF Deliver, TypeOK
  <2>2. \A q \in Roots : /\ data[q] \in Int /\ live[q] \in Int /\ got[q] \in Int /\ prev[q] \in Int
                         /\ stage[q] \in Int /\ old[q] \in Int
    BY DEF TypeOK, Tree, Manifest, Content, Unread
  <2>3. \A i \in DOMAIN snapshots, q \in Roots : snapshots[i].tree[q] \in Int
    <3>1. \A i \in DOMAIN snapshots : snapshots[i] \in Taken
      BY DEF TypeOK
    <3>2. \A t \in Taken : \A q \in Roots : t.tree[q] \in Int
      BY DEF Taken, Tree, Content
    <3> QED BY <3>1, <3>2
  <2>4. \A q \in Roots : /\ got'[q] = got[q] /\ prev'[q] = prev[q] /\ stage'[q] = stage[q] /\ old'[q] = old[q]
                         /\ live'[q] = live[q]
                         /\ data'[q] = IF q = r THEN made + 1 ELSE data[q]
    BY <1>1 DEF Deliver, TypeOK, Tree, files, locals, reader
  <2>5. snapshots' = snapshots
    BY <1>1 DEF Deliver, copies
  <2>6. \A q \in Roots : /\ data'[q] <= made' /\ live'[q] <= made' /\ got'[q] <= made' /\ prev'[q] <= made'
                         /\ stage'[q] <= made' /\ old'[q] <= made'
    BY <2>1, <2>2, <2>4 DEF Bounded
  <2>7. \A i \in DOMAIN snapshots', q \in Roots : snapshots'[i].tree[q] <= made'
    BY <2>1, <2>3, <2>5 DEF Bounded
  <2> QED BY <2>6, <2>7 DEF Bounded
<1>2. ASSUME NEW r \in Roots, Edit(r) PROVE Bounded'
  <2>1. made \in Nat /\ made' = made + 1
    BY <1>2 DEF Edit, TypeOK
  <2>2. \A q \in Roots : /\ data[q] \in Int /\ live[q] \in Int /\ got[q] \in Int /\ prev[q] \in Int
                         /\ stage[q] \in Int /\ old[q] \in Int
    BY DEF TypeOK, Tree, Manifest, Content, Unread
  <2>3. \A i \in DOMAIN snapshots, q \in Roots : snapshots[i].tree[q] \in Int
    <3>1. \A i \in DOMAIN snapshots : snapshots[i] \in Taken
      BY DEF TypeOK
    <3>2. \A t \in Taken : \A q \in Roots : t.tree[q] \in Int
      BY DEF Taken, Tree, Content
    <3> QED BY <3>1, <3>2
  <2>4. \A q \in Roots : /\ got'[q] = got[q] /\ prev'[q] = prev[q] /\ stage'[q] = stage[q] /\ old'[q] = old[q]
                         /\ data'[q] = data[q]
                         /\ live'[q] = IF q = r THEN made + 1 ELSE live[q]
    BY <1>2 DEF Edit, TypeOK, Tree, files, locals, reader
  <2>5. snapshots' = snapshots
    BY <1>2 DEF Edit, copies
  <2>6. \A q \in Roots : /\ data'[q] <= made' /\ live'[q] <= made' /\ got'[q] <= made' /\ prev'[q] <= made'
                         /\ stage'[q] <= made' /\ old'[q] <= made'
    BY <2>1, <2>2, <2>4 DEF Bounded
  <2>7. \A i \in DOMAIN snapshots', q \in Roots : snapshots'[i].tree[q] <= made'
    BY <2>1, <2>3, <2>5 DEF Bounded
  <2> QED BY <2>6, <2>7 DEF Bounded
<1>3. ASSUME NEW r \in Roots, ReadRoot(r) PROVE Bounded'
  BY <1>3 DEF Bounded, TypeOK, Manifest, Tree, Content, Unread, Absent, Blank, Empty, Full, ReadRoot, files, states, copies, locals, reader, history
<1>4. ASSUME Again PROVE Bounded'
  BY <1>4 DEF Bounded, TypeOK, Manifest, Tree, Content, Unread, Absent, Blank, Empty, Full, Again, files, states, copies, locals, reader, history
<1>5. ASSUME Abort PROVE Bounded'
  BY <1>5 DEF Bounded, TypeOK, Manifest, Tree, Content, Unread, Absent, Blank, Empty, Full, Abort, Finish, NoOp, files, states, copies, locals, reader, history
<1>6. ASSUME Push PROVE Bounded'
  BY <1>6 DEF Bounded, TypeOK, Manifest, Tree, Content, Unread, Absent, Blank, Empty, Full, Push, Begin, Enter, NoOp, files, states, copies, locals, reader, history
<1>7. ASSUME Pull PROVE Bounded'
  BY <1>7 DEF Bounded, TypeOK, Manifest, Tree, Content, Unread, Absent, Blank, Empty, Full, Pull, Begin, Enter, NoOp, files, states, copies, locals, reader, history
<1>8. ASSUME Acknowledge PROVE Bounded'
  BY <1>8 DEF Bounded, TypeOK, Manifest, Tree, Content, Unread, Absent, Blank, Empty, Full, Acknowledge, Begin, Enter, NoOp, files, states, copies, locals, reader, history
<1>9. ASSUME Snapshot PROVE Bounded'
  BY <1>9 DEF Bounded, TypeOK, Manifest, Tree, Content, Unread, Absent, Blank, Empty, Full, Snapshot, Begin, Enter, NoOp, files, states, copies, locals, reader, history
<1>10. ASSUME Restore PROVE Bounded'
  <2>1. PICK i \in DOMAIN snapshots : stage' = snapshots[i].tree
    BY <1>10 DEF Restore
  <2>2. /\ data' = data /\ live' = live /\ made' = made /\ snapshots' = snapshots /\ old' = old
        /\ got' = Blank /\ prev' = Blank
    BY <1>10 DEF Restore, Begin, Enter, files, copies
  <2>3. \A q \in Roots : stage'[q] <= made'
    BY <2>1, <2>2 DEF Bounded
  <2>4. \A q \in Roots : got'[q] <= made' /\ prev'[q] <= made'
    BY <2>2 DEF Blank, Unread, TypeOK
  <2> QED BY <2>2, <2>3, <2>4 DEF Bounded
<1>11. ASSUME CheckHead PROVE Bounded'
  BY <1>11 DEF Bounded, TypeOK, Manifest, Tree, Content, Unread, Absent, Blank, Empty, Full, CheckHead, Read, Accepted, BaselineIs, AfterCheck, Enter, Quiet, files, states, copies, locals, reader, history
<1>12. ASSUME Override PROVE Bounded'
  BY <1>12 DEF Bounded, TypeOK, Manifest, Tree, Content, Unread, Absent, Blank, Empty, Full, Override, Read, Accepted, Enter, Quiet, files, states, copies, locals, reader, history
<1>13. ASSUME ObserveHead PROVE Bounded'
  BY <1>13 DEF Bounded, TypeOK, Manifest, Tree, Content, Unread, Absent, Blank, Empty, Full, ObserveHead, Read, Accepted, Enter, Quiet, files, states, copies, locals, reader, history
<1>14. ASSUME Preserve PROVE Bounded'
  BY <1>14 DEF Bounded, TypeOK, Manifest, Tree, Content, Unread, Absent, Blank, Empty, Full, Preserve, Read, Accepted, Enter, Quiet, files, states, copies, locals, reader, history
<1>15. ASSUME Preserved PROVE Bounded'
  BY <1>15 DEF Bounded, TypeOK, Manifest, Tree, Content, Unread, Absent, Blank, Empty, Full, Preserved, Read, Accepted, AfterCheck, Enter, locals, files, states, copies, locals, reader, history
<1>16. ASSUME Snapshotted PROVE Bounded'
  <2>1. got \in Tree
    BY <1>16, FullIsTree DEF Snapshotted, Read, Accepted, TypeOK
  <2>2. snapshots' = Pruned(<<[id |-> commands, tree |-> got]>> \o snapshots)
        /\ data' = data /\ live' = live /\ made' = made
    BY <1>16 DEF Snapshotted, files
  <2> DEFINE t == [id |-> commands, tree |-> got]
  <2>9. t \in Taken /\ t.tree = got
    BY <2>1 DEF TypeOK, Taken
  <2>10. snapshots' = Pruned(<<t>> \o snapshots) /\ snapshots \in Seq(Taken)
    BY <2>2 DEF TypeOK
  <2> HIDE DEF t
  <2>3. \A i \in DOMAIN snapshots' : snapshots'[i] = t \/ \E j \in DOMAIN snapshots : snapshots'[i] = snapshots[j]
    BY <2>9, <2>10, PruningKeeps
  <2>4. \A i \in DOMAIN snapshots', q \in Roots : snapshots'[i].tree[q] <= made'
    BY <2>2, <2>3, <2>9 DEF Bounded
  <2>5. \A q \in Roots : /\ data'[q] <= made' /\ live'[q] <= made' /\ got'[q] <= made' /\ prev'[q] <= made'
    BY <1>16, <2>2 DEF Snapshotted, Enter, Finish, Bounded, TypeOK, Blank, Unread
  <2>6. stage' \in {stage, Empty} /\ old' \in {old, Empty}
    BY <1>16 DEF Snapshotted, Finish, locals
  <2>7. \A q \in Roots : stage'[q] <= made' /\ old'[q] <= made'
    BY <2>2, <2>6 DEF Bounded, TypeOK, Empty, Absent
  <2> QED BY <2>4, <2>5, <2>7 DEF Bounded
<1>17. ASSUME NEW r \in Roots, Capture(r) PROVE Bounded'
  BY <1>17 DEF Bounded, TypeOK, Manifest, Tree, Content, Unread, Absent, Blank, Empty, Full, Capture, Captures, files, states, copies, locals, reader, history
<1>18. ASSUME CaptureDone PROVE Bounded'
  BY <1>18 DEF Bounded, TypeOK, Manifest, Tree, Content, Unread, Absent, Blank, Empty, Full, CaptureDone, Done, Enter, Quiet, files, states, copies, locals, reader, history
<1>19. ASSUME Publish PROVE Bounded'
  BY <1>19 DEF Bounded, TypeOK, Manifest, Tree, Content, Unread, Absent, Blank, Empty, Full, Publish, Read, Accepted, Enter, locals, files, states, copies, locals, reader, history
<1>20. ASSUME Settle PROVE Bounded'
  BY <1>20 DEF Bounded, TypeOK, Manifest, Tree, Content, Unread, Absent, Blank, Empty, Full, Settle, Finish, NoOp, files, states, copies, locals, reader, history
<1>21. ASSUME Fetch PROVE Bounded'
  BY <1>21 DEF Bounded, TypeOK, Manifest, Tree, Content, Unread, Absent, Blank, Empty, Full, Fetch, Read, Accepted, Enter, files, states, copies, locals, reader, history
<1>22. ASSUME SameHead PROVE Bounded'
  BY <1>22 DEF Bounded, TypeOK, Manifest, Tree, Content, Unread, Absent, Blank, Empty, Full, SameHead, Read, Accepted, Enter, Quiet, files, states, copies, locals, reader, history
<1>23. ASSUME Acknowledged PROVE Bounded'
  BY <1>23 DEF Bounded, TypeOK, Manifest, Tree, Content, Unread, Absent, Blank, Empty, Full, Acknowledged, Read, Accepted, Finish, NoOp, files, states, copies, locals, reader, history
<1>24. ASSUME Guard PROVE Bounded'
  BY <1>24 DEF Bounded, TypeOK, Manifest, Tree, Content, Unread, Absent, Blank, Empty, Full, Guard, Enter, files, states, copies, locals, reader, history
<1>25. ASSUME Unchanged PROVE Bounded'
  BY <1>25 DEF Bounded, TypeOK, Manifest, Tree, Content, Unread, Absent, Blank, Empty, Full, Unchanged, Enter, Quiet, files, states, copies, locals, reader, history
<1>26. ASSUME NEW r \in Roots, Apply(r) PROVE Bounded'
  BY <1>26 DEF Bounded, TypeOK, Manifest, Tree, Content, Unread, Absent, Blank, Empty, Full, Apply, files, states, copies, locals, reader, history
<1>27. ASSUME ApplyDone PROVE Bounded'
  BY <1>27 DEF Bounded, TypeOK, Manifest, Tree, Content, Unread, Absent, Blank, Empty, Full, ApplyDone, Done, Enter, Quiet, files, states, copies, locals, reader, history
<1>28. ASSUME Pulled PROVE Bounded'
  BY <1>28 DEF Bounded, TypeOK, Manifest, Tree, Content, Unread, Absent, Blank, Empty, Full, Pulled, Read, Accepted, Enter, locals, files, states, copies, locals, reader, history
<1>29. ASSUME BackedUp PROVE Bounded'
  BY <1>29 DEF Bounded, TypeOK, Manifest, Tree, Content, Unread, Absent, Blank, Empty, Full, BackedUp, Read, Accepted, Selected, Present, Enter, files, states, copies, locals, reader, history
<1>30. ASSUME NEW r \in Roots, Remove(r) PROVE Bounded'
  BY <1>30 DEF Bounded, TypeOK, Manifest, Tree, Content, Unread, Absent, Blank, Empty, Full, Remove, Busy, files, states, copies, locals, reader, history
<1>31. ASSUME NEW r \in Roots, Place(r) PROVE Bounded'
  BY <1>31 DEF Bounded, TypeOK, Manifest, Tree, Content, Unread, Absent, Blank, Empty, Full, Place, Target, files, states, copies, locals, reader, history
<1>32. ASSUME PlaceDone PROVE Bounded'
  BY <1>32 DEF Bounded, TypeOK, Manifest, Tree, Content, Unread, Absent, Blank, Empty, Full, PlaceDone, Done, Enter, Quiet, files, states, copies, locals, reader, history
<1>33. ASSUME ReplaceFails PROVE Bounded'
  BY <1>33 DEF Bounded, TypeOK, Manifest, Tree, Content, Unread, Absent, Blank, Empty, Full, ReplaceFails, Accepted, Enter, files, states, copies, locals, reader, history
<1>34. ASSUME Undone PROVE Bounded'
  BY <1>34 DEF Bounded, TypeOK, Manifest, Tree, Content, Unread, Absent, Blank, Empty, Full, Undone, Read, Accepted, Finish, NoOp, files, states, copies, locals, reader, history
<1>35. ASSUME Installed PROVE Bounded'
  BY <1>35 DEF Bounded, TypeOK, Manifest, Tree, Content, Unread, Absent, Blank, Empty, Full, Installed, Read, Accepted, Enter, files, states, copies, locals, reader, history
<1>36. ASSUME Restored PROVE Bounded'
  <2>1. data' = data /\ live' = live /\ made' = made /\ snapshots' = snapshots
    BY <1>36 DEF Restored, files, copies
  <2>2. \A q \in Roots : /\ data'[q] <= made' /\ live'[q] <= made' /\ got'[q] <= made' /\ prev'[q] <= made'
    BY <1>36, <2>1 DEF Restored, Enter, Finish, Bounded, TypeOK, Blank, Unread
  <2>3. stage' \in {stage, Empty} /\ old' \in {old, Empty}
    BY <1>36 DEF Restored, Finish, locals
  <2>4. \A q \in Roots : stage'[q] <= made' /\ old'[q] <= made'
    BY <2>1, <2>3 DEF Bounded, TypeOK, Empty, Absent
  <2> QED BY <2>1, <2>2, <2>4 DEF Bounded
<1>37. CASE UNCHANGED vars
  BY <1>37 DEF Bounded, TypeOK, Manifest, Tree, Content, Unread, Absent, Blank, Empty, Full, vars, files, states, copies, locals, reader, history
<1> QED
  BY <1>1, <1>2, <1>3, <1>4, <1>5, <1>6, <1>7, <1>8, <1>9, <1>10, <1>11, <1>12, <1>13, <1>14, <1>15, <1>16, <1>17, <1>18, <1>19, <1>20, <1>21, <1>22, <1>23, <1>24, <1>25, <1>26, <1>27, <1>28, <1>29, <1>30, <1>31, <1>32, <1>33, <1>34, <1>35, <1>36, <1>37
  DEF Next, Environment, Commands, Reading, Heading, Pushing, Pulling, Restoring

\* Every phase that does not read begins with nothing read.
LEMMA BetweenStep == BlankBetween /\ [Next]_vars => BlankBetween'
<1> SUFFICES ASSUME BlankBetween, [Next]_vars PROVE BlankBetween' OBVIOUS
<1>1. ASSUME NEW r \in Roots, Deliver(r) PROVE BlankBetween'
  BY <1>1 DEF BlankBetween, Heads, Copies, Verifies, Deliver, files, states, copies, locals, reader, history
<1>2. ASSUME NEW r \in Roots, Edit(r) PROVE BlankBetween'
  BY <1>2 DEF BlankBetween, Heads, Copies, Verifies, Edit, files, states, copies, locals, reader, history
<1>3. ASSUME NEW r \in Roots, ReadRoot(r) PROVE BlankBetween'
  BY <1>3 DEF BlankBetween, Heads, Copies, Verifies, ReadRoot, files, states, copies, locals, reader, history
<1>4. ASSUME Again PROVE BlankBetween'
  BY <1>4 DEF BlankBetween, Heads, Copies, Verifies, Again, files, states, copies, locals, reader, history
<1>5. ASSUME Abort PROVE BlankBetween'
  BY <1>5 DEF BlankBetween, Heads, Copies, Verifies, Abort, Finish, NoOp, files, states, copies, locals, reader, history
<1>6. ASSUME Push PROVE BlankBetween'
  BY <1>6 DEF BlankBetween, Heads, Copies, Verifies, Push, Begin, Enter, NoOp, files, states, copies, locals, reader, history
<1>7. ASSUME Pull PROVE BlankBetween'
  BY <1>7 DEF BlankBetween, Heads, Copies, Verifies, Pull, Begin, Enter, NoOp, files, states, copies, locals, reader, history
<1>8. ASSUME Acknowledge PROVE BlankBetween'
  BY <1>8 DEF BlankBetween, Heads, Copies, Verifies, Acknowledge, Begin, Enter, NoOp, files, states, copies, locals, reader, history
<1>9. ASSUME Snapshot PROVE BlankBetween'
  BY <1>9 DEF BlankBetween, Heads, Copies, Verifies, Snapshot, Begin, Enter, NoOp, files, states, copies, locals, reader, history
<1>10. ASSUME Restore PROVE BlankBetween'
  BY <1>10 DEF BlankBetween, Heads, Copies, Verifies, Restore, Begin, Enter, files, states, copies, locals, reader, history
<1>11. ASSUME CheckHead PROVE BlankBetween'
  BY <1>11 DEF BlankBetween, Heads, Copies, Verifies, CheckHead, Read, Accepted, BaselineIs, AfterCheck, Enter, Quiet, files, states, copies, locals, reader, history
<1>12. ASSUME Override PROVE BlankBetween'
  BY <1>12 DEF BlankBetween, Heads, Copies, Verifies, Override, Read, Accepted, Enter, Quiet, files, states, copies, locals, reader, history
<1>13. ASSUME ObserveHead PROVE BlankBetween'
  BY <1>13 DEF BlankBetween, Heads, Copies, Verifies, ObserveHead, Read, Accepted, Enter, Quiet, files, states, copies, locals, reader, history
<1>14. ASSUME Preserve PROVE BlankBetween'
  BY <1>14 DEF BlankBetween, Heads, Copies, Verifies, Preserve, Read, Accepted, Enter, Quiet, files, states, copies, locals, reader, history
<1>15. ASSUME Preserved PROVE BlankBetween'
  BY <1>15 DEF BlankBetween, Heads, Copies, Verifies, Preserved, Read, Accepted, AfterCheck, Enter, locals, files, states, copies, locals, reader, history
<1>16. ASSUME Snapshotted PROVE BlankBetween'
  BY <1>16 DEF BlankBetween, Heads, Copies, Verifies, Snapshotted, Read, Accepted, Enter, Finish, NoOp, locals, files, states, copies, locals, reader, history
<1>17. ASSUME NEW r \in Roots, Capture(r) PROVE BlankBetween'
  BY <1>17 DEF BlankBetween, Heads, Copies, Verifies, Capture, Captures, files, states, copies, locals, reader, history
<1>18. ASSUME CaptureDone PROVE BlankBetween'
  BY <1>18 DEF BlankBetween, Heads, Copies, Verifies, CaptureDone, Done, Enter, Quiet, files, states, copies, locals, reader, history
<1>19. ASSUME Publish PROVE BlankBetween'
  BY <1>19 DEF BlankBetween, Heads, Copies, Verifies, Publish, Read, Accepted, Enter, locals, files, states, copies, locals, reader, history
<1>20. ASSUME Settle PROVE BlankBetween'
  BY <1>20 DEF BlankBetween, Heads, Copies, Verifies, Settle, Finish, NoOp, files, states, copies, locals, reader, history
<1>21. ASSUME Fetch PROVE BlankBetween'
  BY <1>21 DEF BlankBetween, Heads, Copies, Verifies, Fetch, Read, Accepted, Enter, files, states, copies, locals, reader, history
<1>22. ASSUME SameHead PROVE BlankBetween'
  BY <1>22 DEF BlankBetween, Heads, Copies, Verifies, SameHead, Read, Accepted, Enter, Quiet, files, states, copies, locals, reader, history
<1>23. ASSUME Acknowledged PROVE BlankBetween'
  BY <1>23 DEF BlankBetween, Heads, Copies, Verifies, Acknowledged, Read, Accepted, Finish, NoOp, files, states, copies, locals, reader, history
<1>24. ASSUME Guard PROVE BlankBetween'
  BY <1>24 DEF BlankBetween, Heads, Copies, Verifies, Guard, Enter, files, states, copies, locals, reader, history
<1>25. ASSUME Unchanged PROVE BlankBetween'
  BY <1>25 DEF BlankBetween, Heads, Copies, Verifies, Unchanged, Enter, Quiet, files, states, copies, locals, reader, history
<1>26. ASSUME NEW r \in Roots, Apply(r) PROVE BlankBetween'
  BY <1>26 DEF BlankBetween, Heads, Copies, Verifies, Apply, files, states, copies, locals, reader, history
<1>27. ASSUME ApplyDone PROVE BlankBetween'
  BY <1>27 DEF BlankBetween, Heads, Copies, Verifies, ApplyDone, Done, Enter, Quiet, files, states, copies, locals, reader, history
<1>28. ASSUME Pulled PROVE BlankBetween'
  BY <1>28 DEF BlankBetween, Heads, Copies, Verifies, Pulled, Read, Accepted, Enter, locals, files, states, copies, locals, reader, history
<1>29. ASSUME BackedUp PROVE BlankBetween'
  BY <1>29 DEF BlankBetween, Heads, Copies, Verifies, BackedUp, Read, Accepted, Selected, Present, Enter, files, states, copies, locals, reader, history
<1>30. ASSUME NEW r \in Roots, Remove(r) PROVE BlankBetween'
  BY <1>30 DEF BlankBetween, Heads, Copies, Verifies, Remove, Busy, files, states, copies, locals, reader, history
<1>31. ASSUME NEW r \in Roots, Place(r) PROVE BlankBetween'
  BY <1>31 DEF BlankBetween, Heads, Copies, Verifies, Place, Target, files, states, copies, locals, reader, history
<1>32. ASSUME PlaceDone PROVE BlankBetween'
  BY <1>32 DEF BlankBetween, Heads, Copies, Verifies, PlaceDone, Done, Enter, Quiet, files, states, copies, locals, reader, history
<1>33. ASSUME ReplaceFails PROVE BlankBetween'
  BY <1>33 DEF BlankBetween, Heads, Copies, Verifies, ReplaceFails, Accepted, Enter, files, states, copies, locals, reader, history
<1>34. ASSUME Undone PROVE BlankBetween'
  BY <1>34 DEF BlankBetween, Heads, Copies, Verifies, Undone, Read, Accepted, Finish, NoOp, files, states, copies, locals, reader, history
<1>35. ASSUME Installed PROVE BlankBetween'
  BY <1>35 DEF BlankBetween, Heads, Copies, Verifies, Installed, Read, Accepted, Enter, files, states, copies, locals, reader, history
<1>36. ASSUME Restored PROVE BlankBetween'
  BY <1>36 DEF BlankBetween, Heads, Copies, Verifies, Restored, Read, Accepted, Enter, Finish, NoOp, locals, files, states, copies, locals, reader, history
<1>37. CASE UNCHANGED vars
  BY <1>37 DEF BlankBetween, Heads, Copies, Verifies, vars, files, states, copies, locals, reader, history
<1> QED
  BY <1>1, <1>2, <1>3, <1>4, <1>5, <1>6, <1>7, <1>8, <1>9, <1>10, <1>11, <1>12, <1>13, <1>14, <1>15, <1>16, <1>17, <1>18, <1>19, <1>20, <1>21, <1>22, <1>23, <1>24, <1>25, <1>26, <1>27, <1>28, <1>29, <1>30, <1>31, <1>32, <1>33, <1>34, <1>35, <1>36, <1>37
  DEF Next, Environment, Commands, Reading, Heading, Pushing, Pulling, Restoring

\* Every step keeps what the manifests say.
LEMMA NoReturnStep == TypeOK /\ Bounded /\ BlankBetween /\ NoReturn /\ [Next]_vars => NoReturn'
<1> SUFFICES ASSUME TypeOK /\ Bounded /\ BlankBetween /\ NoReturn, [Next]_vars PROVE NoReturn' OBVIOUS
<1>1. ASSUME NEW r \in Roots, Deliver(r) PROVE NoReturn'
  <2>1. /\ UNCHANGED <<prev, got, start>>
        /\ \A q \in Roots : data'[q] = data[q] \/ data'[q] = made + 1
    BY <1>1 DEF Deliver, reader, TypeOK, Tree
  <2>2. made \in Nat /\ \A q \in Roots : prev[q] \in Int /\ prev[q] <= made
    BY DEF Bounded, TypeOK, Manifest, Content, Absent, Unread
  <2>3. \A q \in Roots : prev[q] # made + 1
    BY <2>2
  <2> QED BY <2>1, <2>3 DEF NoReturn
<1>2. ASSUME NEW r \in Roots, Edit(r) PROVE NoReturn'
  BY <1>2 DEF NoReturn, BlankBetween, Bounded, TypeOK, Manifest, Tree, Content, Unread, Absent, Blank, Empty, Heads, Copies, Verifies, Edit, files, states, copies, locals, reader, history
<1>3. ASSUME NEW r \in Roots, ReadRoot(r) PROVE NoReturn'
  BY <1>3 DEF NoReturn, BlankBetween, Bounded, TypeOK, Manifest, Tree, Content, Unread, Absent, Blank, Empty, Heads, Copies, Verifies, ReadRoot, files, states, copies, locals, reader, history
<1>4. ASSUME Again PROVE NoReturn'
  BY <1>4 DEF NoReturn, BlankBetween, Bounded, TypeOK, Manifest, Tree, Content, Unread, Absent, Blank, Empty, Heads, Copies, Verifies, Again, files, states, copies, locals, reader, history
<1>5. ASSUME Abort PROVE NoReturn'
  BY <1>5 DEF NoReturn, BlankBetween, Bounded, TypeOK, Manifest, Tree, Content, Unread, Absent, Blank, Empty, Heads, Copies, Verifies, Abort, Finish, NoOp, files, states, copies, locals, reader, history
<1>6. ASSUME Push PROVE NoReturn'
  BY <1>6 DEF NoReturn, BlankBetween, Bounded, TypeOK, Manifest, Tree, Content, Unread, Absent, Blank, Empty, Heads, Copies, Verifies, Push, Begin, Enter, NoOp, files, states, copies, locals, reader, history
<1>7. ASSUME Pull PROVE NoReturn'
  BY <1>7 DEF NoReturn, BlankBetween, Bounded, TypeOK, Manifest, Tree, Content, Unread, Absent, Blank, Empty, Heads, Copies, Verifies, Pull, Begin, Enter, NoOp, files, states, copies, locals, reader, history
<1>8. ASSUME Acknowledge PROVE NoReturn'
  BY <1>8 DEF NoReturn, BlankBetween, Bounded, TypeOK, Manifest, Tree, Content, Unread, Absent, Blank, Empty, Heads, Copies, Verifies, Acknowledge, Begin, Enter, NoOp, files, states, copies, locals, reader, history
<1>9. ASSUME Snapshot PROVE NoReturn'
  BY <1>9 DEF NoReturn, BlankBetween, Bounded, TypeOK, Manifest, Tree, Content, Unread, Absent, Blank, Empty, Heads, Copies, Verifies, Snapshot, Begin, Enter, NoOp, files, states, copies, locals, reader, history
<1>10. ASSUME Restore PROVE NoReturn'
  BY <1>10 DEF NoReturn, BlankBetween, Bounded, TypeOK, Manifest, Tree, Content, Unread, Absent, Blank, Empty, Heads, Copies, Verifies, Restore, Begin, Enter, files, states, copies, locals, reader, history
<1>11. ASSUME CheckHead PROVE NoReturn'
  BY <1>11 DEF NoReturn, BlankBetween, Bounded, TypeOK, Manifest, Tree, Content, Unread, Absent, Blank, Empty, Heads, Copies, Verifies, CheckHead, Read, Accepted, BaselineIs, AfterCheck, Enter, Quiet, files, states, copies, locals, reader, history
<1>12. ASSUME Override PROVE NoReturn'
  BY <1>12 DEF NoReturn, BlankBetween, Bounded, TypeOK, Manifest, Tree, Content, Unread, Absent, Blank, Empty, Heads, Copies, Verifies, Override, Read, Accepted, Enter, Quiet, files, states, copies, locals, reader, history
<1>13. ASSUME ObserveHead PROVE NoReturn'
  BY <1>13 DEF NoReturn, BlankBetween, Bounded, TypeOK, Manifest, Tree, Content, Unread, Absent, Blank, Empty, Heads, Copies, Verifies, ObserveHead, Read, Accepted, Enter, Quiet, files, states, copies, locals, reader, history
<1>14. ASSUME Preserve PROVE NoReturn'
  BY <1>14 DEF NoReturn, BlankBetween, Bounded, TypeOK, Manifest, Tree, Content, Unread, Absent, Blank, Empty, Heads, Copies, Verifies, Preserve, Read, Accepted, Enter, Quiet, files, states, copies, locals, reader, history
<1>15. ASSUME Preserved PROVE NoReturn'
  BY <1>15 DEF NoReturn, BlankBetween, Bounded, TypeOK, Manifest, Tree, Content, Unread, Absent, Blank, Empty, Heads, Copies, Verifies, Preserved, Read, Accepted, AfterCheck, Enter, locals, files, states, copies, locals, reader, history
<1>16. ASSUME Snapshotted PROVE NoReturn'
  BY <1>16 DEF NoReturn, BlankBetween, Bounded, TypeOK, Manifest, Tree, Content, Unread, Absent, Blank, Empty, Heads, Copies, Verifies, Snapshotted, Read, Accepted, Enter, Finish, NoOp, locals, files, states, copies, locals, reader, history
<1>17. ASSUME NEW r \in Roots, Capture(r) PROVE NoReturn'
  <2>1. UNCHANGED <<prev, got, start>> /\ got = Blank /\ prev = Blank
    BY <1>17 DEF Capture, BlankBetween, Heads, Copies, Verifies, reader
  <2>2. data' \in Tree
    BY TypeStep DEF TypeOK
  <2>3. \A q \in Roots : prev[q] # data'[q]
    BY <2>1, <2>2 DEF Blank, Tree, Content, Unread, Absent
  <2> QED BY <2>1, <2>3 DEF NoReturn
<1>18. ASSUME CaptureDone PROVE NoReturn'
  BY <1>18 DEF NoReturn, BlankBetween, Bounded, TypeOK, Manifest, Tree, Content, Unread, Absent, Blank, Empty, Heads, Copies, Verifies, CaptureDone, Done, Enter, Quiet, files, states, copies, locals, reader, history
<1>19. ASSUME Publish PROVE NoReturn'
  BY <1>19 DEF NoReturn, BlankBetween, Bounded, TypeOK, Manifest, Tree, Content, Unread, Absent, Blank, Empty, Heads, Copies, Verifies, Publish, Read, Accepted, Enter, locals, files, states, copies, locals, reader, history
<1>20. ASSUME Settle PROVE NoReturn'
  BY <1>20 DEF NoReturn, BlankBetween, Bounded, TypeOK, Manifest, Tree, Content, Unread, Absent, Blank, Empty, Heads, Copies, Verifies, Settle, Finish, NoOp, files, states, copies, locals, reader, history
<1>21. ASSUME Fetch PROVE NoReturn'
  BY <1>21 DEF NoReturn, BlankBetween, Bounded, TypeOK, Manifest, Tree, Content, Unread, Absent, Blank, Empty, Heads, Copies, Verifies, Fetch, Read, Accepted, Enter, files, states, copies, locals, reader, history
<1>22. ASSUME SameHead PROVE NoReturn'
  BY <1>22 DEF NoReturn, BlankBetween, Bounded, TypeOK, Manifest, Tree, Content, Unread, Absent, Blank, Empty, Heads, Copies, Verifies, SameHead, Read, Accepted, Enter, Quiet, files, states, copies, locals, reader, history
<1>23. ASSUME Acknowledged PROVE NoReturn'
  BY <1>23 DEF NoReturn, BlankBetween, Bounded, TypeOK, Manifest, Tree, Content, Unread, Absent, Blank, Empty, Heads, Copies, Verifies, Acknowledged, Read, Accepted, Finish, NoOp, files, states, copies, locals, reader, history
<1>24. ASSUME Guard PROVE NoReturn'
  BY <1>24 DEF NoReturn, BlankBetween, Bounded, TypeOK, Manifest, Tree, Content, Unread, Absent, Blank, Empty, Heads, Copies, Verifies, Guard, Enter, files, states, copies, locals, reader, history
<1>25. ASSUME Unchanged PROVE NoReturn'
  BY <1>25 DEF NoReturn, BlankBetween, Bounded, TypeOK, Manifest, Tree, Content, Unread, Absent, Blank, Empty, Heads, Copies, Verifies, Unchanged, Enter, Quiet, files, states, copies, locals, reader, history
<1>26. ASSUME NEW r \in Roots, Apply(r) PROVE NoReturn'
  BY <1>26 DEF NoReturn, BlankBetween, Bounded, TypeOK, Manifest, Tree, Content, Unread, Absent, Blank, Empty, Heads, Copies, Verifies, Apply, files, states, copies, locals, reader, history
<1>27. ASSUME ApplyDone PROVE NoReturn'
  BY <1>27 DEF NoReturn, BlankBetween, Bounded, TypeOK, Manifest, Tree, Content, Unread, Absent, Blank, Empty, Heads, Copies, Verifies, ApplyDone, Done, Enter, Quiet, files, states, copies, locals, reader, history
<1>28. ASSUME Pulled PROVE NoReturn'
  BY <1>28 DEF NoReturn, BlankBetween, Bounded, TypeOK, Manifest, Tree, Content, Unread, Absent, Blank, Empty, Heads, Copies, Verifies, Pulled, Read, Accepted, Enter, locals, files, states, copies, locals, reader, history
<1>29. ASSUME BackedUp PROVE NoReturn'
  BY <1>29 DEF NoReturn, BlankBetween, Bounded, TypeOK, Manifest, Tree, Content, Unread, Absent, Blank, Empty, Heads, Copies, Verifies, BackedUp, Read, Accepted, Selected, Present, Enter, files, states, copies, locals, reader, history
<1>30. ASSUME NEW r \in Roots, Remove(r) PROVE NoReturn'
  <2>1. UNCHANGED <<prev, got, start>> /\ got = Blank /\ prev = Blank
    BY <1>30 DEF Remove, BlankBetween, Heads, Copies, Verifies, reader
  <2>2. data' \in Tree
    BY TypeStep DEF TypeOK
  <2>3. \A q \in Roots : prev[q] # data'[q]
    BY <2>1, <2>2 DEF Blank, Tree, Content, Unread, Absent
  <2> QED BY <2>1, <2>3 DEF NoReturn
<1>31. ASSUME NEW r \in Roots, Place(r) PROVE NoReturn'
  <2>1. UNCHANGED <<prev, got, start>> /\ got = Blank /\ prev = Blank
    BY <1>31 DEF Place, BlankBetween, Heads, Copies, Verifies, reader
  <2>2. data' \in Tree
    BY TypeStep DEF TypeOK
  <2>3. \A q \in Roots : prev[q] # data'[q]
    BY <2>1, <2>2 DEF Blank, Tree, Content, Unread, Absent
  <2> QED BY <2>1, <2>3 DEF NoReturn
<1>32. ASSUME PlaceDone PROVE NoReturn'
  BY <1>32 DEF NoReturn, BlankBetween, Bounded, TypeOK, Manifest, Tree, Content, Unread, Absent, Blank, Empty, Heads, Copies, Verifies, PlaceDone, Done, Enter, Quiet, files, states, copies, locals, reader, history
<1>33. ASSUME ReplaceFails PROVE NoReturn'
  BY <1>33 DEF NoReturn, BlankBetween, Bounded, TypeOK, Manifest, Tree, Content, Unread, Absent, Blank, Empty, Heads, Copies, Verifies, ReplaceFails, Accepted, Enter, files, states, copies, locals, reader, history
<1>34. ASSUME Undone PROVE NoReturn'
  BY <1>34 DEF NoReturn, BlankBetween, Bounded, TypeOK, Manifest, Tree, Content, Unread, Absent, Blank, Empty, Heads, Copies, Verifies, Undone, Read, Accepted, Finish, NoOp, files, states, copies, locals, reader, history
<1>35. ASSUME Installed PROVE NoReturn'
  BY <1>35 DEF NoReturn, BlankBetween, Bounded, TypeOK, Manifest, Tree, Content, Unread, Absent, Blank, Empty, Heads, Copies, Verifies, Installed, Read, Accepted, Enter, files, states, copies, locals, reader, history
<1>36. ASSUME Restored PROVE NoReturn'
  BY <1>36 DEF NoReturn, BlankBetween, Bounded, TypeOK, Manifest, Tree, Content, Unread, Absent, Blank, Empty, Heads, Copies, Verifies, Restored, Read, Accepted, Enter, Finish, NoOp, locals, files, states, copies, locals, reader, history
<1>37. CASE UNCHANGED vars
  BY <1>37 DEF NoReturn, BlankBetween, Bounded, TypeOK, Manifest, Tree, Content, Unread, Absent, Blank, Empty, Heads, Copies, Verifies, vars, files, states, copies, locals, reader, history
<1> QED
  BY <1>1, <1>2, <1>3, <1>4, <1>5, <1>6, <1>7, <1>8, <1>9, <1>10, <1>11, <1>12, <1>13, <1>14, <1>15, <1>16, <1>17, <1>18, <1>19, <1>20, <1>21, <1>22, <1>23, <1>24, <1>25, <1>26, <1>27, <1>28, <1>29, <1>30, <1>31, <1>32, <1>33, <1>34, <1>35, <1>36, <1>37
  DEF Next, Environment, Commands, Reading, Heading, Pushing, Pulling, Restoring

\* Every step keeps what the verifications say.
LEMMA WantedStep == TypeOK /\ Bounded /\ NoReturnOfWanted /\ [Next]_vars => NoReturnOfWanted'
<1> SUFFICES ASSUME TypeOK /\ Bounded /\ NoReturnOfWanted, [Next]_vars PROVE NoReturnOfWanted' OBVIOUS
<1>1. ASSUME NEW r \in Roots, Deliver(r) PROVE NoReturnOfWanted'
  <2>1. /\ UNCHANGED <<pc, got, start, stage, old>>
        /\ \A q \in Roots : data'[q] = data[q] \/ data'[q] = made + 1
    BY <1>1 DEF Deliver, reader, locals, TypeOK, Tree
  <2>2. made \in Nat /\ \A q \in Roots : Wanted[q] \in Int /\ Wanted[q] <= made
    BY DEF Wanted, Bounded, TypeOK, Tree, Content, Absent
  <2>3. \A q \in Roots : Wanted[q] # made + 1
    BY <2>2
  <2>4. UNCHANGED Wanted
    BY <2>1 DEF Wanted
  <2> QED BY <2>1, <2>3, <2>4 DEF NoReturnOfWanted
<1>2. ASSUME NEW r \in Roots, Edit(r) PROVE NoReturnOfWanted'
  BY <1>2 DEF NoReturnOfWanted, Wanted, Bounded, TypeOK, Manifest, Tree, Content, Unread, Absent, Blank, Empty, Heads, Copies, Verifies, Edit, files, states, copies, locals, reader, history
<1>3. ASSUME NEW r \in Roots, ReadRoot(r) PROVE NoReturnOfWanted'
  BY <1>3 DEF NoReturnOfWanted, Wanted, Bounded, TypeOK, Manifest, Tree, Content, Unread, Absent, Blank, Empty, Heads, Copies, Verifies, ReadRoot, files, states, copies, locals, reader, history
<1>4. ASSUME Again PROVE NoReturnOfWanted'
  BY <1>4 DEF NoReturnOfWanted, Wanted, Bounded, TypeOK, Manifest, Tree, Content, Unread, Absent, Blank, Empty, Heads, Copies, Verifies, Again, files, states, copies, locals, reader, history
<1>5. ASSUME Abort PROVE NoReturnOfWanted'
  BY <1>5 DEF NoReturnOfWanted, Wanted, Bounded, TypeOK, Manifest, Tree, Content, Unread, Absent, Blank, Empty, Heads, Copies, Verifies, Abort, Finish, NoOp, files, states, copies, locals, reader, history
<1>6. ASSUME Push PROVE NoReturnOfWanted'
  BY <1>6 DEF NoReturnOfWanted, Wanted, Bounded, TypeOK, Manifest, Tree, Content, Unread, Absent, Blank, Empty, Heads, Copies, Verifies, Push, Begin, Enter, NoOp, files, states, copies, locals, reader, history
<1>7. ASSUME Pull PROVE NoReturnOfWanted'
  BY <1>7 DEF NoReturnOfWanted, Wanted, Bounded, TypeOK, Manifest, Tree, Content, Unread, Absent, Blank, Empty, Heads, Copies, Verifies, Pull, Begin, Enter, NoOp, files, states, copies, locals, reader, history
<1>8. ASSUME Acknowledge PROVE NoReturnOfWanted'
  BY <1>8 DEF NoReturnOfWanted, Wanted, Bounded, TypeOK, Manifest, Tree, Content, Unread, Absent, Blank, Empty, Heads, Copies, Verifies, Acknowledge, Begin, Enter, NoOp, files, states, copies, locals, reader, history
<1>9. ASSUME Snapshot PROVE NoReturnOfWanted'
  BY <1>9 DEF NoReturnOfWanted, Wanted, Bounded, TypeOK, Manifest, Tree, Content, Unread, Absent, Blank, Empty, Heads, Copies, Verifies, Snapshot, Begin, Enter, NoOp, files, states, copies, locals, reader, history
<1>10. ASSUME Restore PROVE NoReturnOfWanted'
  BY <1>10 DEF NoReturnOfWanted, Wanted, Bounded, TypeOK, Manifest, Tree, Content, Unread, Absent, Blank, Empty, Heads, Copies, Verifies, Restore, Begin, Enter, files, states, copies, locals, reader, history
<1>11. ASSUME CheckHead PROVE NoReturnOfWanted'
  BY <1>11 DEF NoReturnOfWanted, Wanted, Bounded, TypeOK, Manifest, Tree, Content, Unread, Absent, Blank, Empty, Heads, Copies, Verifies, CheckHead, Read, Accepted, BaselineIs, AfterCheck, Enter, Quiet, files, states, copies, locals, reader, history
<1>12. ASSUME Override PROVE NoReturnOfWanted'
  BY <1>12 DEF NoReturnOfWanted, Wanted, Bounded, TypeOK, Manifest, Tree, Content, Unread, Absent, Blank, Empty, Heads, Copies, Verifies, Override, Read, Accepted, Enter, Quiet, files, states, copies, locals, reader, history
<1>13. ASSUME ObserveHead PROVE NoReturnOfWanted'
  BY <1>13 DEF NoReturnOfWanted, Wanted, Bounded, TypeOK, Manifest, Tree, Content, Unread, Absent, Blank, Empty, Heads, Copies, Verifies, ObserveHead, Read, Accepted, Enter, Quiet, files, states, copies, locals, reader, history
<1>14. ASSUME Preserve PROVE NoReturnOfWanted'
  BY <1>14 DEF NoReturnOfWanted, Wanted, Bounded, TypeOK, Manifest, Tree, Content, Unread, Absent, Blank, Empty, Heads, Copies, Verifies, Preserve, Read, Accepted, Enter, Quiet, files, states, copies, locals, reader, history
<1>15. ASSUME Preserved PROVE NoReturnOfWanted'
  BY <1>15 DEF NoReturnOfWanted, Wanted, Bounded, TypeOK, Manifest, Tree, Content, Unread, Absent, Blank, Empty, Heads, Copies, Verifies, Preserved, Read, Accepted, AfterCheck, Enter, locals, files, states, copies, locals, reader, history
<1>16. ASSUME Snapshotted PROVE NoReturnOfWanted'
  BY <1>16 DEF NoReturnOfWanted, Wanted, Bounded, TypeOK, Manifest, Tree, Content, Unread, Absent, Blank, Empty, Heads, Copies, Verifies, Snapshotted, Read, Accepted, Enter, Finish, NoOp, locals, files, states, copies, locals, reader, history
<1>17. ASSUME NEW r \in Roots, Capture(r) PROVE NoReturnOfWanted'
  BY <1>17 DEF NoReturnOfWanted, Wanted, Bounded, TypeOK, Manifest, Tree, Content, Unread, Absent, Blank, Empty, Heads, Copies, Verifies, Capture, Captures, files, states, copies, locals, reader, history
<1>18. ASSUME CaptureDone PROVE NoReturnOfWanted'
  BY <1>18 DEF NoReturnOfWanted, Wanted, Bounded, TypeOK, Manifest, Tree, Content, Unread, Absent, Blank, Empty, Heads, Copies, Verifies, CaptureDone, Done, Enter, Quiet, files, states, copies, locals, reader, history
<1>19. ASSUME Publish PROVE NoReturnOfWanted'
  BY <1>19 DEF NoReturnOfWanted, Wanted, Bounded, TypeOK, Manifest, Tree, Content, Unread, Absent, Blank, Empty, Heads, Copies, Verifies, Publish, Read, Accepted, Enter, locals, files, states, copies, locals, reader, history
<1>20. ASSUME Settle PROVE NoReturnOfWanted'
  BY <1>20 DEF NoReturnOfWanted, Wanted, Bounded, TypeOK, Manifest, Tree, Content, Unread, Absent, Blank, Empty, Heads, Copies, Verifies, Settle, Finish, NoOp, files, states, copies, locals, reader, history
<1>21. ASSUME Fetch PROVE NoReturnOfWanted'
  BY <1>21 DEF NoReturnOfWanted, Wanted, Bounded, TypeOK, Manifest, Tree, Content, Unread, Absent, Blank, Empty, Heads, Copies, Verifies, Fetch, Read, Accepted, Enter, files, states, copies, locals, reader, history
<1>22. ASSUME SameHead PROVE NoReturnOfWanted'
  BY <1>22 DEF NoReturnOfWanted, Wanted, Bounded, TypeOK, Manifest, Tree, Content, Unread, Absent, Blank, Empty, Heads, Copies, Verifies, SameHead, Read, Accepted, Enter, Quiet, files, states, copies, locals, reader, history
<1>23. ASSUME Acknowledged PROVE NoReturnOfWanted'
  BY <1>23 DEF NoReturnOfWanted, Wanted, Bounded, TypeOK, Manifest, Tree, Content, Unread, Absent, Blank, Empty, Heads, Copies, Verifies, Acknowledged, Read, Accepted, Finish, NoOp, files, states, copies, locals, reader, history
<1>24. ASSUME Guard PROVE NoReturnOfWanted'
  BY <1>24 DEF NoReturnOfWanted, Wanted, Bounded, TypeOK, Manifest, Tree, Content, Unread, Absent, Blank, Empty, Heads, Copies, Verifies, Guard, Enter, files, states, copies, locals, reader, history
<1>25. ASSUME Unchanged PROVE NoReturnOfWanted'
  BY <1>25 DEF NoReturnOfWanted, Wanted, Bounded, TypeOK, Manifest, Tree, Content, Unread, Absent, Blank, Empty, Heads, Copies, Verifies, Unchanged, Enter, Quiet, files, states, copies, locals, reader, history
<1>26. ASSUME NEW r \in Roots, Apply(r) PROVE NoReturnOfWanted'
  BY <1>26 DEF NoReturnOfWanted, Wanted, Bounded, TypeOK, Manifest, Tree, Content, Unread, Absent, Blank, Empty, Heads, Copies, Verifies, Apply, files, states, copies, locals, reader, history
<1>27. ASSUME ApplyDone PROVE NoReturnOfWanted'
  BY <1>27 DEF NoReturnOfWanted, Wanted, Bounded, TypeOK, Manifest, Tree, Content, Unread, Absent, Blank, Empty, Heads, Copies, Verifies, ApplyDone, Done, Enter, Quiet, files, states, copies, locals, reader, history
<1>28. ASSUME Pulled PROVE NoReturnOfWanted'
  BY <1>28 DEF NoReturnOfWanted, Wanted, Bounded, TypeOK, Manifest, Tree, Content, Unread, Absent, Blank, Empty, Heads, Copies, Verifies, Pulled, Read, Accepted, Enter, locals, files, states, copies, locals, reader, history
<1>29. ASSUME BackedUp PROVE NoReturnOfWanted'
  BY <1>29 DEF NoReturnOfWanted, Wanted, Bounded, TypeOK, Manifest, Tree, Content, Unread, Absent, Blank, Empty, Heads, Copies, Verifies, BackedUp, Read, Accepted, Selected, Present, Enter, files, states, copies, locals, reader, history
<1>30. ASSUME NEW r \in Roots, Remove(r) PROVE NoReturnOfWanted'
  BY <1>30 DEF NoReturnOfWanted, Wanted, Bounded, TypeOK, Manifest, Tree, Content, Unread, Absent, Blank, Empty, Heads, Copies, Verifies, Remove, Busy, files, states, copies, locals, reader, history
<1>31. ASSUME NEW r \in Roots, Place(r) PROVE NoReturnOfWanted'
  BY <1>31 DEF NoReturnOfWanted, Wanted, Bounded, TypeOK, Manifest, Tree, Content, Unread, Absent, Blank, Empty, Heads, Copies, Verifies, Place, Target, files, states, copies, locals, reader, history
<1>32. ASSUME PlaceDone PROVE NoReturnOfWanted'
  BY <1>32 DEF NoReturnOfWanted, Wanted, Bounded, TypeOK, Manifest, Tree, Content, Unread, Absent, Blank, Empty, Heads, Copies, Verifies, PlaceDone, Done, Enter, Quiet, files, states, copies, locals, reader, history
<1>33. ASSUME ReplaceFails PROVE NoReturnOfWanted'
  BY <1>33 DEF NoReturnOfWanted, Wanted, Bounded, TypeOK, Manifest, Tree, Content, Unread, Absent, Blank, Empty, Heads, Copies, Verifies, ReplaceFails, Accepted, Enter, files, states, copies, locals, reader, history
<1>34. ASSUME Undone PROVE NoReturnOfWanted'
  BY <1>34 DEF NoReturnOfWanted, Wanted, Bounded, TypeOK, Manifest, Tree, Content, Unread, Absent, Blank, Empty, Heads, Copies, Verifies, Undone, Read, Accepted, Finish, NoOp, files, states, copies, locals, reader, history
<1>35. ASSUME Installed PROVE NoReturnOfWanted'
  BY <1>35 DEF NoReturnOfWanted, Wanted, Bounded, TypeOK, Manifest, Tree, Content, Unread, Absent, Blank, Empty, Heads, Copies, Verifies, Installed, Read, Accepted, Enter, files, states, copies, locals, reader, history
<1>36. ASSUME Restored PROVE NoReturnOfWanted'
  BY <1>36 DEF NoReturnOfWanted, Wanted, Bounded, TypeOK, Manifest, Tree, Content, Unread, Absent, Blank, Empty, Heads, Copies, Verifies, Restored, Read, Accepted, Enter, Finish, NoOp, locals, files, states, copies, locals, reader, history
<1>37. CASE UNCHANGED vars
  BY <1>37 DEF NoReturnOfWanted, Wanted, Bounded, TypeOK, Manifest, Tree, Content, Unread, Absent, Blank, Empty, Heads, Copies, Verifies, vars, files, states, copies, locals, reader, history
<1> QED
  BY <1>1, <1>2, <1>3, <1>4, <1>5, <1>6, <1>7, <1>8, <1>9, <1>10, <1>11, <1>12, <1>13, <1>14, <1>15, <1>16, <1>17, <1>18, <1>19, <1>20, <1>21, <1>22, <1>23, <1>24, <1>25, <1>26, <1>27, <1>28, <1>29, <1>30, <1>31, <1>32, <1>33, <1>34, <1>35, <1>36, <1>37
  DEF Next, Environment, Commands, Reading, Heading, Pushing, Pulling, Restoring

ReadInv == TypeOK /\ Bounded /\ BlankBetween /\ NoReturn /\ NoReturnOfWanted

\* Nothing has been read at the start.
LEMMA ReadInit == Init => ReadInv
<1> SUFFICES ASSUME Init PROVE ReadInv OBVIOUS
<1>1. TypeOK BY TypeInit
<1>2. Bounded BY DEF Init, Bounded, Empty, Blank, Absent, Unread
<1>3. NoReturn BY DEF Init, NoReturn, Empty, Blank, Absent, Unread
<1>4. NoReturnOfWanted BY DEF Init, NoReturnOfWanted, Verifies
<1>5. BlankBetween BY DEF Init, BlankBetween
<1> QED BY <1>1, <1>2, <1>3, <1>4, <1>5 DEF ReadInv

\* What a reader knows of the moments it saw survives every step.
LEMMA ReadStep == ReadInv /\ [Next]_vars => ReadInv'
BY TypeStep, BoundedStep, BetweenStep, NoReturnStep, WantedStep DEF ReadInv

\* Hence an accepted observation is the tree as it was at one moment.
LEMMA ReadInvImplies == ReadInv => AcceptedIsMoment
<1> SUFFICES ASSUME ReadInv, Accepted PROVE got = start
  BY DEF AcceptedIsMoment
<1>1. \A r \in Roots : start[r] = got[r]
  <2>1. CASE got = prev
    BY <2>1 DEF ReadInv, NoReturn, Accepted, Full
  <2>2. CASE pc \in Verifies /\ got = Wanted
    BY <2>2 DEF ReadInv, NoReturnOfWanted
  <2> QED BY <2>1, <2>2 DEF Accepted
<1> QED BY <1>1 DEF ReadInv, TypeOK, Manifest

\* Whatever a command takes for the state of the data root - a stable head, a
\* copy, a fetched tree, a verified replacement - the data root was so as a
\* whole while the command looked, however often the client delivered.
THEOREM NeverMixed == Spec => []AcceptedIsMoment
BY ReadInit, ReadStep, ReadInvImplies, PTL DEF Spec

-----------------------------------------------------------------------------
(* What pushes overwrite and replacements remove *)

\* The contents a push may overwrite.
Kept == known \cup In(recovery) \cup missed \cup unapplied

\* The commands a phase belongs to.
Names ==
  /\ pc \in {"asked", "preserve", "kept", "capture", "publish"} => op.name = "push"
  /\ pc = "snapshot" => op.name # "pull"
  /\ pc \in {"fetch", "final"} => op.name = "pull"
  /\ pc \in {"backup", "replace", "verify", "undo", "undone"} => op.name # "pull"

\* Nothing is marked as done before the roots are walked.
TodoFirst ==
  pc \in {"idle", "head", "asked", "preserve", "kept", "snapshot", "fetch", "same",
          "guard", "unchanged", "backup"} => \A r \in Roots : at[r] = "todo"

\* A pull applies the head it observed, and has applied all of it before it
\* records it; a restore that applies does the same with its snapshot.
AppliesHead ==
  /\ pc = "final" \/ (op.name = "pull" /\ pc \in {"same", "guard", "unchanged", "apply"}) => stage = head
  /\ pc = "apply" => \A r \in Roots : at[r] = "done" => stage[r] \in known \cup {Absent}
  /\ pc = "final" \/ (pc = "last" /\ ~op.sourceOnly) => \A r \in Roots : stage[r] \in known \cup {Absent}

\* The baseline, and the head a push has checked, hold nothing but contents a
\* push may overwrite.
BaseKept == \A r \in Roots : base[r] \in Kept \cup {Absent, Unread}
HeadKept ==
  pc \in {"snapshot", "capture", "publish"} /\ op.name = "push" =>
    \A r \in Roots : head[r] \in Kept \cup {Absent}
CapturedKept == captured \subseteq Kept

\* The workspace that is being replaced has a copy.
OldKept == pc \in {"replace", "verify", "undo", "undone"} => old \in backups

\* What a push may overwrite stays so.
LEMMA KeptGrows == [Next]_vars => Kept \subseteq Kept'
<1> SUFFICES ASSUME [Next]_vars PROVE Kept \subseteq Kept' OBVIOUS
<1>1. ASSUME NEW r \in Roots, Deliver(r) PROVE Kept \subseteq Kept'
  BY <1>1 DEF Kept, In, Deliver, files, states, copies, locals, reader, history
<1>2. ASSUME NEW r \in Roots, Edit(r) PROVE Kept \subseteq Kept'
  BY <1>2 DEF Kept, In, Edit, files, states, copies, locals, reader, history
<1>3. ASSUME NEW r \in Roots, ReadRoot(r) PROVE Kept \subseteq Kept'
  BY <1>3 DEF Kept, In, ReadRoot, files, states, copies, locals, reader, history
<1>4. ASSUME Again PROVE Kept \subseteq Kept'
  BY <1>4 DEF Kept, In, Again, files, states, copies, locals, reader, history
<1>5. ASSUME Abort PROVE Kept \subseteq Kept'
  BY <1>5 DEF Kept, In, Abort, Finish, NoOp, files, states, copies, locals, reader, history
<1>6. ASSUME Push PROVE Kept \subseteq Kept'
  BY <1>6 DEF Kept, In, Push, Begin, Enter, NoOp, files, states, copies, locals, reader, history
<1>7. ASSUME Pull PROVE Kept \subseteq Kept'
  BY <1>7 DEF Kept, In, Pull, Begin, Enter, NoOp, files, states, copies, locals, reader, history
<1>8. ASSUME Acknowledge PROVE Kept \subseteq Kept'
  BY <1>8 DEF Kept, In, Acknowledge, Begin, Enter, NoOp, files, states, copies, locals, reader, history
<1>9. ASSUME Snapshot PROVE Kept \subseteq Kept'
  BY <1>9 DEF Kept, In, Snapshot, Begin, Enter, NoOp, files, states, copies, locals, reader, history
<1>10. ASSUME Restore PROVE Kept \subseteq Kept'
  BY <1>10 DEF Kept, In, Restore, Begin, Enter, files, states, copies, locals, reader, history
<1>11. ASSUME CheckHead PROVE Kept \subseteq Kept'
  BY <1>11 DEF Kept, In, CheckHead, Read, Accepted, BaselineIs, AfterCheck, Enter, Quiet, files, states, copies, locals, reader, history
<1>12. ASSUME Override PROVE Kept \subseteq Kept'
  BY <1>12 DEF Kept, In, Override, Read, Accepted, Enter, Quiet, files, states, copies, locals, reader, history
<1>13. ASSUME ObserveHead PROVE Kept \subseteq Kept'
  BY <1>13 DEF Kept, In, ObserveHead, Read, Accepted, Enter, Quiet, files, states, copies, locals, reader, history
<1>14. ASSUME Preserve PROVE Kept \subseteq Kept'
  BY <1>14 DEF Kept, In, Preserve, Read, Accepted, Enter, Quiet, files, states, copies, locals, reader, history
<1>15. ASSUME Preserved PROVE Kept \subseteq Kept'
  BY <1>15 DEF Kept, In, Preserved, Read, Accepted, AfterCheck, Enter, locals, files, states, copies, locals, reader, history
<1>16. ASSUME Snapshotted PROVE Kept \subseteq Kept'
  BY <1>16 DEF Kept, In, Snapshotted, Read, Accepted, Enter, Finish, NoOp, locals, files, states, copies, locals, reader, history
<1>17. ASSUME NEW r \in Roots, Capture(r) PROVE Kept \subseteq Kept'
  BY <1>17 DEF Kept, In, Capture, Captures, files, states, copies, locals, reader, history
<1>18. ASSUME CaptureDone PROVE Kept \subseteq Kept'
  BY <1>18 DEF Kept, In, CaptureDone, Done, Enter, Quiet, files, states, copies, locals, reader, history
<1>19. ASSUME Publish PROVE Kept \subseteq Kept'
  BY <1>19 DEF Kept, In, Publish, Read, Accepted, Enter, locals, files, states, copies, locals, reader, history
<1>20. ASSUME Settle PROVE Kept \subseteq Kept'
  BY <1>20 DEF Kept, In, Settle, Finish, NoOp, files, states, copies, locals, reader, history
<1>21. ASSUME Fetch PROVE Kept \subseteq Kept'
  BY <1>21 DEF Kept, In, Fetch, Read, Accepted, Enter, files, states, copies, locals, reader, history
<1>22. ASSUME SameHead PROVE Kept \subseteq Kept'
  BY <1>22 DEF Kept, In, SameHead, Read, Accepted, Enter, Quiet, files, states, copies, locals, reader, history
<1>23. ASSUME Acknowledged PROVE Kept \subseteq Kept'
  BY <1>23 DEF Kept, In, Acknowledged, Read, Accepted, Finish, NoOp, files, states, copies, locals, reader, history
<1>24. ASSUME Guard PROVE Kept \subseteq Kept'
  BY <1>24 DEF Kept, In, Guard, Enter, files, states, copies, locals, reader, history
<1>25. ASSUME Unchanged PROVE Kept \subseteq Kept'
  BY <1>25 DEF Kept, In, Unchanged, Enter, Quiet, files, states, copies, locals, reader, history
<1>26. ASSUME NEW r \in Roots, Apply(r) PROVE Kept \subseteq Kept'
  BY <1>26 DEF Kept, In, Apply, files, states, copies, locals, reader, history
<1>27. ASSUME ApplyDone PROVE Kept \subseteq Kept'
  BY <1>27 DEF Kept, In, ApplyDone, Done, Enter, Quiet, files, states, copies, locals, reader, history
<1>28. ASSUME Pulled PROVE Kept \subseteq Kept'
  BY <1>28 DEF Kept, In, Pulled, Read, Accepted, Enter, locals, files, states, copies, locals, reader, history
<1>29. ASSUME BackedUp PROVE Kept \subseteq Kept'
  BY <1>29 DEF Kept, In, BackedUp, Read, Accepted, Selected, Present, Enter, files, states, copies, locals, reader, history
<1>30. ASSUME NEW r \in Roots, Remove(r) PROVE Kept \subseteq Kept'
  BY <1>30 DEF Kept, In, Remove, Busy, files, states, copies, locals, reader, history
<1>31. ASSUME NEW r \in Roots, Place(r) PROVE Kept \subseteq Kept'
  BY <1>31 DEF Kept, In, Place, Target, files, states, copies, locals, reader, history
<1>32. ASSUME PlaceDone PROVE Kept \subseteq Kept'
  BY <1>32 DEF Kept, In, PlaceDone, Done, Enter, Quiet, files, states, copies, locals, reader, history
<1>33. ASSUME ReplaceFails PROVE Kept \subseteq Kept'
  BY <1>33 DEF Kept, In, ReplaceFails, Accepted, Enter, files, states, copies, locals, reader, history
<1>34. ASSUME Undone PROVE Kept \subseteq Kept'
  BY <1>34 DEF Kept, In, Undone, Read, Accepted, Finish, NoOp, files, states, copies, locals, reader, history
<1>35. ASSUME Installed PROVE Kept \subseteq Kept'
  BY <1>35 DEF Kept, In, Installed, Read, Accepted, Enter, files, states, copies, locals, reader, history
<1>36. ASSUME Restored PROVE Kept \subseteq Kept'
  BY <1>36 DEF Kept, In, Restored, Read, Accepted, Enter, Finish, NoOp, locals, files, states, copies, locals, reader, history
<1>37. CASE UNCHANGED vars
  BY <1>37 DEF Kept, In, vars, files, states, copies, locals, reader, history
<1> QED
  BY <1>1, <1>2, <1>3, <1>4, <1>5, <1>6, <1>7, <1>8, <1>9, <1>10, <1>11, <1>12, <1>13, <1>14, <1>15, <1>16, <1>17, <1>18, <1>19, <1>20, <1>21, <1>22, <1>23, <1>24, <1>25, <1>26, <1>27, <1>28, <1>29, <1>30, <1>31, <1>32, <1>33, <1>34, <1>35, <1>36, <1>37
  DEF Next, Environment, Commands, Reading, Heading, Pushing, Pulling, Restoring

\* Every step keeps the commands of the phases.
LEMMA NamesStep == Names /\ [Next]_vars => Names'
<1> SUFFICES ASSUME Names, [Next]_vars PROVE Names' OBVIOUS
<1>1. ASSUME NEW r \in Roots, Deliver(r) PROVE Names'
  BY <1>1 DEF Names, Deliver, files, states, copies, locals, reader, history
<1>2. ASSUME NEW r \in Roots, Edit(r) PROVE Names'
  BY <1>2 DEF Names, Edit, files, states, copies, locals, reader, history
<1>3. ASSUME NEW r \in Roots, ReadRoot(r) PROVE Names'
  BY <1>3 DEF Names, ReadRoot, files, states, copies, locals, reader, history
<1>4. ASSUME Again PROVE Names'
  BY <1>4 DEF Names, Again, files, states, copies, locals, reader, history
<1>5. ASSUME Abort PROVE Names'
  BY <1>5 DEF Names, Abort, Finish, NoOp, files, states, copies, locals, reader, history
<1>6. ASSUME Push PROVE Names'
  BY <1>6 DEF Names, Push, Begin, Enter, NoOp, files, states, copies, locals, reader, history
<1>7. ASSUME Pull PROVE Names'
  BY <1>7 DEF Names, Pull, Begin, Enter, NoOp, files, states, copies, locals, reader, history
<1>8. ASSUME Acknowledge PROVE Names'
  BY <1>8 DEF Names, Acknowledge, Begin, Enter, NoOp, files, states, copies, locals, reader, history
<1>9. ASSUME Snapshot PROVE Names'
  BY <1>9 DEF Names, Snapshot, Begin, Enter, NoOp, files, states, copies, locals, reader, history
<1>10. ASSUME Restore PROVE Names'
  BY <1>10 DEF Names, Restore, Begin, Enter, files, states, copies, locals, reader, history
<1>11. ASSUME CheckHead PROVE Names'
  BY <1>11 DEF Names, CheckHead, Read, Accepted, BaselineIs, AfterCheck, Enter, Quiet, files, states, copies, locals, reader, history
<1>12. ASSUME Override PROVE Names'
  BY <1>12 DEF Names, Override, Read, Accepted, Enter, Quiet, files, states, copies, locals, reader, history
<1>13. ASSUME ObserveHead PROVE Names'
  BY <1>13 DEF Names, ObserveHead, Read, Accepted, Enter, Quiet, files, states, copies, locals, reader, history
<1>14. ASSUME Preserve PROVE Names'
  BY <1>14 DEF Names, Preserve, Read, Accepted, Enter, Quiet, files, states, copies, locals, reader, history
<1>15. ASSUME Preserved PROVE Names'
  BY <1>15 DEF Names, Preserved, Read, Accepted, AfterCheck, Enter, locals, files, states, copies, locals, reader, history
<1>16. ASSUME Snapshotted PROVE Names'
  BY <1>16 DEF Names, Snapshotted, Read, Accepted, Enter, Finish, NoOp, locals, files, states, copies, locals, reader, history
<1>17. ASSUME NEW r \in Roots, Capture(r) PROVE Names'
  BY <1>17 DEF Names, Capture, Captures, files, states, copies, locals, reader, history
<1>18. ASSUME CaptureDone PROVE Names'
  BY <1>18 DEF Names, CaptureDone, Done, Enter, Quiet, files, states, copies, locals, reader, history
<1>19. ASSUME Publish PROVE Names'
  BY <1>19 DEF Names, Publish, Read, Accepted, Enter, locals, files, states, copies, locals, reader, history
<1>20. ASSUME Settle PROVE Names'
  BY <1>20 DEF Names, Settle, Finish, NoOp, files, states, copies, locals, reader, history
<1>21. ASSUME Fetch PROVE Names'
  BY <1>21 DEF Names, Fetch, Read, Accepted, Enter, files, states, copies, locals, reader, history
<1>22. ASSUME SameHead PROVE Names'
  BY <1>22 DEF Names, SameHead, Read, Accepted, Enter, Quiet, files, states, copies, locals, reader, history
<1>23. ASSUME Acknowledged PROVE Names'
  BY <1>23 DEF Names, Acknowledged, Read, Accepted, Finish, NoOp, files, states, copies, locals, reader, history
<1>24. ASSUME Guard PROVE Names'
  BY <1>24 DEF Names, Guard, Enter, files, states, copies, locals, reader, history
<1>25. ASSUME Unchanged PROVE Names'
  BY <1>25 DEF Names, Unchanged, Enter, Quiet, files, states, copies, locals, reader, history
<1>26. ASSUME NEW r \in Roots, Apply(r) PROVE Names'
  BY <1>26 DEF Names, Apply, files, states, copies, locals, reader, history
<1>27. ASSUME ApplyDone PROVE Names'
  BY <1>27 DEF Names, ApplyDone, Done, Enter, Quiet, files, states, copies, locals, reader, history
<1>28. ASSUME Pulled PROVE Names'
  BY <1>28 DEF Names, Pulled, Read, Accepted, Enter, locals, files, states, copies, locals, reader, history
<1>29. ASSUME BackedUp PROVE Names'
  BY <1>29 DEF Names, BackedUp, Read, Accepted, Selected, Present, Enter, files, states, copies, locals, reader, history
<1>30. ASSUME NEW r \in Roots, Remove(r) PROVE Names'
  BY <1>30 DEF Names, Remove, Busy, files, states, copies, locals, reader, history
<1>31. ASSUME NEW r \in Roots, Place(r) PROVE Names'
  BY <1>31 DEF Names, Place, Target, files, states, copies, locals, reader, history
<1>32. ASSUME PlaceDone PROVE Names'
  BY <1>32 DEF Names, PlaceDone, Done, Enter, Quiet, files, states, copies, locals, reader, history
<1>33. ASSUME ReplaceFails PROVE Names'
  BY <1>33 DEF Names, ReplaceFails, Accepted, Enter, files, states, copies, locals, reader, history
<1>34. ASSUME Undone PROVE Names'
  BY <1>34 DEF Names, Undone, Read, Accepted, Finish, NoOp, files, states, copies, locals, reader, history
<1>35. ASSUME Installed PROVE Names'
  BY <1>35 DEF Names, Installed, Read, Accepted, Enter, files, states, copies, locals, reader, history
<1>36. ASSUME Restored PROVE Names'
  BY <1>36 DEF Names, Restored, Read, Accepted, Enter, Finish, NoOp, locals, files, states, copies, locals, reader, history
<1>37. CASE UNCHANGED vars
  BY <1>37 DEF Names, vars, files, states, copies, locals, reader, history
<1> QED
  BY <1>1, <1>2, <1>3, <1>4, <1>5, <1>6, <1>7, <1>8, <1>9, <1>10, <1>11, <1>12, <1>13, <1>14, <1>15, <1>16, <1>17, <1>18, <1>19, <1>20, <1>21, <1>22, <1>23, <1>24, <1>25, <1>26, <1>27, <1>28, <1>29, <1>30, <1>31, <1>32, <1>33, <1>34, <1>35, <1>36, <1>37
  DEF Next, Environment, Commands, Reading, Heading, Pushing, Pulling, Restoring

\* Every step keeps the roots unmarked until they are walked.
LEMMA TodoStep == TodoFirst /\ [Next]_vars => TodoFirst'
<1> SUFFICES ASSUME TodoFirst, [Next]_vars PROVE TodoFirst' OBVIOUS
<1>1. ASSUME NEW r \in Roots, Deliver(r) PROVE TodoFirst'
  BY <1>1 DEF TodoFirst, Deliver, files, states, copies, locals, reader, history
<1>2. ASSUME NEW r \in Roots, Edit(r) PROVE TodoFirst'
  BY <1>2 DEF TodoFirst, Edit, files, states, copies, locals, reader, history
<1>3. ASSUME NEW r \in Roots, ReadRoot(r) PROVE TodoFirst'
  BY <1>3 DEF TodoFirst, ReadRoot, files, states, copies, locals, reader, history
<1>4. ASSUME Again PROVE TodoFirst'
  BY <1>4 DEF TodoFirst, Again, files, states, copies, locals, reader, history
<1>5. ASSUME Abort PROVE TodoFirst'
  BY <1>5 DEF TodoFirst, Abort, Finish, NoOp, files, states, copies, locals, reader, history
<1>6. ASSUME Push PROVE TodoFirst'
  BY <1>6 DEF TodoFirst, Push, Begin, Enter, NoOp, files, states, copies, locals, reader, history
<1>7. ASSUME Pull PROVE TodoFirst'
  BY <1>7 DEF TodoFirst, Pull, Begin, Enter, NoOp, files, states, copies, locals, reader, history
<1>8. ASSUME Acknowledge PROVE TodoFirst'
  BY <1>8 DEF TodoFirst, Acknowledge, Begin, Enter, NoOp, files, states, copies, locals, reader, history
<1>9. ASSUME Snapshot PROVE TodoFirst'
  BY <1>9 DEF TodoFirst, Snapshot, Begin, Enter, NoOp, files, states, copies, locals, reader, history
<1>10. ASSUME Restore PROVE TodoFirst'
  BY <1>10 DEF TodoFirst, Restore, Begin, Enter, files, states, copies, locals, reader, history
<1>11. ASSUME CheckHead PROVE TodoFirst'
  BY <1>11 DEF TodoFirst, CheckHead, Read, Accepted, BaselineIs, AfterCheck, Enter, Quiet, files, states, copies, locals, reader, history
<1>12. ASSUME Override PROVE TodoFirst'
  BY <1>12 DEF TodoFirst, Override, Read, Accepted, Enter, Quiet, files, states, copies, locals, reader, history
<1>13. ASSUME ObserveHead PROVE TodoFirst'
  BY <1>13 DEF TodoFirst, ObserveHead, Read, Accepted, Enter, Quiet, files, states, copies, locals, reader, history
<1>14. ASSUME Preserve PROVE TodoFirst'
  BY <1>14 DEF TodoFirst, Preserve, Read, Accepted, Enter, Quiet, files, states, copies, locals, reader, history
<1>15. ASSUME Preserved PROVE TodoFirst'
  BY <1>15 DEF TodoFirst, Preserved, Read, Accepted, AfterCheck, Enter, locals, files, states, copies, locals, reader, history
<1>16. ASSUME Snapshotted PROVE TodoFirst'
  BY <1>16 DEF TodoFirst, Snapshotted, Read, Accepted, Enter, Finish, NoOp, locals, files, states, copies, locals, reader, history
<1>17. ASSUME NEW r \in Roots, Capture(r) PROVE TodoFirst'
  BY <1>17 DEF TodoFirst, Capture, Captures, files, states, copies, locals, reader, history
<1>18. ASSUME CaptureDone PROVE TodoFirst'
  BY <1>18 DEF TodoFirst, CaptureDone, Done, Enter, Quiet, files, states, copies, locals, reader, history
<1>19. ASSUME Publish PROVE TodoFirst'
  BY <1>19 DEF TodoFirst, Publish, Read, Accepted, Enter, locals, files, states, copies, locals, reader, history
<1>20. ASSUME Settle PROVE TodoFirst'
  BY <1>20 DEF TodoFirst, Settle, Finish, NoOp, files, states, copies, locals, reader, history
<1>21. ASSUME Fetch PROVE TodoFirst'
  BY <1>21 DEF TodoFirst, Fetch, Read, Accepted, Enter, files, states, copies, locals, reader, history
<1>22. ASSUME SameHead PROVE TodoFirst'
  BY <1>22 DEF TodoFirst, SameHead, Read, Accepted, Enter, Quiet, files, states, copies, locals, reader, history
<1>23. ASSUME Acknowledged PROVE TodoFirst'
  BY <1>23 DEF TodoFirst, Acknowledged, Read, Accepted, Finish, NoOp, files, states, copies, locals, reader, history
<1>24. ASSUME Guard PROVE TodoFirst'
  BY <1>24 DEF TodoFirst, Guard, Enter, files, states, copies, locals, reader, history
<1>25. ASSUME Unchanged PROVE TodoFirst'
  BY <1>25 DEF TodoFirst, Unchanged, Enter, Quiet, files, states, copies, locals, reader, history
<1>26. ASSUME NEW r \in Roots, Apply(r) PROVE TodoFirst'
  BY <1>26 DEF TodoFirst, Apply, files, states, copies, locals, reader, history
<1>27. ASSUME ApplyDone PROVE TodoFirst'
  BY <1>27 DEF TodoFirst, ApplyDone, Done, Enter, Quiet, files, states, copies, locals, reader, history
<1>28. ASSUME Pulled PROVE TodoFirst'
  BY <1>28 DEF TodoFirst, Pulled, Read, Accepted, Enter, locals, files, states, copies, locals, reader, history
<1>29. ASSUME BackedUp PROVE TodoFirst'
  BY <1>29 DEF TodoFirst, BackedUp, Read, Accepted, Selected, Present, Enter, files, states, copies, locals, reader, history
<1>30. ASSUME NEW r \in Roots, Remove(r) PROVE TodoFirst'
  BY <1>30 DEF TodoFirst, Remove, Busy, files, states, copies, locals, reader, history
<1>31. ASSUME NEW r \in Roots, Place(r) PROVE TodoFirst'
  BY <1>31 DEF TodoFirst, Place, Target, files, states, copies, locals, reader, history
<1>32. ASSUME PlaceDone PROVE TodoFirst'
  BY <1>32 DEF TodoFirst, PlaceDone, Done, Enter, Quiet, files, states, copies, locals, reader, history
<1>33. ASSUME ReplaceFails PROVE TodoFirst'
  BY <1>33 DEF TodoFirst, ReplaceFails, Accepted, Enter, files, states, copies, locals, reader, history
<1>34. ASSUME Undone PROVE TodoFirst'
  BY <1>34 DEF TodoFirst, Undone, Read, Accepted, Finish, NoOp, files, states, copies, locals, reader, history
<1>35. ASSUME Installed PROVE TodoFirst'
  BY <1>35 DEF TodoFirst, Installed, Read, Accepted, Enter, files, states, copies, locals, reader, history
<1>36. ASSUME Restored PROVE TodoFirst'
  BY <1>36 DEF TodoFirst, Restored, Read, Accepted, Enter, Finish, NoOp, locals, files, states, copies, locals, reader, history
<1>37. CASE UNCHANGED vars
  BY <1>37 DEF TodoFirst, vars, files, states, copies, locals, reader, history
<1> QED
  BY <1>1, <1>2, <1>3, <1>4, <1>5, <1>6, <1>7, <1>8, <1>9, <1>10, <1>11, <1>12, <1>13, <1>14, <1>15, <1>16, <1>17, <1>18, <1>19, <1>20, <1>21, <1>22, <1>23, <1>24, <1>25, <1>26, <1>27, <1>28, <1>29, <1>30, <1>31, <1>32, <1>33, <1>34, <1>35, <1>36, <1>37
  DEF Next, Environment, Commands, Reading, Heading, Pushing, Pulling, Restoring

\* Every step keeps what is applied.
LEMMA AppliesStep == TypeOK /\ Names /\ TodoFirst /\ AppliesHead /\ [Next]_vars => AppliesHead'
<1> SUFFICES ASSUME TypeOK /\ Names /\ TodoFirst /\ AppliesHead, [Next]_vars PROVE AppliesHead' OBVIOUS
<1>1. ASSUME NEW r \in Roots, Deliver(r) PROVE AppliesHead'
  BY <1>1 DEF AppliesHead, Names, TodoFirst, TypeOK, Deliver, files, states, copies, locals, reader, history
<1>2. ASSUME NEW r \in Roots, Edit(r) PROVE AppliesHead'
  BY <1>2 DEF AppliesHead, Names, TodoFirst, TypeOK, Edit, files, states, copies, locals, reader, history
<1>3. ASSUME NEW r \in Roots, ReadRoot(r) PROVE AppliesHead'
  BY <1>3 DEF AppliesHead, Names, TodoFirst, TypeOK, ReadRoot, files, states, copies, locals, reader, history
<1>4. ASSUME Again PROVE AppliesHead'
  BY <1>4 DEF AppliesHead, Names, TodoFirst, TypeOK, Again, files, states, copies, locals, reader, history
<1>5. ASSUME Abort PROVE AppliesHead'
  BY <1>5 DEF AppliesHead, Names, TodoFirst, TypeOK, Abort, Finish, NoOp, files, states, copies, locals, reader, history
<1>6. ASSUME Push PROVE AppliesHead'
  BY <1>6 DEF AppliesHead, Names, TodoFirst, TypeOK, Push, Begin, Enter, NoOp, files, states, copies, locals, reader, history
<1>7. ASSUME Pull PROVE AppliesHead'
  BY <1>7 DEF AppliesHead, Names, TodoFirst, TypeOK, Pull, Begin, Enter, NoOp, files, states, copies, locals, reader, history
<1>8. ASSUME Acknowledge PROVE AppliesHead'
  BY <1>8 DEF AppliesHead, Names, TodoFirst, TypeOK, Acknowledge, Begin, Enter, NoOp, files, states, copies, locals, reader, history
<1>9. ASSUME Snapshot PROVE AppliesHead'
  BY <1>9 DEF AppliesHead, Names, TodoFirst, TypeOK, Snapshot, Begin, Enter, NoOp, files, states, copies, locals, reader, history
<1>10. ASSUME Restore PROVE AppliesHead'
  BY <1>10 DEF AppliesHead, Names, TodoFirst, TypeOK, Taken, Restore, Begin, Enter, files, states, copies, locals, reader, history
<1>11. ASSUME CheckHead PROVE AppliesHead'
  BY <1>11 DEF AppliesHead, Names, TodoFirst, TypeOK, CheckHead, Read, Accepted, BaselineIs, AfterCheck, Enter, Quiet, files, states, copies, locals, reader, history
<1>12. ASSUME Override PROVE AppliesHead'
  BY <1>12 DEF AppliesHead, Names, TodoFirst, TypeOK, Override, Read, Accepted, Enter, Quiet, files, states, copies, locals, reader, history
<1>13. ASSUME ObserveHead PROVE AppliesHead'
  BY <1>13 DEF AppliesHead, Names, TodoFirst, TypeOK, ObserveHead, Read, Accepted, Enter, Quiet, files, states, copies, locals, reader, history
<1>14. ASSUME Preserve PROVE AppliesHead'
  BY <1>14 DEF AppliesHead, Names, TodoFirst, TypeOK, Preserve, Read, Accepted, Enter, Quiet, files, states, copies, locals, reader, history
<1>15. ASSUME Preserved PROVE AppliesHead'
  BY <1>15 DEF AppliesHead, Names, TodoFirst, TypeOK, Preserved, Read, Accepted, AfterCheck, Enter, locals, files, states, copies, locals, reader, history
<1>16. ASSUME Snapshotted PROVE AppliesHead'
  BY <1>16 DEF AppliesHead, Names, TodoFirst, TypeOK, Snapshotted, Read, Accepted, Enter, Finish, NoOp, locals, files, states, copies, locals, reader, history
<1>17. ASSUME NEW r \in Roots, Capture(r) PROVE AppliesHead'
  BY <1>17 DEF AppliesHead, Names, TodoFirst, TypeOK, Capture, Captures, files, states, copies, locals, reader, history
<1>18. ASSUME CaptureDone PROVE AppliesHead'
  BY <1>18 DEF AppliesHead, Names, TodoFirst, TypeOK, CaptureDone, Done, Enter, Quiet, files, states, copies, locals, reader, history
<1>19. ASSUME Publish PROVE AppliesHead'
  BY <1>19 DEF AppliesHead, Names, TodoFirst, TypeOK, Publish, Read, Accepted, Enter, locals, files, states, copies, locals, reader, history
<1>20. ASSUME Settle PROVE AppliesHead'
  BY <1>20 DEF AppliesHead, Names, TodoFirst, TypeOK, Settle, Finish, NoOp, files, states, copies, locals, reader, history
<1>21. ASSUME Fetch PROVE AppliesHead'
  BY <1>21 DEF AppliesHead, Names, TodoFirst, TypeOK, Fetch, Read, Accepted, Enter, files, states, copies, locals, reader, history
<1>22. ASSUME SameHead PROVE AppliesHead'
  BY <1>22 DEF AppliesHead, Names, TodoFirst, TypeOK, SameHead, Read, Accepted, Enter, Quiet, files, states, copies, locals, reader, history
<1>23. ASSUME Acknowledged PROVE AppliesHead'
  BY <1>23 DEF AppliesHead, Names, TodoFirst, TypeOK, Acknowledged, Read, Accepted, Finish, NoOp, files, states, copies, locals, reader, history
<1>24. ASSUME Guard PROVE AppliesHead'
  BY <1>24 DEF AppliesHead, Names, TodoFirst, TypeOK, Guard, Enter, files, states, copies, locals, reader, history
<1>25. ASSUME Unchanged PROVE AppliesHead'
  BY <1>25 DEF AppliesHead, Names, TodoFirst, TypeOK, Unchanged, Enter, Quiet, files, states, copies, locals, reader, history
<1>26. ASSUME NEW r \in Roots, Apply(r) PROVE AppliesHead'
  BY <1>26 DEF AppliesHead, Names, TodoFirst, TypeOK, Apply, files, states, copies, locals, reader, history
<1>27. ASSUME ApplyDone PROVE AppliesHead'
  BY <1>27 DEF AppliesHead, Names, TodoFirst, TypeOK, ApplyDone, Done, Enter, Quiet, files, states, copies, locals, reader, history
<1>28. ASSUME Pulled PROVE AppliesHead'
  BY <1>28 DEF AppliesHead, Names, TodoFirst, TypeOK, Pulled, Read, Accepted, Enter, locals, files, states, copies, locals, reader, history
<1>29. ASSUME BackedUp PROVE AppliesHead'
  BY <1>29 DEF AppliesHead, Names, TodoFirst, TypeOK, BackedUp, Read, Accepted, Selected, Present, Enter, files, states, copies, locals, reader, history
<1>30. ASSUME NEW r \in Roots, Remove(r) PROVE AppliesHead'
  BY <1>30 DEF AppliesHead, Names, TodoFirst, TypeOK, Remove, Busy, files, states, copies, locals, reader, history
<1>31. ASSUME NEW r \in Roots, Place(r) PROVE AppliesHead'
  BY <1>31 DEF AppliesHead, Names, TodoFirst, TypeOK, Place, Target, files, states, copies, locals, reader, history
<1>32. ASSUME PlaceDone PROVE AppliesHead'
  BY <1>32 DEF AppliesHead, Names, TodoFirst, TypeOK, PlaceDone, Done, Enter, Quiet, files, states, copies, locals, reader, history
<1>33. ASSUME ReplaceFails PROVE AppliesHead'
  BY <1>33 DEF AppliesHead, Names, TodoFirst, TypeOK, ReplaceFails, Accepted, Enter, files, states, copies, locals, reader, history
<1>34. ASSUME Undone PROVE AppliesHead'
  BY <1>34 DEF AppliesHead, Names, TodoFirst, TypeOK, Undone, Read, Accepted, Finish, NoOp, files, states, copies, locals, reader, history
<1>35. ASSUME Installed PROVE AppliesHead'
  BY <1>35 DEF AppliesHead, Names, TodoFirst, TypeOK, Installed, Read, Accepted, Enter, files, states, copies, locals, reader, history
<1>36. ASSUME Restored PROVE AppliesHead'
  BY <1>36 DEF AppliesHead, Names, TodoFirst, TypeOK, Restored, Read, Accepted, Enter, Finish, NoOp, locals, files, states, copies, locals, reader, history
<1>37. CASE UNCHANGED vars
  BY <1>37 DEF AppliesHead, Names, TodoFirst, TypeOK, vars, files, states, copies, locals, reader, history
<1> QED
  BY <1>1, <1>2, <1>3, <1>4, <1>5, <1>6, <1>7, <1>8, <1>9, <1>10, <1>11, <1>12, <1>13, <1>14, <1>15, <1>16, <1>17, <1>18, <1>19, <1>20, <1>21, <1>22, <1>23, <1>24, <1>25, <1>26, <1>27, <1>28, <1>29, <1>30, <1>31, <1>32, <1>33, <1>34, <1>35, <1>36, <1>37
  DEF Next, Environment, Commands, Reading, Heading, Pushing, Pulling, Restoring

\* Every step keeps the baseline within what a push may overwrite.
LEMMA BaseStep == TypeOK /\ Kept \subseteq Kept' /\ AppliesHead /\ Names /\ HeadKept /\ BaseKept /\ [Next]_vars => BaseKept'
<1> SUFFICES ASSUME TypeOK /\ Kept \subseteq Kept' /\ AppliesHead /\ Names /\ HeadKept /\ BaseKept, [Next]_vars PROVE BaseKept' OBVIOUS
<1>1. ASSUME NEW r \in Roots, Deliver(r) PROVE BaseKept'
  BY <1>1 DEF BaseKept, Deliver, files, states, copies, locals, reader, history
<1>2. ASSUME NEW r \in Roots, Edit(r) PROVE BaseKept'
  BY <1>2 DEF BaseKept, Edit, files, states, copies, locals, reader, history
<1>3. ASSUME NEW r \in Roots, ReadRoot(r) PROVE BaseKept'
  BY <1>3 DEF BaseKept, ReadRoot, files, states, copies, locals, reader, history
<1>4. ASSUME Again PROVE BaseKept'
  BY <1>4 DEF BaseKept, Again, files, states, copies, locals, reader, history
<1>5. ASSUME Abort PROVE BaseKept'
  BY <1>5 DEF BaseKept, Abort, Finish, NoOp, files, states, copies, locals, reader, history
<1>6. ASSUME Push PROVE BaseKept'
  BY <1>6 DEF BaseKept, Push, Begin, Enter, NoOp, files, states, copies, locals, reader, history
<1>7. ASSUME Pull PROVE BaseKept'
  BY <1>7 DEF BaseKept, Pull, Begin, Enter, NoOp, files, states, copies, locals, reader, history
<1>8. ASSUME Acknowledge PROVE BaseKept'
  BY <1>8 DEF BaseKept, Acknowledge, Begin, Enter, NoOp, files, states, copies, locals, reader, history
<1>9. ASSUME Snapshot PROVE BaseKept'
  BY <1>9 DEF BaseKept, Snapshot, Begin, Enter, NoOp, files, states, copies, locals, reader, history
<1>10. ASSUME Restore PROVE BaseKept'
  BY <1>10 DEF BaseKept, Restore, Begin, Enter, files, states, copies, locals, reader, history
<1>11. ASSUME CheckHead PROVE BaseKept'
  BY <1>11 DEF BaseKept, CheckHead, Read, Accepted, BaselineIs, AfterCheck, Enter, Quiet, files, states, copies, locals, reader, history
<1>12. ASSUME Override PROVE BaseKept'
  BY <1>12 DEF BaseKept, Override, Read, Accepted, Enter, Quiet, files, states, copies, locals, reader, history
<1>13. ASSUME ObserveHead PROVE BaseKept'
  BY <1>13 DEF BaseKept, ObserveHead, Read, Accepted, Enter, Quiet, files, states, copies, locals, reader, history
<1>14. ASSUME Preserve PROVE BaseKept'
  BY <1>14 DEF BaseKept, Preserve, Read, Accepted, Enter, Quiet, files, states, copies, locals, reader, history
<1>15. ASSUME Preserved PROVE BaseKept'
  BY <1>15 DEF BaseKept, Preserved, Read, Accepted, AfterCheck, Enter, locals, files, states, copies, locals, reader, history
<1>16. ASSUME Snapshotted PROVE BaseKept'
  BY <1>16 DEF BaseKept, Snapshotted, Read, Accepted, Enter, Finish, NoOp, locals, files, states, copies, locals, reader, history
<1>17. ASSUME NEW r \in Roots, Capture(r) PROVE BaseKept'
  BY <1>17 DEF BaseKept, Capture, Captures, files, states, copies, locals, reader, history
<1>18. ASSUME CaptureDone PROVE BaseKept'
  BY <1>18 DEF BaseKept, CaptureDone, Done, Enter, Quiet, files, states, copies, locals, reader, history
<1>19. ASSUME Publish PROVE BaseKept'
  <2> SUFFICES ASSUME NEW r \in Roots PROVE base'[r] \in Kept' \cup {Absent, Unread}
    BY DEF BaseKept
  <2>1. pc = "publish" /\ op.name = "push" /\ base' = got
    BY <1>19 DEF Publish, Read, Names
  <2>2. CASE got[r] = head[r]
    BY <2>1, <2>2 DEF HeadKept
  <2>3. CASE got[r] \in known
    BY <2>1, <2>3 DEF Kept
  <2>4. CASE got[r] # head[r] /\ got[r] \notin known
    <3>1. got[r] \in missed'
      BY <1>19, <2>4 DEF Publish
    <3> QED BY <3>1, <2>1 DEF Kept
  <2> QED BY <2>2, <2>3, <2>4
<1>20. ASSUME Settle PROVE BaseKept'
  BY <1>20 DEF BaseKept, Settle, Finish, NoOp, files, states, copies, locals, reader, history
<1>21. ASSUME Fetch PROVE BaseKept'
  BY <1>21 DEF BaseKept, Fetch, Read, Accepted, Enter, files, states, copies, locals, reader, history
<1>22. ASSUME SameHead PROVE BaseKept'
  BY <1>22 DEF BaseKept, SameHead, Read, Accepted, Enter, Quiet, files, states, copies, locals, reader, history
<1>23. ASSUME Acknowledged PROVE BaseKept'
  <2>1. base' = head /\ unapplied' = unapplied \cup In({head})
    BY <1>23 DEF Acknowledged
  <2>2. \A r \in Roots : head[r] \in unapplied'
    BY <2>1 DEF In
  <2> QED BY <2>1, <2>2 DEF BaseKept, Kept
<1>24. ASSUME Guard PROVE BaseKept'
  BY <1>24 DEF BaseKept, Guard, Enter, files, states, copies, locals, reader, history
<1>25. ASSUME Unchanged PROVE BaseKept'
  BY <1>25 DEF BaseKept, Unchanged, Enter, Quiet, files, states, copies, locals, reader, history
<1>26. ASSUME NEW r \in Roots, Apply(r) PROVE BaseKept'
  BY <1>26 DEF BaseKept, Apply, files, states, copies, locals, reader, history
<1>27. ASSUME ApplyDone PROVE BaseKept'
  BY <1>27 DEF BaseKept, ApplyDone, Done, Enter, Quiet, files, states, copies, locals, reader, history
<1>28. ASSUME Pulled PROVE BaseKept'
  <2>1. base' = head /\ head = stage /\ \A r \in Roots : stage[r] \in known \cup {Absent}
    BY <1>28 DEF Pulled, Read, AppliesHead
  <2> QED BY <2>1 DEF BaseKept, Kept
<1>29. ASSUME BackedUp PROVE BaseKept'
  BY <1>29 DEF BaseKept, BackedUp, Read, Accepted, Selected, Present, Enter, files, states, copies, locals, reader, history
<1>30. ASSUME NEW r \in Roots, Remove(r) PROVE BaseKept'
  BY <1>30 DEF BaseKept, Remove, Busy, files, states, copies, locals, reader, history
<1>31. ASSUME NEW r \in Roots, Place(r) PROVE BaseKept'
  BY <1>31 DEF BaseKept, Place, Target, files, states, copies, locals, reader, history
<1>32. ASSUME PlaceDone PROVE BaseKept'
  BY <1>32 DEF BaseKept, PlaceDone, Done, Enter, Quiet, files, states, copies, locals, reader, history
<1>33. ASSUME ReplaceFails PROVE BaseKept'
  BY <1>33 DEF BaseKept, ReplaceFails, Accepted, Enter, files, states, copies, locals, reader, history
<1>34. ASSUME Undone PROVE BaseKept'
  BY <1>34 DEF BaseKept, Undone, Read, Accepted, Finish, NoOp, files, states, copies, locals, reader, history
<1>35. ASSUME Installed PROVE BaseKept'
  BY <1>35 DEF BaseKept, Installed, Read, Accepted, Enter, files, states, copies, locals, reader, history
<1>36. ASSUME Restored PROVE BaseKept'
  <2> SUFFICES ASSUME NEW r \in Roots PROVE base'[r] \in Kept' \cup {Absent, Unread}
    BY DEF BaseKept
  <2>1. pc = "last" /\ base' = got
    BY <1>36 DEF Restored, Read
  <2>2. CASE got[r] # stage[r]
    <3>1. got[r] \in missed'
      BY <1>36, <2>2 DEF Restored
    <3> QED BY <3>1, <2>1 DEF Kept
  <2>3. CASE got[r] = stage[r] /\ op.sourceOnly
    <3>1. unapplied' = unapplied \cup In({stage})
      BY <1>36, <2>3 DEF Restored
    <3>2. stage[r] \in unapplied'
      BY <3>1 DEF In
    <3> QED BY <3>2, <2>1, <2>3 DEF Kept
  <2>4. CASE got[r] = stage[r] /\ ~op.sourceOnly
    BY <2>1, <2>4 DEF AppliesHead, Kept
  <2> QED BY <2>2, <2>3, <2>4
<1>37. CASE UNCHANGED vars
  BY <1>37 DEF BaseKept, vars, files, states, copies, locals, reader, history
<1> QED
  BY <1>1, <1>2, <1>3, <1>4, <1>5, <1>6, <1>7, <1>8, <1>9, <1>10, <1>11, <1>12, <1>13, <1>14, <1>15, <1>16, <1>17, <1>18, <1>19, <1>20, <1>21, <1>22, <1>23, <1>24, <1>25, <1>26, <1>27, <1>28, <1>29, <1>30, <1>31, <1>32, <1>33, <1>34, <1>35, <1>36, <1>37
  DEF Next, Environment, Commands, Reading, Heading, Pushing, Pulling, Restoring

\* Every step keeps the checked head within what a push may overwrite.
LEMMA HeadStep == TypeOK /\ Kept \subseteq Kept' /\ Names /\ BaseKept /\ HeadKept /\ [Next]_vars => HeadKept'
<1> SUFFICES ASSUME TypeOK /\ Kept \subseteq Kept' /\ Names /\ BaseKept /\ HeadKept, [Next]_vars PROVE HeadKept' OBVIOUS
<1>1. ASSUME NEW r \in Roots, Deliver(r) PROVE HeadKept'
  BY <1>1 DEF HeadKept, Names, Deliver, files, states, copies, locals, reader, history
<1>2. ASSUME NEW r \in Roots, Edit(r) PROVE HeadKept'
  BY <1>2 DEF HeadKept, Names, Edit, files, states, copies, locals, reader, history
<1>3. ASSUME NEW r \in Roots, ReadRoot(r) PROVE HeadKept'
  BY <1>3 DEF HeadKept, Names, ReadRoot, files, states, copies, locals, reader, history
<1>4. ASSUME Again PROVE HeadKept'
  BY <1>4 DEF HeadKept, Names, Again, files, states, copies, locals, reader, history
<1>5. ASSUME Abort PROVE HeadKept'
  BY <1>5 DEF HeadKept, Names, Abort, Finish, NoOp, files, states, copies, locals, reader, history
<1>6. ASSUME Push PROVE HeadKept'
  BY <1>6 DEF HeadKept, Names, Push, Begin, Enter, NoOp, files, states, copies, locals, reader, history
<1>7. ASSUME Pull PROVE HeadKept'
  BY <1>7 DEF HeadKept, Names, Pull, Begin, Enter, NoOp, files, states, copies, locals, reader, history
<1>8. ASSUME Acknowledge PROVE HeadKept'
  BY <1>8 DEF HeadKept, Names, Acknowledge, Begin, Enter, NoOp, files, states, copies, locals, reader, history
<1>9. ASSUME Snapshot PROVE HeadKept'
  BY <1>9 DEF HeadKept, Names, Snapshot, Begin, Enter, NoOp, files, states, copies, locals, reader, history
<1>10. ASSUME Restore PROVE HeadKept'
  BY <1>10 DEF HeadKept, Names, Restore, Begin, Enter, files, states, copies, locals, reader, history
<1>11. ASSUME CheckHead PROVE HeadKept'
  <2> SUFFICES ASSUME NEW r \in Roots, op.name = "push" PROVE head'[r] \in Kept' \cup {Absent}
    BY <1>11 DEF HeadKept, CheckHead, Quiet
  <2>1. head' = got /\ BaselineIs(got) /\ Full
    BY <1>11 DEF CheckHead, Read, Accepted
  <2>2. CASE base = Blank
    BY <2>1, <2>2 DEF BaselineIs, Empty
  <2>3. CASE base # Blank
    <3>1. got = base /\ got[r] # Unread
      BY <2>1, <2>3 DEF BaselineIs, Full
    <3> QED BY <2>1, <3>1 DEF BaseKept
  <2> QED BY <2>2, <2>3
<1>12. ASSUME Override PROVE HeadKept'
  BY <1>12 DEF HeadKept, Names, Override, Read, Accepted, Enter, Quiet, files, states, copies, locals, reader, history
<1>13. ASSUME ObserveHead PROVE HeadKept'
  BY <1>13 DEF HeadKept, Names, ObserveHead, Read, Accepted, Enter, Quiet, files, states, copies, locals, reader, history
<1>14. ASSUME Preserve PROVE HeadKept'
  BY <1>14 DEF HeadKept, Names, Preserve, Read, Accepted, Enter, Quiet, files, states, copies, locals, reader, history
<1>15. ASSUME Preserved PROVE HeadKept'
  <2>1. head' = head /\ recovery' = recovery \cup {head}
    BY <1>15 DEF Preserved, locals
  <2>2. \A r \in Roots : head'[r] \in In(recovery')
    BY <2>1 DEF In
  <2> QED BY <2>2 DEF HeadKept, Kept
<1>16. ASSUME Snapshotted PROVE HeadKept'
  BY <1>16 DEF HeadKept, Names, Snapshotted, Read, Accepted, Enter, Finish, NoOp, locals, files, states, copies, locals, reader, history
<1>17. ASSUME NEW r \in Roots, Capture(r) PROVE HeadKept'
  BY <1>17 DEF HeadKept, Names, Capture, Captures, files, states, copies, locals, reader, history
<1>18. ASSUME CaptureDone PROVE HeadKept'
  BY <1>18 DEF HeadKept, Names, CaptureDone, Done, Enter, Quiet, files, states, copies, locals, reader, history
<1>19. ASSUME Publish PROVE HeadKept'
  BY <1>19 DEF HeadKept, Names, Publish, Read, Accepted, Enter, locals, files, states, copies, locals, reader, history
<1>20. ASSUME Settle PROVE HeadKept'
  BY <1>20 DEF HeadKept, Names, Settle, Finish, NoOp, files, states, copies, locals, reader, history
<1>21. ASSUME Fetch PROVE HeadKept'
  BY <1>21 DEF HeadKept, Names, Fetch, Read, Accepted, Enter, files, states, copies, locals, reader, history
<1>22. ASSUME SameHead PROVE HeadKept'
  BY <1>22 DEF HeadKept, Names, SameHead, Read, Accepted, Enter, Quiet, files, states, copies, locals, reader, history
<1>23. ASSUME Acknowledged PROVE HeadKept'
  BY <1>23 DEF HeadKept, Names, Acknowledged, Read, Accepted, Finish, NoOp, files, states, copies, locals, reader, history
<1>24. ASSUME Guard PROVE HeadKept'
  BY <1>24 DEF HeadKept, Names, Guard, Enter, files, states, copies, locals, reader, history
<1>25. ASSUME Unchanged PROVE HeadKept'
  BY <1>25 DEF HeadKept, Names, Unchanged, Enter, Quiet, files, states, copies, locals, reader, history
<1>26. ASSUME NEW r \in Roots, Apply(r) PROVE HeadKept'
  BY <1>26 DEF HeadKept, Names, Apply, files, states, copies, locals, reader, history
<1>27. ASSUME ApplyDone PROVE HeadKept'
  BY <1>27 DEF HeadKept, Names, ApplyDone, Done, Enter, Quiet, files, states, copies, locals, reader, history
<1>28. ASSUME Pulled PROVE HeadKept'
  BY <1>28 DEF HeadKept, Names, Pulled, Read, Accepted, Enter, locals, files, states, copies, locals, reader, history
<1>29. ASSUME BackedUp PROVE HeadKept'
  BY <1>29 DEF HeadKept, Names, BackedUp, Read, Accepted, Selected, Present, Enter, files, states, copies, locals, reader, history
<1>30. ASSUME NEW r \in Roots, Remove(r) PROVE HeadKept'
  BY <1>30 DEF HeadKept, Names, Remove, Busy, files, states, copies, locals, reader, history
<1>31. ASSUME NEW r \in Roots, Place(r) PROVE HeadKept'
  BY <1>31 DEF HeadKept, Names, Place, Target, files, states, copies, locals, reader, history
<1>32. ASSUME PlaceDone PROVE HeadKept'
  BY <1>32 DEF HeadKept, Names, PlaceDone, Done, Enter, Quiet, files, states, copies, locals, reader, history
<1>33. ASSUME ReplaceFails PROVE HeadKept'
  BY <1>33 DEF HeadKept, Names, ReplaceFails, Accepted, Enter, files, states, copies, locals, reader, history
<1>34. ASSUME Undone PROVE HeadKept'
  BY <1>34 DEF HeadKept, Names, Undone, Read, Accepted, Finish, NoOp, files, states, copies, locals, reader, history
<1>35. ASSUME Installed PROVE HeadKept'
  BY <1>35 DEF HeadKept, Names, Installed, Read, Accepted, Enter, files, states, copies, locals, reader, history
<1>36. ASSUME Restored PROVE HeadKept'
  BY <1>36 DEF HeadKept, Names, Restored, Read, Accepted, Enter, Finish, NoOp, locals, files, states, copies, locals, reader, history
<1>37. CASE UNCHANGED vars
  BY <1>37 DEF HeadKept, Names, vars, files, states, copies, locals, reader, history
<1> QED
  BY <1>1, <1>2, <1>3, <1>4, <1>5, <1>6, <1>7, <1>8, <1>9, <1>10, <1>11, <1>12, <1>13, <1>14, <1>15, <1>16, <1>17, <1>18, <1>19, <1>20, <1>21, <1>22, <1>23, <1>24, <1>25, <1>26, <1>27, <1>28, <1>29, <1>30, <1>31, <1>32, <1>33, <1>34, <1>35, <1>36, <1>37
  DEF Next, Environment, Commands, Reading, Heading, Pushing, Pulling, Restoring

\* Every step keeps what was overwritten within what a push may overwrite.
LEMMA CapturedStep == TypeOK /\ Kept \subseteq Kept' /\ Names /\ HeadKept /\ CapturedKept /\ [Next]_vars => CapturedKept'
<1> SUFFICES ASSUME TypeOK /\ Kept \subseteq Kept' /\ Names /\ HeadKept /\ CapturedKept, [Next]_vars PROVE CapturedKept' OBVIOUS
<1>1. ASSUME NEW r \in Roots, Deliver(r) PROVE CapturedKept'
  BY <1>1 DEF CapturedKept, Deliver, files, states, copies, locals, reader, history
<1>2. ASSUME NEW r \in Roots, Edit(r) PROVE CapturedKept'
  BY <1>2 DEF CapturedKept, Edit, files, states, copies, locals, reader, history
<1>3. ASSUME NEW r \in Roots, ReadRoot(r) PROVE CapturedKept'
  BY <1>3 DEF CapturedKept, ReadRoot, files, states, copies, locals, reader, history
<1>4. ASSUME Again PROVE CapturedKept'
  BY <1>4 DEF CapturedKept, Again, files, states, copies, locals, reader, history
<1>5. ASSUME Abort PROVE CapturedKept'
  BY <1>5 DEF CapturedKept, Abort, Finish, NoOp, files, states, copies, locals, reader, history
<1>6. ASSUME Push PROVE CapturedKept'
  BY <1>6 DEF CapturedKept, Push, Begin, Enter, NoOp, files, states, copies, locals, reader, history
<1>7. ASSUME Pull PROVE CapturedKept'
  BY <1>7 DEF CapturedKept, Pull, Begin, Enter, NoOp, files, states, copies, locals, reader, history
<1>8. ASSUME Acknowledge PROVE CapturedKept'
  BY <1>8 DEF CapturedKept, Acknowledge, Begin, Enter, NoOp, files, states, copies, locals, reader, history
<1>9. ASSUME Snapshot PROVE CapturedKept'
  BY <1>9 DEF CapturedKept, Snapshot, Begin, Enter, NoOp, files, states, copies, locals, reader, history
<1>10. ASSUME Restore PROVE CapturedKept'
  BY <1>10 DEF CapturedKept, Restore, Begin, Enter, files, states, copies, locals, reader, history
<1>11. ASSUME CheckHead PROVE CapturedKept'
  BY <1>11 DEF CapturedKept, CheckHead, Read, Accepted, BaselineIs, AfterCheck, Enter, Quiet, files, states, copies, locals, reader, history
<1>12. ASSUME Override PROVE CapturedKept'
  BY <1>12 DEF CapturedKept, Override, Read, Accepted, Enter, Quiet, files, states, copies, locals, reader, history
<1>13. ASSUME ObserveHead PROVE CapturedKept'
  BY <1>13 DEF CapturedKept, ObserveHead, Read, Accepted, Enter, Quiet, files, states, copies, locals, reader, history
<1>14. ASSUME Preserve PROVE CapturedKept'
  BY <1>14 DEF CapturedKept, Preserve, Read, Accepted, Enter, Quiet, files, states, copies, locals, reader, history
<1>15. ASSUME Preserved PROVE CapturedKept'
  BY <1>15 DEF CapturedKept, Preserved, Read, Accepted, AfterCheck, Enter, locals, files, states, copies, locals, reader, history
<1>16. ASSUME Snapshotted PROVE CapturedKept'
  BY <1>16 DEF CapturedKept, Snapshotted, Read, Accepted, Enter, Finish, NoOp, locals, files, states, copies, locals, reader, history
<1>17. ASSUME NEW r \in Roots, Capture(r) PROVE CapturedKept'
  <2>1. pc = "capture" /\ op.name = "push"
    BY <1>17 DEF Capture, Names
  <2>2. CASE captured' = captured
    BY <2>2 DEF CapturedKept
  <2>3. CASE captured' # captured
    <3>1. captured' = captured \cup ({data[r]} \ {Absent})
      BY <1>17, <2>3 DEF Capture
    <3>2. CASE data[r] = head[r]
      BY <2>1, <3>1, <3>2 DEF CapturedKept, HeadKept
    <3>3. CASE data[r] # head[r]
      <4>1. data[r] \in missed'
        BY <1>17, <2>3, <3>3 DEF Capture
      <4> QED BY <3>1, <4>1 DEF CapturedKept, Kept
    <3> QED BY <3>2, <3>3
  <2> QED BY <2>2, <2>3
<1>18. ASSUME CaptureDone PROVE CapturedKept'
  BY <1>18 DEF CapturedKept, CaptureDone, Done, Enter, Quiet, files, states, copies, locals, reader, history
<1>19. ASSUME Publish PROVE CapturedKept'
  BY <1>19 DEF CapturedKept, Publish, Read, Accepted, Enter, locals, files, states, copies, locals, reader, history
<1>20. ASSUME Settle PROVE CapturedKept'
  BY <1>20 DEF CapturedKept, Settle, Finish, NoOp, files, states, copies, locals, reader, history
<1>21. ASSUME Fetch PROVE CapturedKept'
  BY <1>21 DEF CapturedKept, Fetch, Read, Accepted, Enter, files, states, copies, locals, reader, history
<1>22. ASSUME SameHead PROVE CapturedKept'
  BY <1>22 DEF CapturedKept, SameHead, Read, Accepted, Enter, Quiet, files, states, copies, locals, reader, history
<1>23. ASSUME Acknowledged PROVE CapturedKept'
  BY <1>23 DEF CapturedKept, Acknowledged, Read, Accepted, Finish, NoOp, files, states, copies, locals, reader, history
<1>24. ASSUME Guard PROVE CapturedKept'
  BY <1>24 DEF CapturedKept, Guard, Enter, files, states, copies, locals, reader, history
<1>25. ASSUME Unchanged PROVE CapturedKept'
  BY <1>25 DEF CapturedKept, Unchanged, Enter, Quiet, files, states, copies, locals, reader, history
<1>26. ASSUME NEW r \in Roots, Apply(r) PROVE CapturedKept'
  BY <1>26 DEF CapturedKept, Apply, files, states, copies, locals, reader, history
<1>27. ASSUME ApplyDone PROVE CapturedKept'
  BY <1>27 DEF CapturedKept, ApplyDone, Done, Enter, Quiet, files, states, copies, locals, reader, history
<1>28. ASSUME Pulled PROVE CapturedKept'
  BY <1>28 DEF CapturedKept, Pulled, Read, Accepted, Enter, locals, files, states, copies, locals, reader, history
<1>29. ASSUME BackedUp PROVE CapturedKept'
  BY <1>29 DEF CapturedKept, BackedUp, Read, Accepted, Selected, Present, Enter, files, states, copies, locals, reader, history
<1>30. ASSUME NEW r \in Roots, Remove(r) PROVE CapturedKept'
  BY <1>30 DEF CapturedKept, Remove, Busy, files, states, copies, locals, reader, history
<1>31. ASSUME NEW r \in Roots, Place(r) PROVE CapturedKept'
  BY <1>31 DEF CapturedKept, Place, Target, files, states, copies, locals, reader, history
<1>32. ASSUME PlaceDone PROVE CapturedKept'
  BY <1>32 DEF CapturedKept, PlaceDone, Done, Enter, Quiet, files, states, copies, locals, reader, history
<1>33. ASSUME ReplaceFails PROVE CapturedKept'
  BY <1>33 DEF CapturedKept, ReplaceFails, Accepted, Enter, files, states, copies, locals, reader, history
<1>34. ASSUME Undone PROVE CapturedKept'
  BY <1>34 DEF CapturedKept, Undone, Read, Accepted, Finish, NoOp, files, states, copies, locals, reader, history
<1>35. ASSUME Installed PROVE CapturedKept'
  BY <1>35 DEF CapturedKept, Installed, Read, Accepted, Enter, files, states, copies, locals, reader, history
<1>36. ASSUME Restored PROVE CapturedKept'
  BY <1>36 DEF CapturedKept, Restored, Read, Accepted, Enter, Finish, NoOp, locals, files, states, copies, locals, reader, history
<1>37. CASE UNCHANGED vars
  BY <1>37 DEF CapturedKept, vars, files, states, copies, locals, reader, history
<1> QED
  BY <1>1, <1>2, <1>3, <1>4, <1>5, <1>6, <1>7, <1>8, <1>9, <1>10, <1>11, <1>12, <1>13, <1>14, <1>15, <1>16, <1>17, <1>18, <1>19, <1>20, <1>21, <1>22, <1>23, <1>24, <1>25, <1>26, <1>27, <1>28, <1>29, <1>30, <1>31, <1>32, <1>33, <1>34, <1>35, <1>36, <1>37
  DEF Next, Environment, Commands, Reading, Heading, Pushing, Pulling, Restoring

\* Every step keeps the copy of the replaced workspace.
LEMMA OldStep == OldKept /\ [Next]_vars => OldKept'
<1> SUFFICES ASSUME OldKept, [Next]_vars PROVE OldKept' OBVIOUS
<1>1. ASSUME NEW r \in Roots, Deliver(r) PROVE OldKept'
  BY <1>1 DEF OldKept, Deliver, files, states, copies, locals, reader, history
<1>2. ASSUME NEW r \in Roots, Edit(r) PROVE OldKept'
  BY <1>2 DEF OldKept, Edit, files, states, copies, locals, reader, history
<1>3. ASSUME NEW r \in Roots, ReadRoot(r) PROVE OldKept'
  BY <1>3 DEF OldKept, ReadRoot, files, states, copies, locals, reader, history
<1>4. ASSUME Again PROVE OldKept'
  BY <1>4 DEF OldKept, Again, files, states, copies, locals, reader, history
<1>5. ASSUME Abort PROVE OldKept'
  BY <1>5 DEF OldKept, Abort, Finish, NoOp, files, states, copies, locals, reader, history
<1>6. ASSUME Push PROVE OldKept'
  BY <1>6 DEF OldKept, Push, Begin, Enter, NoOp, files, states, copies, locals, reader, history
<1>7. ASSUME Pull PROVE OldKept'
  BY <1>7 DEF OldKept, Pull, Begin, Enter, NoOp, files, states, copies, locals, reader, history
<1>8. ASSUME Acknowledge PROVE OldKept'
  BY <1>8 DEF OldKept, Acknowledge, Begin, Enter, NoOp, files, states, copies, locals, reader, history
<1>9. ASSUME Snapshot PROVE OldKept'
  BY <1>9 DEF OldKept, Snapshot, Begin, Enter, NoOp, files, states, copies, locals, reader, history
<1>10. ASSUME Restore PROVE OldKept'
  BY <1>10 DEF OldKept, Restore, Begin, Enter, files, states, copies, locals, reader, history
<1>11. ASSUME CheckHead PROVE OldKept'
  BY <1>11 DEF OldKept, CheckHead, Read, Accepted, BaselineIs, AfterCheck, Enter, Quiet, files, states, copies, locals, reader, history
<1>12. ASSUME Override PROVE OldKept'
  BY <1>12 DEF OldKept, Override, Read, Accepted, Enter, Quiet, files, states, copies, locals, reader, history
<1>13. ASSUME ObserveHead PROVE OldKept'
  BY <1>13 DEF OldKept, ObserveHead, Read, Accepted, Enter, Quiet, files, states, copies, locals, reader, history
<1>14. ASSUME Preserve PROVE OldKept'
  BY <1>14 DEF OldKept, Preserve, Read, Accepted, Enter, Quiet, files, states, copies, locals, reader, history
<1>15. ASSUME Preserved PROVE OldKept'
  BY <1>15 DEF OldKept, Preserved, Read, Accepted, AfterCheck, Enter, locals, files, states, copies, locals, reader, history
<1>16. ASSUME Snapshotted PROVE OldKept'
  BY <1>16 DEF OldKept, Snapshotted, Read, Accepted, Enter, Finish, NoOp, locals, files, states, copies, locals, reader, history
<1>17. ASSUME NEW r \in Roots, Capture(r) PROVE OldKept'
  BY <1>17 DEF OldKept, Capture, Captures, files, states, copies, locals, reader, history
<1>18. ASSUME CaptureDone PROVE OldKept'
  BY <1>18 DEF OldKept, CaptureDone, Done, Enter, Quiet, files, states, copies, locals, reader, history
<1>19. ASSUME Publish PROVE OldKept'
  BY <1>19 DEF OldKept, Publish, Read, Accepted, Enter, locals, files, states, copies, locals, reader, history
<1>20. ASSUME Settle PROVE OldKept'
  BY <1>20 DEF OldKept, Settle, Finish, NoOp, files, states, copies, locals, reader, history
<1>21. ASSUME Fetch PROVE OldKept'
  BY <1>21 DEF OldKept, Fetch, Read, Accepted, Enter, files, states, copies, locals, reader, history
<1>22. ASSUME SameHead PROVE OldKept'
  BY <1>22 DEF OldKept, SameHead, Read, Accepted, Enter, Quiet, files, states, copies, locals, reader, history
<1>23. ASSUME Acknowledged PROVE OldKept'
  BY <1>23 DEF OldKept, Acknowledged, Read, Accepted, Finish, NoOp, files, states, copies, locals, reader, history
<1>24. ASSUME Guard PROVE OldKept'
  BY <1>24 DEF OldKept, Guard, Enter, files, states, copies, locals, reader, history
<1>25. ASSUME Unchanged PROVE OldKept'
  BY <1>25 DEF OldKept, Unchanged, Enter, Quiet, files, states, copies, locals, reader, history
<1>26. ASSUME NEW r \in Roots, Apply(r) PROVE OldKept'
  BY <1>26 DEF OldKept, Apply, files, states, copies, locals, reader, history
<1>27. ASSUME ApplyDone PROVE OldKept'
  BY <1>27 DEF OldKept, ApplyDone, Done, Enter, Quiet, files, states, copies, locals, reader, history
<1>28. ASSUME Pulled PROVE OldKept'
  BY <1>28 DEF OldKept, Pulled, Read, Accepted, Enter, locals, files, states, copies, locals, reader, history
<1>29. ASSUME BackedUp PROVE OldKept'
  BY <1>29 DEF OldKept, BackedUp, Read, Accepted, Selected, Present, Enter, files, states, copies, locals, reader, history
<1>30. ASSUME NEW r \in Roots, Remove(r) PROVE OldKept'
  BY <1>30 DEF OldKept, Remove, Busy, files, states, copies, locals, reader, history
<1>31. ASSUME NEW r \in Roots, Place(r) PROVE OldKept'
  BY <1>31 DEF OldKept, Place, Target, files, states, copies, locals, reader, history
<1>32. ASSUME PlaceDone PROVE OldKept'
  BY <1>32 DEF OldKept, PlaceDone, Done, Enter, Quiet, files, states, copies, locals, reader, history
<1>33. ASSUME ReplaceFails PROVE OldKept'
  BY <1>33 DEF OldKept, ReplaceFails, Accepted, Enter, files, states, copies, locals, reader, history
<1>34. ASSUME Undone PROVE OldKept'
  BY <1>34 DEF OldKept, Undone, Read, Accepted, Finish, NoOp, files, states, copies, locals, reader, history
<1>35. ASSUME Installed PROVE OldKept'
  BY <1>35 DEF OldKept, Installed, Read, Accepted, Enter, files, states, copies, locals, reader, history
<1>36. ASSUME Restored PROVE OldKept'
  BY <1>36 DEF OldKept, Restored, Read, Accepted, Enter, Finish, NoOp, locals, files, states, copies, locals, reader, history
<1>37. CASE UNCHANGED vars
  BY <1>37 DEF OldKept, vars, files, states, copies, locals, reader, history
<1> QED
  BY <1>1, <1>2, <1>3, <1>4, <1>5, <1>6, <1>7, <1>8, <1>9, <1>10, <1>11, <1>12, <1>13, <1>14, <1>15, <1>16, <1>17, <1>18, <1>19, <1>20, <1>21, <1>22, <1>23, <1>24, <1>25, <1>26, <1>27, <1>28, <1>29, <1>30, <1>31, <1>32, <1>33, <1>34, <1>35, <1>36, <1>37
  DEF Next, Environment, Commands, Reading, Heading, Pushing, Pulling, Restoring

\* Every step keeps copies of what was removed.
LEMMA RemovedStep == TypeOK /\ OldKept /\ RestoreKeepsPrevious /\ [Next]_vars => RestoreKeepsPrevious'
<1> SUFFICES ASSUME TypeOK /\ OldKept /\ RestoreKeepsPrevious, [Next]_vars PROVE RestoreKeepsPrevious' OBVIOUS
<1>1. ASSUME NEW r \in Roots, Deliver(r) PROVE RestoreKeepsPrevious'
  BY <1>1 DEF RestoreKeepsPrevious, In, Deliver, files, states, copies, locals, reader, history
<1>2. ASSUME NEW r \in Roots, Edit(r) PROVE RestoreKeepsPrevious'
  BY <1>2 DEF RestoreKeepsPrevious, In, Edit, files, states, copies, locals, reader, history
<1>3. ASSUME NEW r \in Roots, ReadRoot(r) PROVE RestoreKeepsPrevious'
  BY <1>3 DEF RestoreKeepsPrevious, In, ReadRoot, files, states, copies, locals, reader, history
<1>4. ASSUME Again PROVE RestoreKeepsPrevious'
  BY <1>4 DEF RestoreKeepsPrevious, In, Again, files, states, copies, locals, reader, history
<1>5. ASSUME Abort PROVE RestoreKeepsPrevious'
  BY <1>5 DEF RestoreKeepsPrevious, In, Abort, Finish, NoOp, files, states, copies, locals, reader, history
<1>6. ASSUME Push PROVE RestoreKeepsPrevious'
  BY <1>6 DEF RestoreKeepsPrevious, In, Push, Begin, Enter, NoOp, files, states, copies, locals, reader, history
<1>7. ASSUME Pull PROVE RestoreKeepsPrevious'
  BY <1>7 DEF RestoreKeepsPrevious, In, Pull, Begin, Enter, NoOp, files, states, copies, locals, reader, history
<1>8. ASSUME Acknowledge PROVE RestoreKeepsPrevious'
  BY <1>8 DEF RestoreKeepsPrevious, In, Acknowledge, Begin, Enter, NoOp, files, states, copies, locals, reader, history
<1>9. ASSUME Snapshot PROVE RestoreKeepsPrevious'
  BY <1>9 DEF RestoreKeepsPrevious, In, Snapshot, Begin, Enter, NoOp, files, states, copies, locals, reader, history
<1>10. ASSUME Restore PROVE RestoreKeepsPrevious'
  BY <1>10 DEF RestoreKeepsPrevious, In, Restore, Begin, Enter, files, states, copies, locals, reader, history
<1>11. ASSUME CheckHead PROVE RestoreKeepsPrevious'
  BY <1>11 DEF RestoreKeepsPrevious, In, CheckHead, Read, Accepted, BaselineIs, AfterCheck, Enter, Quiet, files, states, copies, locals, reader, history
<1>12. ASSUME Override PROVE RestoreKeepsPrevious'
  BY <1>12 DEF RestoreKeepsPrevious, In, Override, Read, Accepted, Enter, Quiet, files, states, copies, locals, reader, history
<1>13. ASSUME ObserveHead PROVE RestoreKeepsPrevious'
  BY <1>13 DEF RestoreKeepsPrevious, In, ObserveHead, Read, Accepted, Enter, Quiet, files, states, copies, locals, reader, history
<1>14. ASSUME Preserve PROVE RestoreKeepsPrevious'
  BY <1>14 DEF RestoreKeepsPrevious, In, Preserve, Read, Accepted, Enter, Quiet, files, states, copies, locals, reader, history
<1>15. ASSUME Preserved PROVE RestoreKeepsPrevious'
  BY <1>15 DEF RestoreKeepsPrevious, In, Preserved, Read, Accepted, AfterCheck, Enter, locals, files, states, copies, locals, reader, history
<1>16. ASSUME Snapshotted PROVE RestoreKeepsPrevious'
  BY <1>16 DEF RestoreKeepsPrevious, In, Snapshotted, Read, Accepted, Enter, Finish, NoOp, locals, files, states, copies, locals, reader, history
<1>17. ASSUME NEW r \in Roots, Capture(r) PROVE RestoreKeepsPrevious'
  BY <1>17 DEF RestoreKeepsPrevious, In, Capture, Captures, files, states, copies, locals, reader, history
<1>18. ASSUME CaptureDone PROVE RestoreKeepsPrevious'
  BY <1>18 DEF RestoreKeepsPrevious, In, CaptureDone, Done, Enter, Quiet, files, states, copies, locals, reader, history
<1>19. ASSUME Publish PROVE RestoreKeepsPrevious'
  BY <1>19 DEF RestoreKeepsPrevious, In, Publish, Read, Accepted, Enter, locals, files, states, copies, locals, reader, history
<1>20. ASSUME Settle PROVE RestoreKeepsPrevious'
  BY <1>20 DEF RestoreKeepsPrevious, In, Settle, Finish, NoOp, files, states, copies, locals, reader, history
<1>21. ASSUME Fetch PROVE RestoreKeepsPrevious'
  BY <1>21 DEF RestoreKeepsPrevious, In, Fetch, Read, Accepted, Enter, files, states, copies, locals, reader, history
<1>22. ASSUME SameHead PROVE RestoreKeepsPrevious'
  BY <1>22 DEF RestoreKeepsPrevious, In, SameHead, Read, Accepted, Enter, Quiet, files, states, copies, locals, reader, history
<1>23. ASSUME Acknowledged PROVE RestoreKeepsPrevious'
  BY <1>23 DEF RestoreKeepsPrevious, In, Acknowledged, Read, Accepted, Finish, NoOp, files, states, copies, locals, reader, history
<1>24. ASSUME Guard PROVE RestoreKeepsPrevious'
  BY <1>24 DEF RestoreKeepsPrevious, In, Guard, Enter, files, states, copies, locals, reader, history
<1>25. ASSUME Unchanged PROVE RestoreKeepsPrevious'
  BY <1>25 DEF RestoreKeepsPrevious, In, Unchanged, Enter, Quiet, files, states, copies, locals, reader, history
<1>26. ASSUME NEW r \in Roots, Apply(r) PROVE RestoreKeepsPrevious'
  BY <1>26 DEF RestoreKeepsPrevious, In, Apply, files, states, copies, locals, reader, history
<1>27. ASSUME ApplyDone PROVE RestoreKeepsPrevious'
  BY <1>27 DEF RestoreKeepsPrevious, In, ApplyDone, Done, Enter, Quiet, files, states, copies, locals, reader, history
<1>28. ASSUME Pulled PROVE RestoreKeepsPrevious'
  BY <1>28 DEF RestoreKeepsPrevious, In, Pulled, Read, Accepted, Enter, locals, files, states, copies, locals, reader, history
<1>29. ASSUME BackedUp PROVE RestoreKeepsPrevious'
  BY <1>29 DEF RestoreKeepsPrevious, In, BackedUp, Read, Accepted, Selected, Present, Enter, files, states, copies, locals, reader, history
<1>30. ASSUME NEW r \in Roots, Remove(r) PROVE RestoreKeepsPrevious'
  <2>1. /\ removed' = removed \cup ({data[r]} \ {Absent, stage[r]})
        /\ missed' = missed \cup ({data[r]} \ {old[r], stage[r]})
        /\ backups' = backups
    BY <1>30 DEF Remove, copies
  <2>2. old[r] \in In(backups)
    BY <1>30 DEF Remove, OldKept, In
  <2>3. {data[r]} \ {Absent, stage[r]} \subseteq In(backups) \cup missed'
    BY <2>1, <2>2
  <2> HIDE DEF In
  <2> QED BY <2>1, <2>3 DEF RestoreKeepsPrevious
<1>31. ASSUME NEW r \in Roots, Place(r) PROVE RestoreKeepsPrevious'
  BY <1>31 DEF RestoreKeepsPrevious, In, Place, Target, files, states, copies, locals, reader, history
<1>32. ASSUME PlaceDone PROVE RestoreKeepsPrevious'
  BY <1>32 DEF RestoreKeepsPrevious, In, PlaceDone, Done, Enter, Quiet, files, states, copies, locals, reader, history
<1>33. ASSUME ReplaceFails PROVE RestoreKeepsPrevious'
  BY <1>33 DEF RestoreKeepsPrevious, In, ReplaceFails, Accepted, Enter, files, states, copies, locals, reader, history
<1>34. ASSUME Undone PROVE RestoreKeepsPrevious'
  BY <1>34 DEF RestoreKeepsPrevious, In, Undone, Read, Accepted, Finish, NoOp, files, states, copies, locals, reader, history
<1>35. ASSUME Installed PROVE RestoreKeepsPrevious'
  BY <1>35 DEF RestoreKeepsPrevious, In, Installed, Read, Accepted, Enter, files, states, copies, locals, reader, history
<1>36. ASSUME Restored PROVE RestoreKeepsPrevious'
  BY <1>36 DEF RestoreKeepsPrevious, In, Restored, Read, Accepted, Enter, Finish, NoOp, locals, files, states, copies, locals, reader, history
<1>37. CASE UNCHANGED vars
  BY <1>37 DEF RestoreKeepsPrevious, In, vars, files, states, copies, locals, reader, history
<1> QED
  BY <1>1, <1>2, <1>3, <1>4, <1>5, <1>6, <1>7, <1>8, <1>9, <1>10, <1>11, <1>12, <1>13, <1>14, <1>15, <1>16, <1>17, <1>18, <1>19, <1>20, <1>21, <1>22, <1>23, <1>24, <1>25, <1>26, <1>27, <1>28, <1>29, <1>30, <1>31, <1>32, <1>33, <1>34, <1>35, <1>36, <1>37
  DEF Next, Environment, Commands, Reading, Heading, Pushing, Pulling, Restoring

PushInv ==
  /\ TypeOK /\ Names /\ TodoFirst /\ AppliesHead
  /\ BaseKept /\ HeadKept /\ CapturedKept

\* No push runs at the start.
LEMMA PushInit == Init => PushInv
<1> SUFFICES ASSUME Init PROVE PushInv OBVIOUS
<1>1. TypeOK BY TypeInit
<1>2. Names /\ TodoFirst /\ HeadKept /\ CapturedKept
  BY DEF Init, Names, TodoFirst, HeadKept, CapturedKept
<1>3. AppliesHead BY DEF Init, AppliesHead, NoOp
<1>4. BaseKept BY DEF Init, BaseKept, Blank
<1> QED BY <1>1, <1>2, <1>3, <1>4 DEF PushInv

\* What a push may still replace survives every step.
LEMMA PushStep == PushInv /\ [Next]_vars => PushInv'
BY TypeStep, KeptGrows, NamesStep, TodoStep, AppliesStep, BaseStep, HeadStep, CapturedStep DEF PushInv

\* Hence a push replaces nothing it did not compare.
LEMMA PushInvImplies == PushInv => PushKeepsOthers
BY DEF PushInv, CapturedKept, Kept, PushKeepsOthers

\* A push overwrites only what was live on this machine, what a recovery copy
\* holds, what arrived behind its check, or what people recorded as baseline
\* without applying it, after any sequence of commands, failures and stops.
THEOREM NothingOverwritten == Spec => []PushKeepsOthers
BY PushInit, PushStep, PushInvImplies, PTL DEF Spec

ReplaceInv == TypeOK /\ OldKept /\ RestoreKeepsPrevious

\* Nothing has been replaced at the start.
LEMMA ReplaceInit == Init => ReplaceInv
<1> SUFFICES ASSUME Init PROVE ReplaceInv OBVIOUS
<1>1. TypeOK BY TypeInit
<1>2. OldKept /\ RestoreKeepsPrevious BY DEF Init, OldKept, RestoreKeepsPrevious
<1> QED BY <1>1, <1>2 DEF ReplaceInv

\* What replacements have kept stays kept.
LEMMA ReplaceStep == ReplaceInv /\ [Next]_vars => ReplaceInv'
BY TypeStep, OldStep, RemovedStep DEF ReplaceInv

\* A replacement removes only what its backup holds or what arrived after the
\* backup, wherever it fails or stops.
THEOREM PreviousKept == Spec => []RestoreKeepsPrevious
<1>1. ReplaceInv => RestoreKeepsPrevious BY DEF ReplaceInv
<1> QED BY ReplaceInit, ReplaceStep, <1>1, PTL DEF Spec
=============================================================================
