---------------------------- MODULE UpgradeProofs ----------------------------
(***************************************************************************)
(* Theorems about Upgrade, for any releases and any number of upgrades,    *)
(* edits and stops.                                                        *)
(*                                                                         *)
(* Course ties the phase of the command to the status of its record.  Kept *)
(* says of an edit the command is about to overwrite that it is already in *)
(* the previous directory.  Placed says which releases the installed files *)
(* can be from, so that a tree that verifies is the one the status names.  *)
(* Way follows a tree through a promotion and the ways back from it: it is *)
(* of one release, or a mix of the two that the newest open upgrade knows. *)
(***************************************************************************)
EXTENDS Upgrade, TLAPS

Phases == {"idle", "validate", "validated", "copy", "promote", "merged", "check", "restore", "verified"}

\* What releases contain: numbers, and a manifest that tells them apart.
LEMMA Releases ==
  /\ \A v \in Versions, f \in Paths : Release[v][f] \in Nat /\ ~Edited(Release[v][f])
  /\ \A v \in Versions : Release[v] \in Tree /\ Release[v][Manifest] # Absent
  /\ \A v, w \in Versions : Release[v][Manifest] = Release[w][Manifest] => v = w
  /\ Manifest \in Paths
<1>1. Manifest \in Paths
  BY DEF Paths
<1>2. \A v \in Versions, f \in Paths : Release[v][f] \in Nat
  BY ReleaseAssumption
<1>3. \A v \in Versions, f \in Paths : ~Edited(Release[v][f])
  BY <1>2 DEF Edited
<1>4. \A v \in Versions : Release[v] \in Tree
  BY ReleaseAssumption DEF Tree
<1> QED BY <1>1, <1>2, <1>3, <1>4, ReleaseAssumption

\* What changing the status of the record at hand leaves alone.
LEMMA StatusSet ==
  ASSUME TypeOK, cur \in DOMAIN records, NEW s \in Statuses, Status(s)
  PROVE  /\ records' \in Seq(RecordType) /\ Len(records') = Len(records)
         /\ DOMAIN records' = DOMAIN records
         /\ \A i \in DOMAIN records :
              /\ records'[i].previous = records[i].previous
              /\ records'[i].from = records[i].from /\ records'[i].to = records[i].to
         /\ \A i \in DOMAIN records : i # cur => records'[i] = records[i]
         /\ records'[cur].status = s
<1> DEFINE r == [records[cur] EXCEPT !.status = s]
<1>1. records \in Seq(RecordType) /\ records[cur] \in RecordType
  BY DEF TypeOK
<1>2. /\ r \in RecordType /\ r.status = s /\ r.previous = records[cur].previous
      /\ r.from = records[cur].from /\ r.to = records[cur].to
  BY <1>1 DEF RecordType
<1>3. records' = [records EXCEPT ![cur] = r]
  BY DEF Status
<1> HIDE DEF r
<1>4. records' \in Seq(RecordType) /\ Len(records') = Len(records) /\ DOMAIN records' = DOMAIN records
  BY <1>1, <1>2, <1>3
<1>5. \A i \in DOMAIN records : records'[i] = IF i = cur THEN r ELSE records[i]
  BY <1>3
<1> QED BY <1>2, <1>4, <1>5

\* What copying a file into the previous directory leaves alone.
LEMMA PreviousSet ==
  ASSUME TypeOK, NEW f \in Paths, CopyPrevious(f)
  PROVE  /\ cur \in DOMAIN records
         /\ records' \in Seq(RecordType) /\ Len(records') = Len(records)
         /\ DOMAIN records' = DOMAIN records
         /\ \A i \in DOMAIN records :
              /\ records'[i].status = records[i].status
              /\ records'[i].from = records[i].from /\ records'[i].to = records[i].to
         /\ \A i \in DOMAIN records : i # cur => records'[i] = records[i]
         /\ records'[cur].previous[f] = installed[f]
         /\ \A g \in Paths : g # f => records'[cur].previous[g] = records[cur].previous[g]
<1> DEFINE p == [records[cur].previous EXCEPT ![f] = installed[f]]
<1> DEFINE r == [records[cur] EXCEPT !.previous = p]
<1>1. records \in Seq(RecordType) /\ cur \in DOMAIN records /\ installed[f] \in Int
  BY DEF TypeOK, CopyPrevious, Tree
<1>0. records[cur] \in RecordType
  BY <1>1
<1>2. records[cur] \in RecordType /\ records[cur].previous \in Tree
  BY <1>0 DEF RecordType
<1>3. /\ p \in Tree /\ p[f] = installed[f]
      /\ \A g \in Paths : g # f => p[g] = records[cur].previous[g]
  BY <1>1, <1>2 DEF Tree
<1>4. records' = [records EXCEPT ![cur] = r]
  BY DEF CopyPrevious
<1> HIDE DEF p
<1>5. /\ r \in RecordType /\ r.status = records[cur].status /\ r.previous = p
      /\ r.from = records[cur].from /\ r.to = records[cur].to
  BY <1>2, <1>3 DEF RecordType
<1> HIDE DEF r
<1>6. records' \in Seq(RecordType) /\ Len(records') = Len(records) /\ DOMAIN records' = DOMAIN records
  BY <1>1, <1>4, <1>5
<1>7. \A i \in DOMAIN records : records'[i] = IF i = cur THEN r ELSE records[i]
  BY <1>4
<1> QED BY <1>1, <1>3, <1>5, <1>6, <1>7

\* A tree that verifies is the release its manifest says.
LEMMA VersionOfIs ==
  ASSUME NEW t, NEW s, Verifies(t, s)
  PROVE  VersionOf(t) \in Versions /\ t = Release[VersionOf(t)] /\ ~s
BY DEF Verifies, VersionOf

\* What the start of an upgrade adds.
LEMMA Begun ==
  ASSUME TypeOK, NEW v \in Versions, Begin(v)
  PROVE  /\ records' \in Seq(RecordType) /\ Len(records') = Len(records) + 1
         /\ cur' = Len(records) + 1 /\ cur' \in DOMAIN records'
         /\ DOMAIN records' = DOMAIN records \cup {cur'}
         /\ \A i \in DOMAIN records : i # cur' /\ records'[i] = records[i]
         /\ records'[cur'].status = "staged" /\ records'[cur'].previous = Nothing
         /\ records'[cur'].from \in Versions /\ installed = Release[records'[cur'].from]
<1> DEFINE r == [status |-> "staged", from |-> VersionOf(installed), to |-> v,
                 previous |-> Nothing]
<1>1. VersionOf(installed) \in Versions /\ installed = Release[VersionOf(installed)]
  BY VersionOfIs DEF Begin, Sound
<1>2. Nothing \in Tree
  BY DEF Nothing, Tree, Absent
<1>3. r \in RecordType /\ r.status = "staged" /\ r.previous = Nothing /\ r.from = VersionOf(installed)
  BY <1>1, <1>2 DEF RecordType, Statuses
<1>4. records' = Append(records, r) /\ cur' = Len(records) + 1 /\ records \in Seq(RecordType)
  BY DEF Begin, TypeOK
<1> HIDE DEF r
<1>5. /\ records' \in Seq(RecordType) /\ Len(records') = Len(records) + 1 /\ Len(records) \in Nat
      /\ \A i \in 1..Len(records) : records'[i] = records[i]
      /\ records'[cur'] = r
  BY <1>3, <1>4
<1>6. DOMAIN records = 1..Len(records) /\ DOMAIN records' = 1..Len(records')
  BY <1>4, <1>5
<1> QED BY <1>1, <1>3, <1>4, <1>5, <1>6

\* git changes only files nobody edited, to those of the commit.
LEMMA Switched ==
  ASSUME TypeOK, NEW v \in Versions, Switch(v)
  PROVE  /\ installed' \in Tree /\ head' = v /\ UNCHANGED <<kind, stray>>
         /\ \A f \in Paths : IF installed[f] = Release[head][f] THEN installed'[f] = Release[v][f]
                             ELSE installed'[f] = installed[f]
<1>1. /\ head' = v /\ UNCHANGED <<kind, stray>>
      /\ installed' = [f \in Paths |-> IF installed[f] = Release[head][f] THEN Release[v][f] ELSE installed[f]]
  BY DEF Switch
<1>2. \A f \in Paths : Release[v][f] \in Int /\ installed[f] \in Int
  BY Releases DEF TypeOK, Tree
<1> QED BY <1>1, <1>2 DEF Tree

\* The record at hand.
LEMMA AtHand ==
  ASSUME TypeOK, pc # "idle"
  PROVE  /\ cur \in DOMAIN records /\ records[cur] \in RecordType
         /\ records[cur].from \in Versions /\ records[cur].to \in Versions
         /\ records[cur].previous \in Tree
<1>1. records \in Seq(RecordType) /\ cur \in 0..Len(records) /\ cur # 0
  BY DEF TypeOK
<1>2. cur \in DOMAIN records
  BY <1>1
<1>3. records[cur] \in RecordType
  BY <1>1, <1>2
<1> QED BY <1>2, <1>3 DEF RecordType

\* A status set in a phase of the command.
LEMMA StatusTypes ==
  ASSUME TypeOK, pc # "idle", NEW s \in Statuses, Status(s)
  PROVE  records' \in Seq(RecordType) /\ Len(records') = Len(records) /\ Len(records) \in Nat
<1>1. cur \in DOMAIN records
  BY AtHand
<1>2. Len(records) \in Nat
  BY DEF TypeOK
<1> QED BY <1>1, <1>2, StatusSet

\* Every step keeps the types.
LEMMA TypeStep == TypeOK /\ [Next]_vars => TypeOK'
<1> SUFFICES ASSUME TypeOK, [Next]_vars PROVE TypeOK' OBVIOUS
<1>1. ASSUME NEW v \in Versions, Begin(v) PROVE TypeOK'
  <2>1. kind' \in Kinds /\ installed' \in Tree /\ stray' \in BOOLEAN /\ head' \in Versions
    BY <1>1 DEF Begin, TypeOK, tree
  <2>2. records' \in Seq(RecordType) /\ cur' \in 0..Len(records') /\ (pc' # "idle" => cur' # 0)
    BY <1>1, Begun DEF Begin, TypeOK, Leave, Goto
  <2>3. pc' \in Phases /\ todo' \subseteq Paths /\ back' \in {"none", "fallback", "rollback"}
    BY <1>1 DEF Begin, TypeOK, Leave, Goto, Phases, command, Listed
  <2>4. /\ made' \in Nat /\ stops' \in Nat /\ edits' \in Tree
       /\ raced' \subseteq Int /\ cut' \in BOOLEAN /\ older' \in BOOLEAN
    BY <1>1 DEF Begin, TypeOK, history, Tree, Nothing, Absent
  <2>5. sure' \in 0..made'
    BY <1>1 DEF Begin, TypeOK, history, command, Leave, Goto
  <2> QED BY <2>1, <2>2, <2>3, <2>4, <2>5 DEF TypeOK, Phases
<1>2. ASSUME Validate PROVE TypeOK'
  <2>1. kind' \in Kinds /\ installed' \in Tree /\ stray' \in BOOLEAN /\ head' \in Versions
    BY <1>2 DEF Validate, TypeOK, tree
  <2>2. records' \in Seq(RecordType) /\ cur' \in 0..Len(records') /\ (pc' # "idle" => cur' # 0)
    BY <1>2 DEF Validate, TypeOK, Leave, Goto, command
  <2>3. pc' \in Phases /\ todo' \subseteq Paths /\ back' \in {"none", "fallback", "rollback"}
    BY <1>2 DEF Validate, TypeOK, Leave, Goto, Phases, command, Listed
  <2>4. /\ made' \in Nat /\ stops' \in Nat /\ edits' \in Tree
       /\ raced' \subseteq Int /\ cut' \in BOOLEAN /\ older' \in BOOLEAN
    BY <1>2 DEF Validate, TypeOK, history, Tree, Nothing, Absent
  <2>5. sure' \in 0..made'
    BY <1>2 DEF Validate, TypeOK, history, command, Leave, Goto
  <2> QED BY <2>1, <2>2, <2>3, <2>4, <2>5 DEF TypeOK, Phases
<1>3. ASSUME Preview PROVE TypeOK'
  <2>1. kind' \in Kinds /\ installed' \in Tree /\ stray' \in BOOLEAN /\ head' \in Versions
    BY <1>3 DEF Preview, TypeOK, tree
  <2>2. records' \in Seq(RecordType) /\ cur' \in 0..Len(records') /\ (pc' # "idle" => cur' # 0)
    <3>1. pc # "idle" /\ Status("validated-not-applied")
      BY <1>3 DEF Preview, Git
    <3>2. "validated-not-applied" \in Statuses
      BY DEF Statuses
    <3>3. records' \in Seq(RecordType) /\ Len(records') = Len(records) /\ Len(records) \in Nat
      BY <3>1, <3>2, StatusTypes
    <3> QED BY <1>3, <3>1, <3>3 DEF Preview, TypeOK, Leave, Goto
  <2>3. pc' \in Phases /\ todo' \subseteq Paths /\ back' \in {"none", "fallback", "rollback"}
    BY <1>3 DEF Preview, TypeOK, Leave, Goto, Phases, command, Listed
  <2>4. /\ made' \in Nat /\ stops' \in Nat /\ edits' \in Tree
       /\ raced' \subseteq Int /\ cut' \in BOOLEAN /\ older' \in BOOLEAN
    BY <1>3 DEF Preview, TypeOK, history, Tree, Nothing, Absent
  <2>5. sure' \in 0..made'
    BY <1>3 DEF Preview, TypeOK, history, command, Leave, Goto
  <2> QED BY <2>1, <2>2, <2>3, <2>4, <2>5 DEF TypeOK, Phases
<1>4. ASSUME VerifyAgain PROVE TypeOK'
  <2>1. kind' \in Kinds /\ installed' \in Tree /\ stray' \in BOOLEAN /\ head' \in Versions
    BY <1>4 DEF VerifyAgain, TypeOK, tree
  <2>2. records' \in Seq(RecordType) /\ cur' \in 0..Len(records') /\ (pc' # "idle" => cur' # 0)
    BY <1>4 DEF VerifyAgain, TypeOK, Leave, Goto, command
  <2>3. pc' \in Phases /\ todo' \subseteq Paths /\ back' \in {"none", "fallback", "rollback"}
    BY <1>4 DEF VerifyAgain, TypeOK, Leave, Goto, Phases, command, Listed
  <2>4. /\ made' \in Nat /\ stops' \in Nat /\ edits' \in Tree
       /\ raced' \subseteq Int /\ cut' \in BOOLEAN /\ older' \in BOOLEAN
    BY <1>4 DEF VerifyAgain, TypeOK, history, Tree, Nothing, Absent
  <2>5. sure' \in 0..made'
    BY <1>4 DEF VerifyAgain, TypeOK, history, command, Leave, Goto
  <2> QED BY <2>1, <2>2, <2>3, <2>4, <2>5 DEF TypeOK, Phases
<1>5. ASSUME Reject PROVE TypeOK'
  <2>1. kind' \in Kinds /\ installed' \in Tree /\ stray' \in BOOLEAN /\ head' \in Versions
    BY <1>5 DEF Reject, TypeOK, tree
  <2>2. records' \in Seq(RecordType) /\ cur' \in 0..Len(records') /\ (pc' # "idle" => cur' # 0)
    <3>1. pc # "idle" /\ Status("rejected")
      BY <1>5 DEF Reject, Git
    <3>2. "rejected" \in Statuses
      BY DEF Statuses
    <3>3. records' \in Seq(RecordType) /\ Len(records') = Len(records) /\ Len(records) \in Nat
      BY <3>1, <3>2, StatusTypes
    <3> QED BY <1>5, <3>1, <3>3 DEF Reject, TypeOK, Leave, Goto
  <2>3. pc' \in Phases /\ todo' \subseteq Paths /\ back' \in {"none", "fallback", "rollback"}
    BY <1>5 DEF Reject, TypeOK, Leave, Goto, Phases, command, Listed
  <2>4. /\ made' \in Nat /\ stops' \in Nat /\ edits' \in Tree
       /\ raced' \subseteq Int /\ cut' \in BOOLEAN /\ older' \in BOOLEAN
    BY <1>5 DEF Reject, TypeOK, history, Tree, Nothing, Absent
  <2>5. sure' \in 0..made'
    BY <1>5 DEF Reject, TypeOK, history, command, Leave, Goto
  <2> QED BY <2>1, <2>2, <2>3, <2>4, <2>5 DEF TypeOK, Phases
<1>6. ASSUME NEW f \in Paths, CopyPrevious(f) PROVE TypeOK'
  <2>1. kind' \in Kinds /\ installed' \in Tree /\ stray' \in BOOLEAN /\ head' \in Versions
    BY <1>6 DEF CopyPrevious, TypeOK, tree
  <2>2. records' \in Seq(RecordType) /\ cur' \in 0..Len(records') /\ (pc' # "idle" => cur' # 0)
    <3>1. records' \in Seq(RecordType) /\ Len(records') = Len(records)
      BY <1>6, PreviousSet
    <3> QED BY <1>6, <3>1 DEF CopyPrevious, TypeOK, Leave, Goto
  <2>3. pc' \in Phases /\ todo' \subseteq Paths /\ back' \in {"none", "fallback", "rollback"}
    BY <1>6 DEF CopyPrevious, TypeOK, Leave, Goto, Phases, command, Listed
  <2>4. /\ made' \in Nat /\ stops' \in Nat /\ edits' \in Tree
       /\ raced' \subseteq Int /\ cut' \in BOOLEAN /\ older' \in BOOLEAN
    BY <1>6 DEF CopyPrevious, TypeOK, history, Tree, Nothing, Absent
  <2>5. sure' \in 0..made'
    BY <1>6 DEF CopyPrevious, TypeOK, history, command, Leave, Goto
  <2> QED BY <2>1, <2>2, <2>3, <2>4, <2>5 DEF TypeOK, Phases
<1>7. ASSUME StartPromotion PROVE TypeOK'
  <2>1. kind' \in Kinds /\ installed' \in Tree /\ stray' \in BOOLEAN /\ head' \in Versions
    BY <1>7 DEF StartPromotion, TypeOK, tree
  <2>2. records' \in Seq(RecordType) /\ cur' \in 0..Len(records') /\ (pc' # "idle" => cur' # 0)
    <3>1. pc # "idle" /\ Status("promoting")
      BY <1>7 DEF StartPromotion, Git
    <3>2. "promoting" \in Statuses
      BY DEF Statuses
    <3>3. records' \in Seq(RecordType) /\ Len(records') = Len(records) /\ Len(records) \in Nat
      BY <3>1, <3>2, StatusTypes
    <3> QED BY <1>7, <3>1, <3>3 DEF StartPromotion, TypeOK, Leave, Goto
  <2>3. pc' \in Phases /\ todo' \subseteq Paths /\ back' \in {"none", "fallback", "rollback"}
    BY <1>7 DEF StartPromotion, TypeOK, Leave, Goto, Phases, command, Listed
  <2>4. /\ made' \in Nat /\ stops' \in Nat /\ edits' \in Tree
       /\ raced' \subseteq Int /\ cut' \in BOOLEAN /\ older' \in BOOLEAN
    BY <1>7 DEF StartPromotion, TypeOK, history, Tree, Nothing, Absent
  <2>5. sure' \in 0..made'
    BY <1>7 DEF StartPromotion, TypeOK, history, command, Leave, Goto
  <2> QED BY <2>1, <2>2, <2>3, <2>4, <2>5 DEF TypeOK, Phases
<1>8. ASSUME Merge PROVE TypeOK'
  <2>1. kind' \in Kinds /\ installed' \in Tree /\ stray' \in BOOLEAN /\ head' \in Versions
    <3>1. Record.to \in Versions
      BY <1>8, AtHand DEF Merge, Record
    <3>2. Switch(Record.to) \/ UNCHANGED tree
      BY <1>8 DEF Merge
    <3>3. CASE UNCHANGED tree
      BY <3>3 DEF tree, TypeOK
    <3>4. CASE Switch(Record.to)
      BY <3>1, <3>4, Switched DEF TypeOK
    <3> QED BY <3>2, <3>3, <3>4
  <2>2. records' \in Seq(RecordType) /\ cur' \in 0..Len(records') /\ (pc' # "idle" => cur' # 0)
    BY <1>8 DEF Merge, TypeOK, Leave, Goto, command
  <2>3. pc' \in Phases /\ todo' \subseteq Paths /\ back' \in {"none", "fallback", "rollback"}
    BY <1>8 DEF Merge, TypeOK, Leave, Goto, Phases, command, Listed
  <2>4. /\ made' \in Nat /\ stops' \in Nat /\ edits' \in Tree
       /\ raced' \subseteq Int /\ cut' \in BOOLEAN /\ older' \in BOOLEAN
    BY <1>8 DEF Merge, TypeOK, history, Tree, Nothing, Absent
  <2>5. sure' \in 0..made'
    BY <1>8 DEF Merge, TypeOK, history, command, Leave, Goto
  <2> QED BY <2>1, <2>2, <2>3, <2>4, <2>5 DEF TypeOK, Phases
<1>9. ASSUME Applied PROVE TypeOK'
  <2>1. kind' \in Kinds /\ installed' \in Tree /\ stray' \in BOOLEAN /\ head' \in Versions
    BY <1>9 DEF Applied, TypeOK, tree
  <2>2. records' \in Seq(RecordType) /\ cur' \in 0..Len(records') /\ (pc' # "idle" => cur' # 0)
    <3>1. pc # "idle" /\ Status("applied")
      BY <1>9 DEF Applied, Git
    <3>2. "applied" \in Statuses
      BY DEF Statuses
    <3>3. records' \in Seq(RecordType) /\ Len(records') = Len(records) /\ Len(records) \in Nat
      BY <3>1, <3>2, StatusTypes
    <3> QED BY <1>9, <3>1, <3>3 DEF Applied, TypeOK, Leave, Goto
  <2>3. pc' \in Phases /\ todo' \subseteq Paths /\ back' \in {"none", "fallback", "rollback"}
    BY <1>9 DEF Applied, TypeOK, Leave, Goto, Phases, command, Listed
  <2>4. /\ made' \in Nat /\ stops' \in Nat /\ edits' \in Tree
       /\ raced' \subseteq Int /\ cut' \in BOOLEAN /\ older' \in BOOLEAN
    BY <1>9 DEF Applied, TypeOK, history, Tree, Nothing, Absent
  <2>5. sure' \in 0..made'
    BY <1>9 DEF Applied, TypeOK, history, command, Leave, Goto
  <2> QED BY <2>1, <2>2, <2>3, <2>4, <2>5 DEF TypeOK, Phases
<1>10. ASSUME PromotionFails PROVE TypeOK'
  <2>1. kind' \in Kinds /\ installed' \in Tree /\ stray' \in BOOLEAN /\ head' \in Versions
    BY <1>10 DEF PromotionFails, TypeOK, tree
  <2>2. records' \in Seq(RecordType) /\ cur' \in 0..Len(records') /\ (pc' # "idle" => cur' # 0)
    BY <1>10 DEF PromotionFails, TypeOK, Leave, Goto, command
  <2>3. pc' \in Phases /\ todo' \subseteq Paths /\ back' \in {"none", "fallback", "rollback"}
    BY <1>10 DEF PromotionFails, TypeOK, Leave, Goto, Phases, command, Listed
  <2>4. /\ made' \in Nat /\ stops' \in Nat /\ edits' \in Tree
       /\ raced' \subseteq Int /\ cut' \in BOOLEAN /\ older' \in BOOLEAN
    BY <1>10 DEF PromotionFails, TypeOK, history, Tree, Nothing, Absent
  <2>5. sure' \in 0..made'
    BY <1>10 DEF PromotionFails, TypeOK, history, command, Leave, Goto
  <2> QED BY <2>1, <2>2, <2>3, <2>4, <2>5 DEF TypeOK, Phases
<1>11. ASSUME NEW i \in 1..MaxRuns, StartRollback(i) PROVE TypeOK'
  <2>1. kind' \in Kinds /\ installed' \in Tree /\ stray' \in BOOLEAN /\ head' \in Versions
    BY <1>11 DEF StartRollback, TypeOK, tree
  <2>2. records' \in Seq(RecordType) /\ cur' \in 0..Len(records') /\ (pc' # "idle" => cur' # 0)
    BY <1>11 DEF StartRollback, TypeOK, Leave, Goto
  <2>3. pc' \in Phases /\ todo' \subseteq Paths /\ back' \in {"none", "fallback", "rollback"}
    BY <1>11 DEF StartRollback, TypeOK, Leave, Goto, Phases, command, Listed
  <2>4. /\ made' \in Nat /\ stops' \in Nat /\ edits' \in Tree
       /\ raced' \subseteq Int /\ cut' \in BOOLEAN /\ older' \in BOOLEAN
    BY <1>11 DEF StartRollback, TypeOK, history, Tree, Nothing, Absent
  <2>5. sure' \in 0..made'
    BY <1>11 DEF StartRollback, TypeOK, history, command, Leave, Goto
  <2> QED BY <2>1, <2>2, <2>3, <2>4, <2>5 DEF TypeOK, Phases
<1>12. ASSUME CheckFiles PROVE TypeOK'
  <2>1. kind' \in Kinds /\ installed' \in Tree /\ stray' \in BOOLEAN /\ head' \in Versions
    BY <1>12 DEF CheckFiles, TypeOK, tree
  <2>2. records' \in Seq(RecordType) /\ cur' \in 0..Len(records') /\ (pc' # "idle" => cur' # 0)
    BY <1>12 DEF CheckFiles, TypeOK, Leave, Goto, command
  <2>3. pc' \in Phases /\ todo' \subseteq Paths /\ back' \in {"none", "fallback", "rollback"}
    BY <1>12 DEF CheckFiles, TypeOK, Leave, Goto, Phases, command, Listed
  <2>4. /\ made' \in Nat /\ stops' \in Nat /\ edits' \in Tree
       /\ raced' \subseteq Int /\ cut' \in BOOLEAN /\ older' \in BOOLEAN
    BY <1>12 DEF CheckFiles, TypeOK, history, Tree, Nothing, Absent
  <2>5. sure' \in 0..made'
    BY <1>12 DEF CheckFiles, TypeOK, history, command, Leave, Goto
  <2> QED BY <2>1, <2>2, <2>3, <2>4, <2>5 DEF TypeOK, Phases
<1>13. ASSUME Reset PROVE TypeOK'
  <2>1. kind' \in Kinds /\ installed' \in Tree /\ stray' \in BOOLEAN /\ head' \in Versions
    <3>1. Record.from \in Versions
      BY <1>13, AtHand DEF Reset, Record
    <3>2. Switch(Record.from)
      BY <1>13 DEF Reset
    <3> QED BY <3>1, <3>2, Switched DEF TypeOK
  <2>2. records' \in Seq(RecordType) /\ cur' \in 0..Len(records') /\ (pc' # "idle" => cur' # 0)
    BY <1>13, AtHand DEF Reset, PromotionDone, TypeOK, Goto
  <2>3. pc' \in Phases /\ todo' \subseteq Paths /\ back' \in {"none", "fallback", "rollback"}
    BY <1>13 DEF Reset, TypeOK, Leave, Goto, Phases, command, Listed
  <2>4. /\ made' \in Nat /\ stops' \in Nat /\ edits' \in Tree
       /\ raced' \subseteq Int /\ cut' \in BOOLEAN /\ older' \in BOOLEAN
    BY <1>13 DEF Reset, TypeOK, history, Tree, Nothing, Absent
  <2>5. sure' \in 0..made'
    BY <1>13 DEF Reset, TypeOK, history, command, Leave, Goto
  <2> QED BY <2>1, <2>2, <2>3, <2>4, <2>5 DEF TypeOK, Phases
<1>14. ASSUME Restored PROVE TypeOK'
  <2>1. kind' \in Kinds /\ installed' \in Tree /\ stray' \in BOOLEAN /\ head' \in Versions
    BY <1>14 DEF Restored, TypeOK, tree
  <2>2. records' \in Seq(RecordType) /\ cur' \in 0..Len(records') /\ (pc' # "idle" => cur' # 0)
    BY <1>14, AtHand DEF Restored, PromotionDone, TypeOK, Goto
  <2>3. pc' \in Phases /\ todo' \subseteq Paths /\ back' \in {"none", "fallback", "rollback"}
    BY <1>14 DEF Restored, TypeOK, Leave, Goto, Phases, command, Listed
  <2>4. /\ made' \in Nat /\ stops' \in Nat /\ edits' \in Tree
       /\ raced' \subseteq Int /\ cut' \in BOOLEAN /\ older' \in BOOLEAN
    BY <1>14 DEF Restored, TypeOK, history, Tree, Nothing, Absent
  <2>5. sure' \in 0..made'
    BY <1>14 DEF Restored, TypeOK, history, command, Leave, Goto
  <2> QED BY <2>1, <2>2, <2>3, <2>4, <2>5 DEF TypeOK, Phases
<1>15. ASSUME RestoreFails PROVE TypeOK'
  <2>1. kind' \in Kinds /\ installed' \in Tree /\ stray' \in BOOLEAN /\ head' \in Versions
    BY <1>15 DEF RestoreFails, TypeOK, tree
  <2>2. records' \in Seq(RecordType) /\ cur' \in 0..Len(records') /\ (pc' # "idle" => cur' # 0)
    <3>1. pc # "idle" /\ (UNCHANGED records \/ Status("rollback-needed"))
      BY <1>15 DEF RestoreFails
    <3>2. "rollback-needed" \in Statuses
      BY DEF Statuses
    <3>3. records' \in Seq(RecordType) /\ Len(records') = Len(records) /\ Len(records) \in Nat
      BY <3>1, <3>2, StatusTypes DEF TypeOK
    <3> QED BY <1>15, <3>1, <3>3 DEF RestoreFails, TypeOK, Leave, Goto
  <2>3. pc' \in Phases /\ todo' \subseteq Paths /\ back' \in {"none", "fallback", "rollback"}
    BY <1>15 DEF RestoreFails, TypeOK, Leave, Goto, Phases, command, Listed
  <2>4. /\ made' \in Nat /\ stops' \in Nat /\ edits' \in Tree
       /\ raced' \subseteq Int /\ cut' \in BOOLEAN /\ older' \in BOOLEAN
    BY <1>15 DEF RestoreFails, TypeOK, history, Tree, Nothing, Absent
  <2>5. sure' \in 0..made'
    BY <1>15 DEF RestoreFails, TypeOK, history, command, Leave, Goto
  <2> QED BY <2>1, <2>2, <2>3, <2>4, <2>5 DEF TypeOK, Phases
<1>16. ASSUME NEW f \in Paths, Replace(f) PROVE TypeOK'
  <2>1. kind' \in Kinds /\ installed' \in Tree /\ stray' \in BOOLEAN /\ head' \in Versions
    <3>1. pc # "idle"
      BY <1>16 DEF Replace
    <3>2. Sources \in Tree
      BY <3>1, AtHand, Releases DEF Sources, Record
    <3>3. Sources[f] \in Int
      BY <3>2 DEF Tree
    <3> QED BY <1>16, <3>3 DEF Replace, TypeOK, Tree
  <2>2. records' \in Seq(RecordType) /\ cur' \in 0..Len(records') /\ (pc' # "idle" => cur' # 0)
    BY <1>16 DEF Replace, TypeOK, Leave, Goto, command
  <2>3. pc' \in Phases /\ todo' \subseteq Paths /\ back' \in {"none", "fallback", "rollback"}
    BY <1>16 DEF Replace, TypeOK, Leave, Goto, Phases, command, Listed
  <2>4. /\ made' \in Nat /\ stops' \in Nat /\ edits' \in Tree
       /\ raced' \subseteq Int /\ cut' \in BOOLEAN /\ older' \in BOOLEAN
    BY <1>16 DEF Replace, TypeOK, history, Tree, Nothing, Absent
  <2>5. sure' \in 0..made'
    BY <1>16 DEF Replace, TypeOK, history, command, Leave, Goto
  <2> QED BY <2>1, <2>2, <2>3, <2>4, <2>5 DEF TypeOK, Phases
<1>17. ASSUME NEW f \in Paths, Remove(f) PROVE TypeOK'
  <2>1. kind' \in Kinds /\ installed' \in Tree /\ stray' \in BOOLEAN /\ head' \in Versions
    BY <1>17 DEF Remove, TypeOK, Tree, Absent
  <2>2. records' \in Seq(RecordType) /\ cur' \in 0..Len(records') /\ (pc' # "idle" => cur' # 0)
    BY <1>17 DEF Remove, TypeOK, Leave, Goto, command
  <2>3. pc' \in Phases /\ todo' \subseteq Paths /\ back' \in {"none", "fallback", "rollback"}
    BY <1>17 DEF Remove, TypeOK, Leave, Goto, Phases, command, Listed
  <2>4. /\ made' \in Nat /\ stops' \in Nat /\ edits' \in Tree
       /\ raced' \subseteq Int /\ cut' \in BOOLEAN /\ older' \in BOOLEAN
    BY <1>17 DEF Remove, TypeOK, history, Tree, Nothing, Absent
  <2>5. sure' \in 0..made'
    BY <1>17 DEF Remove, TypeOK, history, command, Leave, Goto
  <2> QED BY <2>1, <2>2, <2>3, <2>4, <2>5 DEF TypeOK, Phases
<1>18. ASSUME Stop PROVE TypeOK'
  <2>1. kind' \in Kinds /\ installed' \in Tree /\ stray' \in BOOLEAN /\ head' \in Versions
    BY <1>18 DEF Stop, TypeOK, tree
  <2>2. records' \in Seq(RecordType) /\ cur' \in 0..Len(records') /\ (pc' # "idle" => cur' # 0)
    BY <1>18 DEF Stop, TypeOK, Leave, Goto, command
  <2>3. pc' \in Phases /\ todo' \subseteq Paths /\ back' \in {"none", "fallback", "rollback"}
    BY <1>18 DEF Stop, TypeOK, Leave, Goto, Phases, command, Listed
  <2>4. /\ made' \in Nat /\ stops' \in Nat /\ edits' \in Tree
       /\ raced' \subseteq Int /\ cut' \in BOOLEAN /\ older' \in BOOLEAN
    BY <1>18 DEF Stop, TypeOK, history, Tree, Nothing, Absent
  <2>5. sure' \in 0..made'
    BY <1>18 DEF Stop, TypeOK, history, command, Leave, Goto
  <2> QED BY <2>1, <2>2, <2>3, <2>4, <2>5 DEF TypeOK, Phases
<1>19. ASSUME NEW f \in Paths, Edit(f) PROVE TypeOK'
  <2>1. kind' \in Kinds /\ installed' \in Tree /\ stray' \in BOOLEAN /\ head' \in Versions
    <3>1. -made' \in Int
      BY <1>19 DEF Edit, TypeOK
    <3> QED BY <1>19, <3>1 DEF Edit, TypeOK, Tree
  <2>2. records' \in Seq(RecordType) /\ cur' \in 0..Len(records') /\ (pc' # "idle" => cur' # 0)
    BY <1>19 DEF Edit, TypeOK, Leave, Goto, command
  <2>3. pc' \in Phases /\ todo' \subseteq Paths /\ back' \in {"none", "fallback", "rollback"}
    BY <1>19 DEF Edit, TypeOK, Leave, Goto, Phases, command, Listed
  <2>4. /\ made' \in Nat /\ stops' \in Nat /\ edits' \in Tree
       /\ raced' \subseteq Int /\ cut' \in BOOLEAN /\ older' \in BOOLEAN
    <3>1. made' \in Nat /\ -made' \in Int
      BY <1>19 DEF Edit, TypeOK
    <3> QED BY <1>19, <3>1 DEF Edit, TypeOK, Tree
  <2>5. sure' \in 0..made'
    BY <1>19 DEF Edit, TypeOK, history, command, Leave, Goto
  <2> QED BY <2>1, <2>2, <2>3, <2>4, <2>5 DEF TypeOK, Phases
<1>20. ASSUME NEW v \in Versions, Checkout(v) PROVE TypeOK'
  <2>1. kind' \in Kinds /\ installed' \in Tree /\ stray' \in BOOLEAN /\ head' \in Versions
    BY <1>20, Releases DEF Checkout, TypeOK
  <2>2. records' \in Seq(RecordType) /\ cur' \in 0..Len(records') /\ (pc' # "idle" => cur' # 0)
    BY <1>20 DEF Checkout, TypeOK, Leave, Goto, command
  <2>3. pc' \in Phases /\ todo' \subseteq Paths /\ back' \in {"none", "fallback", "rollback"}
    BY <1>20 DEF Checkout, TypeOK, Leave, Goto, Phases, command, Listed
  <2>4. /\ made' \in Nat /\ stops' \in Nat /\ edits' \in Tree
       /\ raced' \subseteq Int /\ cut' \in BOOLEAN /\ older' \in BOOLEAN
    BY <1>20 DEF Checkout, TypeOK, history, Tree, Nothing, Absent
  <2>5. sure' \in 0..made'
    BY <1>20 DEF Checkout, TypeOK, history, command, Leave, Goto
  <2> QED BY <2>1, <2>2, <2>3, <2>4, <2>5 DEF TypeOK, Phases
<1>21. ASSUME NEW v \in Versions, Reinstall(v) PROVE TypeOK'
  <2>1. kind' \in Kinds /\ installed' \in Tree /\ stray' \in BOOLEAN /\ head' \in Versions
    BY <1>21, Releases DEF Reinstall, TypeOK
  <2>2. records' \in Seq(RecordType) /\ cur' \in 0..Len(records') /\ (pc' # "idle" => cur' # 0)
    BY <1>21 DEF Reinstall, TypeOK, Leave, Goto, command
  <2>3. pc' \in Phases /\ todo' \subseteq Paths /\ back' \in {"none", "fallback", "rollback"}
    BY <1>21 DEF Reinstall, TypeOK, Leave, Goto, Phases, command, Listed
  <2>4. /\ made' \in Nat /\ stops' \in Nat /\ edits' \in Tree
       /\ raced' \subseteq Int /\ cut' \in BOOLEAN /\ older' \in BOOLEAN
    BY <1>21 DEF Reinstall, TypeOK, history, Tree, Nothing, Absent
  <2>5. sure' \in 0..made'
    BY <1>21 DEF Reinstall, TypeOK, history, command, Leave, Goto
  <2> QED BY <2>1, <2>2, <2>3, <2>4, <2>5 DEF TypeOK, Phases
<1>22. ASSUME Prune PROVE TypeOK'
  <2>1. kind' \in Kinds /\ installed' \in Tree /\ stray' \in BOOLEAN /\ head' \in Versions
    <3>1. PICK v \in Versions : installed' = [f \in Paths |-> IF f \in Listed(Release[v]) THEN installed[f] ELSE Absent]
      BY <1>22 DEF Prune
    <3>2. installed' \in Tree
      BY <3>1 DEF TypeOK, Tree, Absent
    <3> QED BY <1>22, <3>2 DEF Prune, TypeOK
  <2>2. records' \in Seq(RecordType) /\ cur' \in 0..Len(records') /\ (pc' # "idle" => cur' # 0)
    BY <1>22 DEF Prune, TypeOK, Leave, Goto, command
  <2>3. pc' \in Phases /\ todo' \subseteq Paths /\ back' \in {"none", "fallback", "rollback"}
    BY <1>22 DEF Prune, TypeOK, Leave, Goto, Phases, command, Listed
  <2>4. /\ made' \in Nat /\ stops' \in Nat /\ edits' \in Tree
       /\ raced' \subseteq Int /\ cut' \in BOOLEAN /\ older' \in BOOLEAN
    BY <1>22 DEF Prune, TypeOK, history, Tree, Nothing, Absent
  <2>5. sure' \in 0..made'
    BY <1>22 DEF Prune, TypeOK, history, command, Leave, Goto
  <2> QED BY <2>1, <2>2, <2>3, <2>4, <2>5 DEF TypeOK, Phases
<1>23. CASE UNCHANGED vars
  BY <1>23 DEF vars, tree, command, history, TypeOK
<1>24. ASSUME Promoted PROVE TypeOK'
  <2>1. kind' \in Kinds /\ installed' \in Tree /\ stray' \in BOOLEAN /\ head' \in Versions
    BY <1>24 DEF Promoted, TypeOK, tree
  <2>2. records' \in Seq(RecordType) /\ cur' \in 0..Len(records') /\ (pc' # "idle" => cur' # 0)
    BY <1>24, AtHand DEF Promoted, PromotionDone, TypeOK, Goto
  <2>3. pc' \in Phases /\ todo' \subseteq Paths /\ back' \in {"none", "fallback", "rollback"}
    BY <1>24 DEF Promoted, TypeOK, Leave, Goto, Phases, command, Listed
  <2>4. /\ made' \in Nat /\ stops' \in Nat /\ edits' \in Tree
       /\ raced' \subseteq Int /\ cut' \in BOOLEAN /\ older' \in BOOLEAN
    BY <1>24 DEF Promoted, TypeOK, history, Tree, Nothing, Absent
  <2>5. sure' \in 0..made'
    BY <1>24 DEF Promoted, TypeOK, history, command, Leave, Goto
  <2> QED BY <2>1, <2>2, <2>3, <2>4, <2>5 DEF TypeOK, Phases
<1>25. ASSUME TakenBack PROVE TypeOK'
  <2>1. kind' \in Kinds /\ installed' \in Tree /\ stray' \in BOOLEAN /\ head' \in Versions
    BY <1>25 DEF TakenBack, TypeOK, tree
  <2>2. records' \in Seq(RecordType) /\ cur' \in 0..Len(records') /\ (pc' # "idle" => cur' # 0)
    <3>1. pc # "idle" /\ Status(Taken)
      BY <1>25 DEF TakenBack
    <3>2. Taken \in Statuses
      BY DEF Statuses, Taken
    <3>3. records' \in Seq(RecordType) /\ Len(records') = Len(records) /\ Len(records) \in Nat
      BY <3>1, <3>2, StatusTypes
    <3> QED BY <1>25, <3>1, <3>3 DEF TakenBack, TypeOK, Leave, Goto
  <2>3. pc' \in Phases /\ todo' \subseteq Paths /\ back' \in {"none", "fallback", "rollback"}
    BY <1>25 DEF TakenBack, TypeOK, Leave, Goto, Phases, command, Listed
  <2>4. /\ made' \in Nat /\ stops' \in Nat /\ edits' \in Tree
       /\ raced' \subseteq Int /\ cut' \in BOOLEAN /\ older' \in BOOLEAN
    BY <1>25 DEF TakenBack, TypeOK, history, Tree, Nothing, Absent
  <2>5. sure' \in 0..made'
    BY <1>25 DEF TakenBack, TypeOK, history, command, Leave, Goto
  <2> QED BY <2>1, <2>2, <2>3, <2>4, <2>5 DEF TypeOK, Phases
<1> QED
  BY <1>1, <1>2, <1>3, <1>4, <1>5, <1>6, <1>7, <1>8, <1>9, <1>10, <1>11, <1>12, <1>13, <1>14, <1>15, <1>16, <1>17, <1>18, <1>19, <1>20, <1>21, <1>22, <1>23, <1>24, <1>25 DEF Next, Upgrading, Restoring, Replacing, Others

\* Init gives values of the right types.
LEMMA TypeInit == Init => TypeOK
<1> SUFFICES ASSUME Init PROVE TypeOK OBVIOUS
<1>1. installed \in Tree /\ edits \in Tree
  BY Releases DEF Init, Nothing, Tree, Absent
<1>2. records \in Seq(RecordType) /\ Len(records) = 0
  BY DEF Init
<1>3. cur \in 0..Len(records) /\ (pc # "idle" => cur # 0)
  BY <1>2 DEF Init
<1>4. /\ kind \in Kinds /\ stray \in BOOLEAN /\ head \in Versions /\ todo \subseteq Paths
      /\ back \in {"none", "fallback", "rollback"} /\ pc = "idle"
  BY DEF Init
<1>6. made = 0 /\ sure = 0
  BY DEF Init
<1>7. made \in Nat /\ sure \in 0..made
  BY <1>6
<1>5. stops \in Nat /\ raced \subseteq Int /\ cut \in BOOLEAN /\ older \in BOOLEAN
  BY DEF Init
<1> QED BY <1>1, <1>2, <1>3, <1>4, <1>5, <1>7 DEF TypeOK

\* Every value the variables take in any behaviour is of its type.
THEOREM UpgradeTypes == Spec => []TypeOK
<1> QED BY TypeInit, TypeStep, PTL DEF Spec

-----------------------------------------------------------------------------
(* How the phases and the record at hand go together. *)

Course ==
  /\ pc = "merged" => Git
  /\ pc = "restore" => ~Git
  /\ pc \in {"check", "restore"} => back # "none"
  /\ back # "none" => pc \in {"check", "restore", "verified"}
  /\ pc # "idle" /\ back # "rollback" => cur = Len(records)
  /\ pc \in {"promote", "merged"} \/ (pc = "verified" /\ back = "none") \/ back = "fallback" =>
       records[cur].status = "promoting"
  /\ back = "rollback" => records[cur].status \in {"applied", "rollback-needed"}

\* No step but CopyPrevious changes what a record has besides its status.
Grown ==
  /\ DOMAIN records \subseteq DOMAIN records'
  /\ \A i \in DOMAIN records :
       /\ records'[i].previous = records[i].previous
       /\ records'[i].from = records[i].from /\ records'[i].to = records[i].to

\* A status written goes to the record at hand and only moves it forward.
LEMMA StatusGrows ==
  ASSUME TypeOK, pc # "idle", NEW s \in Statuses, Status(s)
  PROVE  /\ Grown /\ Len(records') = Len(records) /\ DOMAIN records' = DOMAIN records
         /\ cur \in DOMAIN records /\ records'[cur].status = s
         /\ \A i \in DOMAIN records : i # cur => records'[i] = records[i]
<1>1. cur \in DOMAIN records
  BY AtHand
<1> QED BY <1>1, StatusSet DEF Grown

\* Arithmetic on its own, for the places where sets and numbers meet.
LEMMA Negated == \A n \in Nat : -n <= 0
OBVIOUS

\* Records nobody writes have not lost a status.
LEMMA SameGrows == ASSUME UNCHANGED records PROVE Grown
BY DEF Grown

\* Every step keeps Course.
LEMMA CourseStep == TypeOK /\ Course /\ [Next]_vars => Course'
<1> SUFFICES ASSUME TypeOK, Course, [Next]_vars PROVE Course'
  OBVIOUS
<1>1. ASSUME NEW v \in Versions, Begin(v) PROVE Course'
  <2>1. cur' = Len(records')
    BY <1>1, Begun
  <2> QED BY <1>1, <2>1 DEF Begin, Course, Git, Leave, Goto, tree, history
<1>2. ASSUME Validate PROVE Course'
  BY <1>2 DEF Validate, Course, Git, Leave, Goto, tree, history, command, Switch
<1>3. ASSUME Preview PROVE Course'
  <2>1. pc # "idle" /\ Status("validated-not-applied") /\ "validated-not-applied" \in Statuses
    BY <1>3 DEF Preview, Statuses, Taken, Git
  <2>2. Len(records') = Len(records) /\ records'[cur].status = "validated-not-applied"
    BY <2>1, StatusGrows
  <2> QED BY <1>3, <2>1, <2>2 DEF Preview, Course, Git, Leave, Goto, tree, history, Switch
<1>4. ASSUME VerifyAgain PROVE Course'
  BY <1>4 DEF VerifyAgain, Course, Git, Leave, Goto, tree, history, command, Switch
<1>5. ASSUME Reject PROVE Course'
  <2>1. pc # "idle" /\ Status("rejected") /\ "rejected" \in Statuses
    BY <1>5 DEF Reject, Statuses, Taken, Git
  <2>2. Len(records') = Len(records) /\ records'[cur].status = "rejected"
    BY <2>1, StatusGrows
  <2> QED BY <1>5, <2>1, <2>2 DEF Reject, Course, Git, Leave, Goto, tree, history, Switch
<1>6. ASSUME NEW f \in Paths, CopyPrevious(f) PROVE Course'
  <2>1. Len(records') = Len(records)
    BY <1>6, PreviousSet
  <2> QED BY <1>6, <2>1 DEF CopyPrevious, Course, Git, Leave, Goto, tree, history
<1>7. ASSUME StartPromotion PROVE Course'
  <2>1. pc # "idle" /\ Status("promoting") /\ "promoting" \in Statuses
    BY <1>7 DEF StartPromotion, Statuses, Taken, Git
  <2>2. Len(records') = Len(records) /\ records'[cur].status = "promoting"
    BY <2>1, StatusGrows
  <2> QED BY <1>7, <2>1, <2>2 DEF StartPromotion, Course, Git, Leave, Goto, tree, history, Switch
<1>8. ASSUME Merge PROVE Course'
  BY <1>8 DEF Merge, Course, Git, Leave, Goto, tree, history, command, Switch
<1>9. ASSUME Applied PROVE Course'
  <2>1. pc # "idle" /\ Status("applied") /\ "applied" \in Statuses
    BY <1>9 DEF Applied, Statuses, Taken, Git
  <2>2. Len(records') = Len(records) /\ records'[cur].status = "applied"
    BY <2>1, StatusGrows
  <2> QED BY <1>9, <2>1, <2>2 DEF Applied, Course, Git, Leave, Goto, tree, history, Switch
<1>10. ASSUME PromotionFails PROVE Course'
  <2> QED BY <1>10 DEF PromotionFails, Course, Git, Leave, Goto, tree, history
<1>11. ASSUME NEW i \in 1..MaxRuns, StartRollback(i) PROVE Course'
  <2> QED BY <1>11 DEF StartRollback, Course, Git, Leave, Goto, Open, tree
<1>12. ASSUME CheckFiles PROVE Course'
  BY <1>12 DEF CheckFiles, Course, Git, Leave, Goto, tree, history, command, Switch
<1>13. ASSUME Reset PROVE Course'
  <2>1. UNCHANGED <<records, cur, back, kind>> /\ pc' = "verified" /\ pc \in {"check", "restore"}
    BY <1>13 DEF Reset, Goto, tree, Switch
  <2> QED BY <2>1 DEF Course, Git
<1>14. ASSUME Restored PROVE Course'
  <2>1. UNCHANGED <<records, cur, back, kind>> /\ pc' = "verified" /\ pc \in {"check", "restore"}
    BY <1>14 DEF Restored, Goto, tree, Switch
  <2> QED BY <2>1 DEF Course, Git
<1>15. ASSUME RestoreFails PROVE Course'
  <2> QED BY <1>15 DEF RestoreFails, Course, Git, Leave, Goto, tree, history
<1>16. ASSUME NEW f \in Paths, Replace(f) PROVE Course'
  BY <1>16 DEF Replace, Course, Git, Leave, Goto, tree, history, command, Switch
<1>17. ASSUME NEW f \in Paths, Remove(f) PROVE Course'
  BY <1>17 DEF Remove, Course, Git, Leave, Goto, tree, history, command, Switch
<1>18. ASSUME Stop PROVE Course'
  BY <1>18 DEF Stop, Course, Git, Leave, Goto, tree, history, command, Switch
<1>19. ASSUME NEW f \in Paths, Edit(f) PROVE Course'
  BY <1>19 DEF Edit, Course, Git, Leave, Goto, tree, history, command, Switch
<1>20. ASSUME NEW v \in Versions, Checkout(v) PROVE Course'
  BY <1>20 DEF Checkout, Course, Git, Leave, Goto, tree, history, command, Switch
<1>21. ASSUME NEW v \in Versions, Reinstall(v) PROVE Course'
  BY <1>21 DEF Reinstall, Course, Git, Leave, Goto, tree, history, command, Switch
<1>22. ASSUME Prune PROVE Course'
  BY <1>22 DEF Prune, Course, Git, Leave, Goto, tree, history, command, Switch
<1>23. CASE UNCHANGED vars
  BY <1>23 DEF vars, tree, command, Course, Git
<1>24. ASSUME Promoted PROVE Course'
  <2>1. UNCHANGED <<records, cur, back, kind>> /\ pc' = "verified" /\ pc \in {"promote", "merged"}
    BY <1>24 DEF Promoted, PromotionDone, Goto, tree
  <2> QED BY <2>1 DEF Course, Git
<1>25. ASSUME TakenBack PROVE Course'
  <2>1. pc # "idle" /\ Status(Taken) /\ Taken \in Statuses
    BY <1>25 DEF TakenBack, Statuses, Taken, Git
  <2>2. Len(records') = Len(records) /\ records'[cur].status = Taken
    BY <2>1, StatusGrows
  <2> QED BY <1>25, <2>1, <2>2 DEF TakenBack, Course, Git, Leave, Goto, tree, history, Switch
<1> QED
  BY <1>1, <1>2, <1>3, <1>4, <1>5, <1>6, <1>7, <1>8, <1>9, <1>10, <1>11, <1>12, <1>13, <1>14, <1>15, <1>16, <1>17, <1>18, <1>19, <1>20, <1>21, <1>22, <1>23, <1>24, <1>25 DEF Next, Upgrading, Restoring, Replacing, Others

-----------------------------------------------------------------------------
(* What people wrote is kept. *)

\* The previous directory is empty until files are copied, and a file that the
\* command will write without another look was last seen with the edit it has.
Kept ==
  /\ \A f \in Paths : edits[f] <= 0
  /\ pc \in {"validate", "validated"} => records[cur].previous = Nothing
  /\ pc = "copy" => \A f \in todo : records[cur].previous[f] = Absent
  /\ \A f \in Paths : Overwrites(f) /\ edits[f] = installed[f] =>
       edits[f] \in {Absent, records[cur].previous[f]} \cup raced

\* EditsKept holds on when every file that changes had no edit to lose, or one
\* a previous directory has.
LEMMA EditsStay ==
  ASSUME EditsKept, Grown, UNCHANGED <<edits, raced>>,
         \A f \in Paths :
           \/ installed'[f] = installed[f] \/ edits[f] # installed[f]
           \/ edits[f] \in {Absent} \cup raced
           \/ \E i \in DOMAIN records : records[i].previous[f] = edits[f]
  PROVE  EditsKept'
<1> SUFFICES ASSUME NEW f \in Paths
             PROVE  \/ edits[f] \in {Absent, installed'[f]} \cup raced
                    \/ \E i \in DOMAIN records' : records'[i].previous[f] = edits[f]
  BY DEF EditsKept
<1>1. CASE \E i \in DOMAIN records : records[i].previous[f] = edits[f]
  BY <1>1 DEF Grown
<1>2. CASE ~\E i \in DOMAIN records : records[i].previous[f] = edits[f]
  BY <1>2 DEF EditsKept
<1> QED BY <1>1, <1>2

\* Every step keeps EditsKept and Kept.
LEMMA KeptStep == TypeOK /\ Course /\ Kept /\ EditsKept /\ [Next]_vars => Kept' /\ EditsKept'
<1> SUFFICES ASSUME TypeOK, Course, Kept, EditsKept, [Next]_vars PROVE Kept' /\ EditsKept'
  OBVIOUS
<1>0. \A f \in Paths : edits[f] \in Int /\ installed[f] \in Int /\ edits[f] <= 0
  BY DEF TypeOK, Tree, Kept
<1>1. ASSUME NEW v \in Versions, Begin(v) PROVE Kept' /\ EditsKept'
  <2>1. Grown /\ records'[cur'].previous = Nothing
    BY <1>1, Begun DEF Grown
  <2>2. UNCHANGED <<installed, edits, raced>> /\ pc' = "validate"
    BY <1>1 DEF Begin, tree, history, Leave, Goto, command
  <2>3. EditsKept'
    BY <2>1, <2>2, EditsStay
  <2> QED BY <2>1, <2>2, <2>3 DEF Kept, Overwrites
<1>2. ASSUME Validate PROVE Kept' /\ EditsKept'
  <2>1. UNCHANGED <<records, cur, installed, edits, raced>> /\ pc = "validate" /\ pc' = "validated"
    BY <1>2 DEF Validate, tree, history, Leave, Goto, command
  <2>2. EditsKept'
    BY <2>1, SameGrows, EditsStay
  <2> QED BY <2>1, <2>2 DEF Kept, Overwrites
<1>3. ASSUME Preview PROVE Kept' /\ EditsKept'
  <2>1. pc # "idle" /\ Status("validated-not-applied") /\ "validated-not-applied" \in Statuses
    BY <1>3 DEF Preview, Statuses, Taken, Git
  <2>2. Grown
    BY <2>1, StatusGrows
  <2>3. UNCHANGED <<installed, edits, raced>> /\ pc' = "idle"
    BY <1>3 DEF Preview, tree, history, Leave, Goto, command
  <2>4. EditsKept'
    BY <2>2, <2>3, EditsStay
  <2> QED BY <2>3, <2>4 DEF Kept, Overwrites
<1>4. ASSUME VerifyAgain PROVE Kept' /\ EditsKept'
  <2>1. /\ UNCHANGED <<records, cur, installed, edits, raced>> /\ pc = "validated" /\ pc' = "copy"
        /\ todo' = Listed(installed)
    BY <1>4 DEF VerifyAgain, tree, history, Leave, Goto, command
  <2>2. EditsKept'
    BY <2>1, SameGrows, EditsStay
  <2>3. \A f \in todo' : records'[cur'].previous[f] = Absent
    BY <2>1 DEF Kept, Nothing, Listed
  <2>4. \A f \in Paths : f \notin todo' => installed[f] = Absent
    BY <2>1 DEF Listed
  <2> QED BY <2>1, <2>2, <2>3, <2>4 DEF Kept, Overwrites
<1>5. ASSUME Reject PROVE Kept' /\ EditsKept'
  <2>1. pc # "idle" /\ Status("rejected") /\ "rejected" \in Statuses
    BY <1>5 DEF Reject, Statuses, Taken, Git
  <2>2. Grown
    BY <2>1, StatusGrows
  <2>3. UNCHANGED <<installed, edits, raced>> /\ pc' = "idle"
    BY <1>5 DEF Reject, tree, history, Leave, Goto, command
  <2>4. EditsKept'
    BY <2>2, <2>3, EditsStay
  <2> QED BY <2>3, <2>4 DEF Kept, Overwrites
<1>6. ASSUME NEW f \in Paths, CopyPrevious(f) PROVE Kept' /\ EditsKept'
  <2>1. /\ UNCHANGED <<cur, kind, installed, edits, raced>> /\ pc = "copy" /\ pc' = "copy"
        /\ f \in todo /\ todo' = todo \ {f}
    BY <1>6 DEF CopyPrevious, tree, history, Leave, Goto, command
  <2>2. /\ cur \in DOMAIN records /\ DOMAIN records' = DOMAIN records
        /\ \A i \in DOMAIN records : i # cur => records'[i] = records[i]
        /\ records'[cur].previous[f] = installed[f]
        /\ \A g \in Paths : g # f => records'[cur].previous[g] = records[cur].previous[g]
    BY <1>6, PreviousSet
  <2>3. records[cur].previous[f] = Absent
    BY <2>1 DEF Kept
  <2>4. ASSUME NEW g \in Paths
        PROVE  \/ edits[g] \in {Absent, installed[g]} \cup raced
               \/ \E i \in DOMAIN records' : records'[i].previous[g] = edits[g]
    <3>1. CASE \E i \in DOMAIN records : records[i].previous[g] = edits[g]
      <4>1. PICK i \in DOMAIN records : records[i].previous[g] = edits[g]
        BY <3>1
      <4>2. CASE i = cur /\ g = f
        BY <4>1, <4>2, <2>3
      <4>3. CASE ~(i = cur /\ g = f)
        BY <4>1, <4>3, <2>2
      <4> QED BY <4>2, <4>3
    <3>2. CASE ~\E i \in DOMAIN records : records[i].previous[g] = edits[g]
      BY <3>2 DEF EditsKept
    <3> QED BY <3>1, <3>2
  <2>5. EditsKept'
    BY <2>1, <2>4 DEF EditsKept
  <2>6. \A g \in todo' : records'[cur'].previous[g] = Absent
    BY <2>1, <2>2 DEF Kept, TypeOK
  <2>7. ASSUME NEW g \in Paths, Overwrites(g)', edits[g] = installed[g]
        PROVE  edits[g] \in {Absent, records'[cur].previous[g]} \cup raced
    <3>1. CASE g = f
      BY <3>1, <2>2, <2>7
    <3>2. CASE g # f
      <4>1. Overwrites(g)
        BY <3>2, <2>1, <2>7 DEF Overwrites, Git
      <4> QED BY <4>1, <3>2, <2>2, <2>7 DEF Kept
    <3> QED BY <3>1, <3>2
  <2> QED BY <2>1, <2>5, <2>6, <2>7 DEF Kept
<1>7. ASSUME StartPromotion PROVE Kept' /\ EditsKept'
  <2>1. pc # "idle" /\ Status("promoting") /\ "promoting" \in Statuses
    BY <1>7 DEF StartPromotion, Statuses
  <2>2. Grown /\ cur \in DOMAIN records
    BY <2>1, StatusGrows
  <2>3. /\ UNCHANGED <<cur, kind, installed, edits, raced>> /\ pc = "copy" /\ pc' = "promote"
        /\ todo = {}
    BY <1>7 DEF StartPromotion, tree, history, Leave, Goto, command
  <2>4. EditsKept'
    BY <2>2, <2>3, EditsStay
  <2>5. ASSUME NEW f \in Paths, Overwrites(f)', edits[f] = installed[f]
        PROVE  edits[f] \in {Absent, records'[cur].previous[f]} \cup raced
    <3>1. Overwrites(f)
      BY <2>3, <2>5 DEF Overwrites, Git
    <3> QED BY <3>1, <2>2, <2>5 DEF Kept, Grown
  <2> QED BY <2>3, <2>4, <2>5 DEF Kept
<1>8. ASSUME Merge PROVE Kept' /\ EditsKept'
  <2>1. pc # "idle" /\ (Switch(Record.to) \/ UNCHANGED installed) /\ UNCHANGED <<records, edits, raced>> /\ pc' = "merged"
    BY <1>8 DEF Merge, tree, history, Goto
  <2>2. Grown /\ Record.to \in Versions
    BY <2>1, SameGrows, AtHand DEF Record
  <2>4. ASSUME NEW f \in Paths, installed'[f] # installed[f], edits[f] = installed[f] PROVE edits[f] = Absent
    <3>1. edits[f] \in Nat
      BY <2>1, <2>2, <2>4, Switched, Releases DEF TypeOK
    <3> QED BY <3>1, <1>0 DEF Absent
  <2>5. EditsKept'
    BY <2>1, <2>2, <2>4, EditsStay
  <2> QED BY <2>1, <2>5 DEF Kept, Overwrites
<1>9. ASSUME Applied PROVE Kept' /\ EditsKept'
  <2>1. pc # "idle" /\ Status("applied") /\ "applied" \in Statuses
    BY <1>9 DEF Applied, Statuses, Taken, Git
  <2>2. Grown
    BY <2>1, StatusGrows
  <2>3. UNCHANGED <<installed, edits, raced>> /\ pc' = "idle"
    BY <1>9 DEF Applied, tree, history, Leave, Goto, command
  <2>4. EditsKept'
    BY <2>2, <2>3, EditsStay
  <2> QED BY <2>3, <2>4 DEF Kept, Overwrites
<1>10. ASSUME PromotionFails PROVE Kept' /\ EditsKept'
  <2>1. UNCHANGED <<records, installed, edits, raced>> /\ pc' \in {"idle", "check"}
    BY <1>10 DEF PromotionFails, tree, history, Leave, Goto, command
  <2>2. EditsKept'
    BY <2>1, SameGrows, EditsStay
  <2> QED BY <2>1, <2>2 DEF Kept, Overwrites
<1>11. ASSUME NEW i \in 1..MaxRuns, StartRollback(i) PROVE Kept' /\ EditsKept'
  <2>1. UNCHANGED <<records, installed, edits, raced>> /\ pc' \in {"idle", "check"}
    BY <1>11 DEF StartRollback, tree, history, Leave, Goto, command
  <2>2. EditsKept'
    BY <2>1, SameGrows, EditsStay
  <2> QED BY <2>1, <2>2 DEF Kept, Overwrites
<1>12. ASSUME CheckFiles PROVE Kept' /\ EditsKept'
  <2>1. /\ UNCHANGED <<records, cur, kind, installed, edits, raced>> /\ pc # "idle" /\ pc' = "restore"
        /\ todo' = Listed(records[cur].previous) \cup Listed(Release[records[cur].to])
        /\ \A f \in todo' : installed[f] \in {Absent, records[cur].previous[f], Release[records[cur].to][f]}
    BY <1>12 DEF CheckFiles, tree, history, Leave, Goto, command, Untouched, Record
  <2>2. EditsKept'
    BY <2>1, SameGrows, EditsStay
  <2>3. ASSUME NEW f \in Paths, f \in todo', edits[f] = installed[f]
        PROVE  edits[f] \in {Absent, records[cur].previous[f]}
    <3>1. CASE installed[f] = Release[records[cur].to][f]
      <4>1. edits[f] \in Nat
        BY <2>1, <2>3, <3>1, AtHand, Releases
      <4> QED BY <4>1, <1>0 DEF Absent
    <3> QED BY <2>1, <2>3, <3>1
  <2> QED BY <2>1, <2>2, <2>3 DEF Kept, Overwrites
<1>13. ASSUME Reset PROVE Kept' /\ EditsKept'
  <2>1. pc # "idle" /\ Switch(Record.from) /\ UNCHANGED <<records, edits, raced>> /\ pc' = "verified"
    BY <1>13 DEF Reset, history, Goto
  <2>2. Grown /\ Record.from \in Versions
    BY <2>1, SameGrows, AtHand DEF Record
  <2>4. ASSUME NEW f \in Paths, installed'[f] # installed[f], edits[f] = installed[f] PROVE edits[f] = Absent
    <3>1. edits[f] \in Nat
      BY <2>1, <2>2, <2>4, Switched, Releases DEF TypeOK
    <3> QED BY <3>1, <1>0 DEF Absent
  <2>5. EditsKept'
    BY <2>1, <2>2, <2>4, EditsStay
  <2> QED BY <2>1, <2>5 DEF Kept, Overwrites
<1>14. ASSUME Restored PROVE Kept' /\ EditsKept'
  <2>1. UNCHANGED <<records, installed, edits, raced>> /\ pc' = "verified"
    BY <1>14 DEF Restored, tree, history, Goto
  <2>2. EditsKept'
    BY <2>1, SameGrows, EditsStay
  <2> QED BY <2>1, <2>2 DEF Kept, Overwrites
<1>15. ASSUME RestoreFails PROVE Kept' /\ EditsKept'
  <2>1. pc # "idle" /\ (UNCHANGED records \/ Status("rollback-needed")) /\ "rollback-needed" \in Statuses
    BY <1>15 DEF RestoreFails, Statuses
  <2>2. Grown
    BY <2>1, StatusGrows, SameGrows
  <2>3. UNCHANGED <<installed, edits, raced>> /\ pc' = "idle"
    BY <1>15 DEF RestoreFails, tree, history, Leave, Goto, command
  <2>4. EditsKept'
    BY <2>2, <2>3, EditsStay
  <2> QED BY <2>3, <2>4 DEF Kept, Overwrites
<1>16. ASSUME NEW f \in Paths, Replace(f) PROVE Kept' /\ EditsKept'
  <2>1. /\ UNCHANGED <<records, cur, kind, pc, edits, raced>> /\ pc \in {"promote", "restore"} /\ ~Git
        /\ f \in todo /\ todo' = todo \ {f}
        /\ \A g \in Paths : g # f => installed'[g] = installed[g]
    BY <1>16 DEF Replace, history, TypeOK, Tree
  <2>2. edits[f] = installed[f] => edits[f] \in {Absent, records[cur].previous[f]} \cup raced
    BY <2>1 DEF Kept, Overwrites
  <2>3. cur \in DOMAIN records
    BY <2>1, AtHand
  <2>4. EditsKept'
    BY <2>1, <2>2, <2>3, SameGrows, EditsStay
  <2> QED BY <2>1, <2>4 DEF Kept, Overwrites, Git
<1>17. ASSUME NEW f \in Paths, Remove(f) PROVE Kept' /\ EditsKept'
  <2>1. /\ UNCHANGED <<records, cur, kind, pc, edits, raced>> /\ pc \in {"promote", "restore"} /\ ~Git
        /\ f \in todo /\ todo' = todo \ {f}
        /\ \A g \in Paths : g # f => installed'[g] = installed[g]
    BY <1>17 DEF Remove, history, TypeOK, Tree
  <2>2. edits[f] = installed[f] => edits[f] \in {Absent, records[cur].previous[f]} \cup raced
    BY <2>1 DEF Kept, Overwrites
  <2>3. cur \in DOMAIN records
    BY <2>1, AtHand
  <2>4. EditsKept'
    BY <2>1, <2>2, <2>3, SameGrows, EditsStay
  <2> QED BY <2>1, <2>4 DEF Kept, Overwrites, Git
<1>18. ASSUME Stop PROVE Kept' /\ EditsKept'
  <2>1. UNCHANGED <<records, installed, edits, raced>> /\ pc' \in {"idle", "check"}
    BY <1>18 DEF Stop, tree, history, Leave, Goto, command
  <2>2. EditsKept'
    BY <2>1, SameGrows, EditsStay
  <2> QED BY <2>1, <2>2 DEF Kept, Overwrites
<1>19. ASSUME NEW f \in Paths, Edit(f) PROVE Kept' /\ EditsKept'
  <2>1. /\ UNCHANGED <<records, cur, kind, pc, todo>> /\ made' \in Nat /\ made' > 0
        /\ edits'[f] = -made' /\ installed'[f] = -made'
        /\ \A g \in Paths : g # f => installed'[g] = installed[g] /\ edits'[g] = edits[g]
        /\ raced' = IF Overwrites(f) THEN raced \cup {-made'} ELSE raced
    <3>1. made' = made + 1 /\ made \in Nat
      BY <1>19 DEF Edit, TypeOK
    <3>2. /\ edits'[f] = -made' /\ installed'[f] = -made'
          /\ \A g \in Paths : g # f => installed'[g] = installed[g] /\ edits'[g] = edits[g]
      BY <1>19 DEF Edit, TypeOK, Tree
    <3> QED BY <1>19, <3>1, <3>2 DEF Edit, command
  <2>2. EditsKept'
    BY <2>1 DEF EditsKept
  <2>3. \A g \in Paths : edits'[g] <= 0
    <3>1. made' \in Nat
      BY <2>1
    <3>2. -made' <= 0
      BY <3>1, Negated
    <3> QED BY <2>1, <3>2, <1>0
  <2>4. ASSUME NEW g \in Paths, Overwrites(g)', edits'[g] = installed'[g]
        PROVE  edits'[g] \in {Absent, records'[cur'].previous[g]} \cup raced'
    <3>1. Overwrites(g)
      BY <2>1, <2>4 DEF Overwrites, Git
    <3>2. CASE g = f
      BY <3>1, <3>2, <2>1
    <3>3. CASE g # f
      BY <3>1, <3>3, <2>1, <2>4 DEF Kept
    <3> QED BY <3>2, <3>3
  <2> QED BY <2>1, <2>2, <2>3, <2>4 DEF Kept
<1>20. ASSUME NEW v \in Versions, Checkout(v) PROVE Kept' /\ EditsKept'
  <2>1. /\ UNCHANGED <<records, cur, kind, pc, todo, edits, raced>> /\ Git
        /\ head \in Versions /\ installed = Release[head]
    BY <1>20 DEF Checkout, tree, history, Leave, Goto, command, Clean, TypeOK
  <2>2. ASSUME NEW f \in Paths, edits[f] = installed[f] PROVE edits[f] = Absent
    <3>1. edits[f] \in Nat
      BY <2>1, <2>2, Releases
    <3> QED BY <3>1, <1>0 DEF Absent
  <2>3. EditsKept'
    BY <2>1, <2>2, SameGrows, EditsStay
  <2> QED BY <2>1, <2>3 DEF Kept, Overwrites, Git
<1>21. ASSUME NEW v \in Versions, Reinstall(v) PROVE Kept' /\ EditsKept'
  <2>1. \A f \in Paths : edits'[f] = Absent
    BY <1>21 DEF Reinstall, Nothing
  <2>2. pc = "idle" /\ pc' = "idle"
    BY <1>21 DEF Reinstall, command
  <2> QED BY <2>1, <2>2 DEF Kept, EditsKept, Overwrites, Absent
<1>22. ASSUME Prune PROVE Kept' /\ EditsKept'
  <2>1. pc = "idle" /\ pc' = "idle" /\ UNCHANGED <<records, raced>>
    BY <1>22 DEF Prune, command
  <2>2. PICK v \in Versions :
          /\ installed' = [f \in Paths |-> IF f \in Listed(Release[v]) THEN installed[f] ELSE Absent]
          /\ edits' = [f \in Paths |-> IF f \in Listed(Release[v]) THEN edits[f] ELSE Absent]
    BY <1>22 DEF Prune
  <2>3. \A f \in Paths : edits'[f] = Absent \/ (edits'[f] = edits[f] /\ installed'[f] = installed[f])
    BY <2>2
  <2>4. EditsKept'
    BY <2>1, <2>3 DEF EditsKept
  <2>5. \A f \in Paths : edits'[f] <= 0
    BY <2>3, <1>0 DEF Absent
  <2> QED BY <2>1, <2>4, <2>5 DEF Kept, Overwrites
<1>23. CASE UNCHANGED vars
  BY <1>23 DEF vars, tree, command, history, Kept, EditsKept, Overwrites, Git
<1>24. ASSUME Promoted PROVE Kept' /\ EditsKept'
  <2>1. UNCHANGED <<records, installed, edits, raced>> /\ pc' = "verified"
    BY <1>24 DEF Promoted, tree, history, Goto
  <2>2. EditsKept'
    BY <2>1, SameGrows, EditsStay
  <2> QED BY <2>1, <2>2 DEF Kept, Overwrites
<1>25. ASSUME TakenBack PROVE Kept' /\ EditsKept'
  <2>1. pc # "idle" /\ Status(Taken) /\ Taken \in Statuses
    BY <1>25 DEF TakenBack, Statuses, Taken, Git
  <2>2. Grown
    BY <2>1, StatusGrows
  <2>3. UNCHANGED <<installed, edits, raced>> /\ pc' = "idle"
    BY <1>25 DEF TakenBack, tree, history, Leave, Goto, command
  <2>4. EditsKept'
    BY <2>2, <2>3, EditsStay
  <2> QED BY <2>3, <2>4 DEF Kept, Overwrites
<1> QED
  BY <1>1, <1>2, <1>3, <1>4, <1>5, <1>6, <1>7, <1>8, <1>9, <1>10, <1>11, <1>12, <1>13, <1>14, <1>15, <1>16, <1>17, <1>18, <1>19, <1>20, <1>21, <1>22, <1>23, <1>24, <1>25 DEF Next, Upgrading, Restoring, Replacing, Others

\* Before any upgrade the tree is the one that was installed.
LEMMA KeptInit == Init => Course /\ Kept /\ EditsKept
<1> SUFFICES ASSUME Init PROVE Course /\ Kept /\ EditsKept OBVIOUS
<1>1. \A f \in Paths : edits[f] = Absent
  BY DEF Init, Nothing
<1>2. pc = "idle" /\ back = "none"
  BY DEF Init
<1> QED BY <1>1, <1>2 DEF Course, Kept, EditsKept, Overwrites, Absent

\* Whatever a person wrote into an installed file is there, or in the previous
\* directory of an upgrade, unless it was written after the last look.
THEOREM EditsAreKept == Spec => []EditsKept
<1>1. Init => TypeOK /\ Course /\ Kept /\ EditsKept
  BY TypeInit, KeptInit
<1>2. TypeOK /\ Course /\ Kept /\ EditsKept /\ [Next]_vars => (TypeOK /\ Course /\ Kept /\ EditsKept)'
  BY TypeStep, CourseStep, KeptStep
<1> QED BY <1>1, <1>2, PTL DEF Spec

-----------------------------------------------------------------------------
(* What is installed in each phase. *)

Near(x, y) == x = y \/ Edited(x)

\* After the verification it is the tree that was wanted, but for later edits.
AsVerified ==
  IF back = "none"
    THEN \/ \A f \in Paths : installed[f] = Release[records[cur].to][f] \/ Since(installed[f])
         \/ Git /\ head # records[cur].to
    ELSE IF Git THEN head = records[cur].from \/ made > sure
                ELSE \A f \in Paths : installed[f] = records[cur].previous[f] \/ Since(installed[f])

\* Before the promotion it is the release the upgrade started from, with edits;
\* once the manifest is replaced the manifest says which release it becomes.
Placed ==
  /\ Git => \A f \in Paths : Near(installed[f], Release[head][f])
  /\ ~Git /\ pc \in {"validate", "validated", "copy"} =>
       \A f \in Paths : Near(installed[f], Release[records[cur].from][f])
  /\ ~Git /\ pc = "promote" /\ Manifest \notin todo =>
       Near(installed[Manifest], Release[records[cur].to][Manifest])
  /\ pc = "restore" =>
       \E v \in Versions : /\ records[cur].previous = Release[v]
                           /\ Manifest \notin todo => Near(installed[Manifest], Release[v][Manifest])
  /\ pc = "verified" => AsVerified

\* previous is the release the upgrade started from, with edits.
Previous(i) ==
  \A f \in Paths : LET p == records[i].previous[f] IN
    \/ p = Release[records[i].from][f]
    \/ Edited(p) /\ Release[records[i].from][f] # Absent

Mixed(i) ==
  \A f \in Paths : installed[f] \in {records[i].previous[f], Release[records[i].to][f]}
                   \/ Edited(installed[f])

Whole == \E v \in Versions : \A f \in Paths : Near(installed[f], Release[v][f])

\* The last upgrade that is not taken back.
Newest(i) == Open(i) /\ \A j \in DOMAIN records : j > i => ~Open(j)

Calm ==
  \/ older \/ Whole
  \/ \E i \in DOMAIN records : Newest(i) /\ Mixed(i) /\ (cut \/ records[i].status # "promoting")

\* previous is what upgrades started from: the open ones have all of it, and
\* the one that is copying has what it has copied.
Originals ==
  /\ \A i \in DOMAIN records : Open(i) => Previous(i)
  /\ pc \in {"validate", "validated", "copy"} => ~Open(cur)
  /\ pc = "copy" =>
       /\ todo \subseteq Listed(Release[records[cur].from])
       /\ \A f \in Paths \ todo :
            LET p == records[cur].previous[f] IN
            /\ Near(installed[f], p)
            /\ \/ p = Release[records[cur].from][f]
               \/ Edited(p) /\ Release[records[cur].from][f] # Absent

\* In an extracted release, a tree that mixes two releases is one of the newest
\* open upgrade, while a command runs and after it.
Way ==
  ~Git =>
    /\ Originals
    /\ pc = "promote" \/ (pc = "verified" /\ back = "none") \/ back = "fallback" => Mixed(cur)
    /\ pc = "verified" => Whole
    /\ back = "rollback" => older \/ Newest(cur)
    /\ pc = "idle" \/ (pc = "check" /\ back = "rollback") => Calm
    /\ pc = "restore" => older \/ Mixed(cur)

\* A tree with edits that verifies as a release is the one its manifest says.
LEMMA SoundManifest ==
  ASSUME Sound, NEW v \in Versions, Near(installed[Manifest], Release[v][Manifest])
  PROVE  installed = Release[v]
<1>1. PICK w \in Versions : installed = Release[w]
  BY DEF Sound, Verifies
<1>2. Release[w][Manifest] = Release[v][Manifest]
  BY <1>1, Releases DEF Near
<1> QED BY <1>1, <1>2, Releases

\* Every step keeps Placed.
LEMMA PlacedStep == TypeOK /\ Course /\ Placed /\ [Next]_vars => Placed'
<1> SUFFICES ASSUME TypeOK, Course, Placed, [Next]_vars PROVE Placed'
  OBVIOUS
<1>1. ASSUME NEW v \in Versions, Begin(v) PROVE Placed'
  <2>1. UNCHANGED <<kind, installed, head>> /\ pc' = "validate" /\ pc = "idle"
    BY <1>1 DEF Begin, tree, history, Leave, Goto, command
  <2>2. installed = Release[records'[cur'].from]
    BY <1>1, Begun
  <2> QED BY <2>1, <2>2 DEF Placed, Near, Git
<1>2. ASSUME Validate PROVE Placed'
  <2>1. UNCHANGED <<kind, installed, head>> /\ pc' \in {"validated", "copy"} /\ pc \in {"validate", "validated"} /\ UNCHANGED <<records, cur>>
    BY <1>2 DEF Validate, tree, history, Leave, Goto, command
  <2> QED BY <2>1 DEF Placed, Near, Git
<1>3. ASSUME Preview PROVE Placed'
  <2>1. UNCHANGED <<kind, installed, head>> /\ pc' \in {"idle", "check"}
    BY <1>3 DEF Preview, tree, history, Leave, Goto, command
  <2> QED BY <2>1 DEF Placed, Near, Git
<1>4. ASSUME VerifyAgain PROVE Placed'
  <2>1. UNCHANGED <<kind, installed, head>> /\ pc' \in {"validated", "copy"} /\ pc \in {"validate", "validated"} /\ UNCHANGED <<records, cur>>
    BY <1>4 DEF VerifyAgain, tree, history, Leave, Goto, command
  <2> QED BY <2>1 DEF Placed, Near, Git
<1>5. ASSUME Reject PROVE Placed'
  <2>1. UNCHANGED <<kind, installed, head>> /\ pc' \in {"idle", "check"}
    BY <1>5 DEF Reject, tree, history, Leave, Goto, command
  <2> QED BY <2>1 DEF Placed, Near, Git
<1>6. ASSUME NEW f \in Paths, CopyPrevious(f) PROVE Placed'
  <2>1. UNCHANGED <<kind, installed, head>> /\ pc = "copy" /\ pc' = "copy" /\ UNCHANGED cur
    BY <1>6 DEF CopyPrevious, tree, history, Leave, Goto, command
  <2>2. records'[cur].from = records[cur].from
    BY <1>6, PreviousSet
  <2> QED BY <2>1, <2>2 DEF Placed, Near, Git
<1>7. ASSUME StartPromotion PROVE Placed'
  <2>1. UNCHANGED <<kind, installed, head>> /\ pc = "copy" /\ pc' = "promote"
        /\ (~Git => todo' = Listed(Release[records[cur].from]) \cup Listed(Release[records[cur].to]))
    BY <1>7 DEF StartPromotion, tree, history, Leave, Goto, command, Record
  <2>2. records[cur].from \in Versions
    BY <2>1, AtHand
  <2>3. ~Git => Manifest \in todo'
    BY <2>1, <2>2, Releases DEF Listed
  <2> QED BY <2>1, <2>3 DEF Placed, Near, Git
<1>8. ASSUME Merge PROVE Placed'
  <2>1. (Switch(Record.to) \/ UNCHANGED <<kind, installed, head>>) /\ pc # "idle" /\ pc' = "merged" /\ Git /\ UNCHANGED kind
    BY <1>8 DEF Merge, tree, history, Leave, Goto, command, Switch
  <2>2. Record.to \in Versions
    BY <2>1, AtHand DEF Record
  <2>3. CASE Switch(Record.to)
    <3>1. \A f \in Paths : Near(installed'[f], Release[head'][f])
      BY <2>1, <2>2, <2>3, Switched DEF Placed, Near
    <3> QED BY <2>1, <3>1 DEF Placed, Git
  <2>4. CASE UNCHANGED <<kind, installed, head>>
    BY <2>1, <2>4 DEF Placed, Near, Git
  <2> QED BY <2>1, <2>3, <2>4
<1>9. ASSUME Applied PROVE Placed'
  <2>1. UNCHANGED <<kind, installed, head>> /\ pc' \in {"idle", "check"}
    BY <1>9 DEF Applied, tree, history, Leave, Goto, command
  <2> QED BY <2>1 DEF Placed, Near, Git
<1>10. ASSUME PromotionFails PROVE Placed'
  <2>1. UNCHANGED <<kind, installed, head>> /\ pc' \in {"idle", "check"}
    BY <1>10 DEF PromotionFails, tree, history, Leave, Goto, command
  <2> QED BY <2>1 DEF Placed, Near, Git
<1>11. ASSUME NEW i \in 1..MaxRuns, StartRollback(i) PROVE Placed'
  <2>1. UNCHANGED <<kind, installed, head>> /\ pc' \in {"idle", "check"}
    BY <1>11 DEF StartRollback, tree, history, Leave, Goto, command
  <2> QED BY <2>1 DEF Placed, Near, Git
<1>12. ASSUME CheckFiles PROVE Placed'
  <2>1. /\ UNCHANGED <<kind, installed, head>> /\ ~Git /\ pc' = "restore" /\ UNCHANGED <<records, cur>>
        /\ todo' = Listed(records[cur].previous) \cup Listed(Release[records[cur].to])
        /\ \E v \in Versions : records[cur].previous = Release[v]
    BY <1>12 DEF CheckFiles, tree, history, Leave, Goto, command, Record, Verifies
  <2>2. PICK v \in Versions : records[cur].previous = Release[v]
    BY <2>1
  <2>3. Manifest \in todo'
    BY <2>1, <2>2, Releases DEF Listed
  <2> QED BY <2>1, <2>2, <2>3 DEF Placed, Git
<1>13. ASSUME Reset PROVE Placed'
  <2>1. Switch(Record.from) /\ pc = "check" /\ pc' = "verified" /\ Git /\ UNCHANGED <<records, cur, back>>
    BY <1>13 DEF Reset, Goto
  <2>2. Record.from \in Versions
    BY <2>1, AtHand DEF Record
  <2>3. \A f \in Paths : Near(installed'[f], Release[head'][f])
    BY <2>1, <2>2, Switched DEF Placed, Near
  <2>4. UNCHANGED kind /\ head' = records[cur].from
    BY <2>1 DEF Switch, Record
  <2>5. back # "none"
    BY <2>1 DEF Course
  <2>6. AsVerified'
    BY <2>1, <2>4, <2>5 DEF AsVerified, Git
  <2> QED BY <2>1, <2>3, <2>4, <2>6 DEF Placed, Git
<1>14. ASSUME Restored PROVE Placed'
  <2>1. /\ pc = "restore" /\ pc' = "verified" /\ Sound /\ Manifest \notin todo
        /\ UNCHANGED <<kind, installed, head, records, cur, back>>
    BY <1>14 DEF Restored, tree, Goto
  <2>2. installed = records[cur].previous /\ ~Git /\ back # "none"
    BY <2>1, SoundManifest DEF Placed, Course
  <2>3. AsVerified'
    BY <2>1, <2>2 DEF AsVerified, Git
  <2> QED BY <2>1, <2>2, <2>3 DEF Placed, Git
<1>15. ASSUME RestoreFails PROVE Placed'
  <2>1. UNCHANGED <<kind, installed, head>> /\ pc' \in {"idle", "check"}
    BY <1>15 DEF RestoreFails, tree, history, Leave, Goto, command
  <2> QED BY <2>1 DEF Placed, Near, Git
<1>16. ASSUME NEW f \in Paths, Replace(f) PROVE Placed'
  <2>1. /\ UNCHANGED <<kind, records, cur, pc>> /\ ~Git /\ pc \in {"promote", "restore"}
        /\ f \in todo /\ todo' = todo \ {f}
        /\ \A g \in Paths : g # f => installed'[g] = installed[g]
    BY <1>16 DEF Replace, history, TypeOK, Tree
  <2>2. installed'[f] = Sources[f]
    BY <1>16 DEF Replace, TypeOK, Tree
  <2>3. CASE pc = "promote"
    <3>1. Sources = Release[records[cur].to] /\ records[cur].to \in Versions
      BY <2>3, AtHand DEF Sources, Record
    <3>2. Manifest \notin todo' => Near(installed'[Manifest], Release[records[cur].to][Manifest])
      BY <2>1, <2>2, <2>3, <3>1, Releases DEF Placed, Near
    <3> QED BY <2>1, <2>3, <3>2 DEF Placed, Git
  <2>4. CASE pc = "restore"
    <3>1. PICK v \in Versions :
            /\ records[cur].previous = Release[v]
            /\ Manifest \notin todo => Near(installed[Manifest], Release[v][Manifest])
      BY <2>4 DEF Placed
    <3>2. Sources = Release[v]
      BY <2>4, <3>1 DEF Sources, Record
    <3>3. Manifest \notin todo' => Near(installed'[Manifest], Release[v][Manifest])
      BY <2>1, <2>2, <3>1, <3>2, Releases DEF Near, Listed
    <3> QED BY <2>1, <2>4, <3>1, <3>3 DEF Placed, Git
  <2> QED BY <2>1, <2>3, <2>4
<1>17. ASSUME NEW f \in Paths, Remove(f) PROVE Placed'
  <2>1. /\ UNCHANGED <<kind, records, cur, pc>> /\ ~Git /\ pc \in {"promote", "restore"}
        /\ f \in todo /\ todo' = todo \ {f}
        /\ \A g \in Paths : g # f => installed'[g] = installed[g]
    BY <1>17 DEF Remove, history, TypeOK, Tree
  <2>2. f \notin Listed(Sources)
    BY <1>17 DEF Remove
  <2>3. CASE pc = "promote"
    <3>1. Sources = Release[records[cur].to] /\ records[cur].to \in Versions
      BY <2>3, AtHand DEF Sources, Record
    <3>2. Manifest \notin todo' => Near(installed'[Manifest], Release[records[cur].to][Manifest])
      BY <2>1, <2>2, <2>3, <3>1, Releases DEF Placed, Near, Listed
    <3> QED BY <2>1, <2>3, <3>2 DEF Placed, Git
  <2>4. CASE pc = "restore"
    <3>1. PICK v \in Versions :
            /\ records[cur].previous = Release[v]
            /\ Manifest \notin todo => Near(installed[Manifest], Release[v][Manifest])
      BY <2>4 DEF Placed
    <3>2. Sources = Release[v]
      BY <2>4, <3>1 DEF Sources, Record
    <3>3. Manifest \notin todo' => Near(installed'[Manifest], Release[v][Manifest])
      BY <2>1, <2>2, <3>1, <3>2, Releases DEF Near, Listed
    <3> QED BY <2>1, <2>4, <3>1, <3>3 DEF Placed, Git
  <2> QED BY <2>1, <2>3, <2>4
<1>18. ASSUME Stop PROVE Placed'
  <2>1. UNCHANGED <<kind, installed, head>> /\ pc' \in {"idle", "check"}
    BY <1>18 DEF Stop, tree, history, Leave, Goto, command
  <2> QED BY <2>1 DEF Placed, Near, Git
<1>19. ASSUME NEW f \in Paths, Edit(f) PROVE Placed'
  <2>1. /\ UNCHANGED <<kind, head, records, cur, pc, todo>>
        /\ \A g \in Paths : installed'[g] = installed[g] \/ Edited(installed'[g])
    <3>1. made \in Nat /\ made' = made + 1
      BY <1>19 DEF Edit, TypeOK
    <3>2. Edited(-made')
      BY <3>1 DEF Edited
    <3>3. installed' = [installed EXCEPT ![f] = -made']
      BY <1>19 DEF Edit
    <3>4. \A g \in Paths : installed'[g] = installed[g] \/ Edited(installed'[g])
      BY <3>2, <3>3 DEF TypeOK, Tree
    <3> QED BY <1>19, <3>4 DEF Edit, command
  <2>2. \A g \in Paths : \A x : Near(installed[g], x) => Near(installed'[g], x)
    BY <2>1 DEF Near
  <2>3. Manifest \in Paths
    BY Releases
  <2>4. Git' => \A g \in Paths : Near(installed'[g], Release[head'][g])
    BY <2>1, <2>2 DEF Placed, Git
  <2>5. ~Git' /\ pc' \in {"validate", "validated", "copy"} =>
          \A g \in Paths : Near(installed'[g], Release[records'[cur'].from][g])
    BY <2>1, <2>2 DEF Placed, Git
  <2>6. ~Git' /\ pc' = "promote" /\ Manifest \notin todo' =>
          Near(installed'[Manifest], Release[records'[cur'].to][Manifest])
    BY <2>1, <2>2, <2>3 DEF Placed, Git
  <2>7. pc' = "restore" =>
          \E v \in Versions : /\ records'[cur'].previous = Release[v]
                              /\ Manifest \notin todo' => Near(installed'[Manifest], Release[v][Manifest])
    BY <2>1, <2>2, <2>3 DEF Placed
  <2>8. \A g \in Paths : installed'[g] = installed[g] \/ installed'[g] < -sure
    <3>1. made \in Nat /\ made' = made + 1 /\ sure \in 0..made
      BY <1>19 DEF Edit, TypeOK
    <3>2. -made' < -sure
      BY <3>1
    <3>3. \A g \in Paths : installed'[g] = installed[g] \/ installed'[g] = -made'
      BY <1>19 DEF Edit, TypeOK, Tree
    <3> QED BY <3>2, <3>3
  <2>9. UNCHANGED <<sure, back>> /\ made' > made /\ made \in Nat /\ made' \in Nat /\ sure \in Nat
    BY <1>19 DEF Edit, TypeOK, command
  <2>10. pc' = "verified" => AsVerified'
    <3> SUFFICES ASSUME pc' = "verified", AsVerified PROVE AsVerified'
      BY <2>1 DEF Placed
    <3>1. CASE back = "none"
      BY <2>1, <2>8, <2>9, <3>1 DEF AsVerified, Since, Git
    <3>2. CASE back # "none" /\ Git
      <4>1. head = records[cur].from \/ made > sure
        BY <3>2 DEF AsVerified
      <4>2. head' = records'[cur'].from \/ made' > sure'
        BY <4>1, <2>1, <2>9
      <4>3. back' # "none" /\ Git'
        BY <3>2, <2>1, <2>9 DEF Git
      <4> QED BY <4>2, <4>3 DEF AsVerified
    <3>3. CASE back # "none" /\ ~Git
      BY <2>1, <2>8, <2>9, <3>3 DEF AsVerified, Since, Git
    <3> QED BY <3>1, <3>2, <3>3
  <2> QED BY <2>4, <2>5, <2>6, <2>7, <2>10 DEF Placed
<1>20. ASSUME NEW v \in Versions, Checkout(v) PROVE Placed'
  <2>1. /\ UNCHANGED <<kind, records, cur, pc, todo>> /\ Git
        /\ installed' = Release[head']
    BY <1>20 DEF Checkout, tree, history, Leave, Goto, command
  <2>2. pc # "restore"
    BY <2>1 DEF Course
  <2>3. UNCHANGED <<sure, back>> /\ made' = made + 1 /\ made \in Nat /\ sure \in 0..made
    BY <1>20 DEF Checkout, TypeOK, command
  <2>4. pc' = "verified" => AsVerified'
    <3>4. made' > sure'
      BY <2>3
    <3>5. Git'
      BY <2>1 DEF Git
    <3>1. made' > sure' /\ Git'
      BY <3>4, <3>5
    <3>2. ASSUME back' = "none" PROVE AsVerified'
      <4>1. CASE head' = records'[cur'].to
        <5>1. \A f \in Paths : installed'[f] = Release[records'[cur'].to][f]
          BY <2>1, <4>1
        <5> QED BY <3>2, <5>1 DEF AsVerified
      <4>2. CASE head' # records'[cur'].to
        BY <3>1, <3>2, <4>2 DEF AsVerified
      <4> QED BY <4>1, <4>2
    <3>3. ASSUME back' # "none" PROVE AsVerified'
      BY <3>1, <3>3 DEF AsVerified
    <3> QED BY <3>2, <3>3
  <2> QED BY <2>1, <2>2, <2>4 DEF Placed, Near, Git
<1>21. ASSUME NEW v \in Versions, Reinstall(v) PROVE Placed'
  <2>1. ~Git /\ pc' = "idle" /\ UNCHANGED kind
    BY <1>21 DEF Reinstall, command
  <2> QED BY <2>1 DEF Placed, Git
<1>22. ASSUME Prune PROVE Placed'
  <2>1. ~Git /\ pc' = "idle" /\ UNCHANGED kind
    BY <1>22 DEF Prune, command
  <2> QED BY <2>1 DEF Placed, Git
<1>23. CASE UNCHANGED vars
  BY <1>23 DEF vars, tree, command, history, Placed, AsVerified, Since, Near, Git
<1>24. ASSUME Promoted PROVE Placed'
  <2>1. /\ IF Git THEN pc = "merged" ELSE pc = "promote" /\ Manifest \notin todo
        /\ Sound /\ pc # "idle" /\ pc' = "verified"
        /\ UNCHANGED <<kind, installed, head, records, cur, back>>
    BY <1>24 DEF Promoted, PromotionDone, tree, Goto, Git
  <2>2. records[cur].to \in Versions
    BY <2>1, AtHand
  <2>3. installed = Release[records[cur].to] \/ (Git /\ head # records[cur].to)
    <3>1. Near(installed[Manifest], Release[records[cur].to][Manifest]) \/ (Git /\ head # records[cur].to)
      BY <2>1, Releases DEF Placed
    <3> QED BY <2>1, <2>2, <3>1, SoundManifest
  <2>4. back = "none"
    BY <2>1 DEF Course
  <2>5. AsVerified'
    BY <2>1, <2>3, <2>4 DEF AsVerified, Git
  <2> QED BY <2>1, <2>5 DEF Placed, Git
<1>25. ASSUME TakenBack PROVE Placed'
  <2>1. UNCHANGED <<kind, installed, head>> /\ pc' \in {"idle", "check"}
    BY <1>25 DEF TakenBack, tree, history, Leave, Goto, command
  <2> QED BY <2>1 DEF Placed, Near, Git
<1> QED
  BY <1>1, <1>2, <1>3, <1>4, <1>5, <1>6, <1>7, <1>8, <1>9, <1>10, <1>11, <1>12, <1>13, <1>14, <1>15, <1>16, <1>17, <1>18, <1>19, <1>20, <1>21, <1>22, <1>23, <1>24, <1>25 DEF Next, Upgrading, Restoring, Replacing, Others

\* What the record of an upgrade may say when its status changes.
StatusStep ==
  \A i \in DOMAIN records :
    LET r == records'[i] IN
    r.status # records[i].status =>
      /\ r.status = "applied" =>
           \/ \A f \in Paths : installed'[f] = Release[r.to][f] \/ Since(installed'[f])
           \/ (Git /\ head # r.to)
      /\ r.status \in {"rolled-back", "rolled-back-after-failure"} =>
           IF Git THEN head' = r.from \/ made > sure
                  ELSE \A f \in Paths : installed'[f] = r.previous[f] \/ Since(installed'[f])
      /\ r.status \in {"rejected", "validated-not-applied"} =>
           \/ \A f \in Paths : installed'[f] = Release[r.from][f] \/ Edited(installed'[f])
           \/ (Git /\ head # r.from)

\* Every step writes a status its transition allows.
LEMMA StatusSteps == TypeOK /\ Course /\ Placed /\ [Next]_vars => StatusStep
<1> SUFFICES ASSUME TypeOK, Course, Placed, [Next]_vars PROVE StatusStep
  OBVIOUS
<1>1. ASSUME NEW v \in Versions, Begin(v) PROVE StatusStep
  <2>1. \A i \in DOMAIN records : records'[i] = records[i]
    BY <1>1, Begun
  <2> QED BY <2>1 DEF StatusStep
<1>2. ASSUME Validate PROVE StatusStep
  BY <1>2 DEF Validate, StatusStep, command
<1>3. ASSUME Preview PROVE StatusStep
  <2>1. pc \in {"validate", "validated", "copy"} /\ Status("validated-not-applied") /\ "validated-not-applied" \in Statuses
        /\ UNCHANGED <<installed, head>>
    BY <1>3 DEF Preview, Statuses, tree
  <2>2. /\ Grown /\ cur \in DOMAIN records /\ records'[cur].status = "validated-not-applied"
        /\ \A i \in DOMAIN records : i # cur => records'[i] = records[i]
    BY <2>1, StatusGrows
  <2>3. \/ \A f \in Paths : installed[f] = Release[records[cur].from][f] \/ Edited(installed[f])
        \/ (Git /\ head # records[cur].from)
    BY <2>1 DEF Placed, Near
  <2> QED BY <2>1, <2>2, <2>3 DEF StatusStep, Grown
<1>4. ASSUME VerifyAgain PROVE StatusStep
  BY <1>4 DEF VerifyAgain, StatusStep, command
<1>5. ASSUME Reject PROVE StatusStep
  <2>1. pc \in {"validate", "validated", "copy"} /\ Status("rejected") /\ "rejected" \in Statuses
        /\ UNCHANGED <<installed, head>>
    BY <1>5 DEF Reject, Statuses, tree
  <2>2. /\ Grown /\ cur \in DOMAIN records /\ records'[cur].status = "rejected"
        /\ \A i \in DOMAIN records : i # cur => records'[i] = records[i]
    BY <2>1, StatusGrows
  <2>3. \/ \A f \in Paths : installed[f] = Release[records[cur].from][f] \/ Edited(installed[f])
        \/ (Git /\ head # records[cur].from)
    BY <2>1 DEF Placed, Near
  <2> QED BY <2>1, <2>2, <2>3 DEF StatusStep, Grown
<1>6. ASSUME NEW f \in Paths, CopyPrevious(f) PROVE StatusStep
  <2>1. \A i \in DOMAIN records : records'[i].status = records[i].status
    BY <1>6, PreviousSet
  <2> QED BY <2>1 DEF StatusStep
<1>7. ASSUME StartPromotion PROVE StatusStep
  <2>1. pc # "idle" /\ Status("promoting") /\ "promoting" \in Statuses
    BY <1>7 DEF StartPromotion, Statuses
  <2>2. /\ records'[cur].status = "promoting" /\ \A i \in DOMAIN records : i # cur => records'[i] = records[i]
    BY <2>1, StatusGrows
  <2> QED BY <2>2 DEF StatusStep
<1>8. ASSUME Merge PROVE StatusStep
  BY <1>8 DEF Merge, StatusStep, command
<1>9. ASSUME Applied PROVE StatusStep
  <2>1. /\ pc = "verified" /\ back = "none" /\ Status("applied") /\ "applied" \in Statuses
        /\ UNCHANGED <<installed, head>>
    BY <1>9 DEF Applied, Statuses, tree
  <2>2. /\ Grown /\ cur \in DOMAIN records /\ records'[cur].status = "applied"
        /\ \A i \in DOMAIN records : i # cur => records'[i] = records[i]
    BY <2>1, StatusGrows
  <2>3. \/ \A f \in Paths : installed[f] = Release[records[cur].to][f] \/ Since(installed[f])
        \/ (Git /\ head # records[cur].to)
    BY <2>1 DEF Placed, AsVerified
  <2> QED BY <2>1, <2>2, <2>3 DEF StatusStep, Grown
<1>10. ASSUME PromotionFails PROVE StatusStep
  BY <1>10 DEF PromotionFails, StatusStep, command
<1>11. ASSUME NEW i \in 1..MaxRuns, StartRollback(i) PROVE StatusStep
  BY <1>11 DEF StartRollback, StatusStep, command
<1>12. ASSUME CheckFiles PROVE StatusStep
  BY <1>12 DEF CheckFiles, StatusStep, command
<1>13. ASSUME Reset PROVE StatusStep
  BY <1>13 DEF Reset, StatusStep
<1>14. ASSUME Restored PROVE StatusStep
  BY <1>14 DEF Restored, StatusStep
<1>15. ASSUME RestoreFails PROVE StatusStep
  <2>1. pc # "idle" /\ (UNCHANGED records \/ Status("rollback-needed")) /\ "rollback-needed" \in Statuses
    BY <1>15 DEF RestoreFails, Statuses
  <2>2. CASE UNCHANGED records
    BY <2>2 DEF StatusStep
  <2>3. CASE Status("rollback-needed")
    <3>1. records'[cur].status = "rollback-needed" /\ \A i \in DOMAIN records : i # cur => records'[i] = records[i]
      BY <2>1, <2>3, StatusGrows
    <3> QED BY <3>1 DEF StatusStep
  <2> QED BY <2>1, <2>2, <2>3
<1>16. ASSUME NEW f \in Paths, Replace(f) PROVE StatusStep
  BY <1>16 DEF Replace, StatusStep, command
<1>17. ASSUME NEW f \in Paths, Remove(f) PROVE StatusStep
  BY <1>17 DEF Remove, StatusStep, command
<1>18. ASSUME Stop PROVE StatusStep
  BY <1>18 DEF Stop, StatusStep, command
<1>19. ASSUME NEW f \in Paths, Edit(f) PROVE StatusStep
  BY <1>19 DEF Edit, StatusStep, command
<1>20. ASSUME NEW v \in Versions, Checkout(v) PROVE StatusStep
  BY <1>20 DEF Checkout, StatusStep, command
<1>21. ASSUME NEW v \in Versions, Reinstall(v) PROVE StatusStep
  BY <1>21 DEF Reinstall, StatusStep, command
<1>22. ASSUME Prune PROVE StatusStep
  BY <1>22 DEF Prune, StatusStep, command
<1>23. CASE UNCHANGED vars
  BY <1>23 DEF vars, StatusStep
<1>24. ASSUME Promoted PROVE StatusStep
  BY <1>24 DEF Promoted, StatusStep
<1>25. ASSUME TakenBack PROVE StatusStep
  <2>1. pc = "verified" /\ back # "none" /\ Status(Taken) /\ Taken \in {"rolled-back", "rolled-back-after-failure"}
        /\ UNCHANGED <<installed, head, made>>
    BY <1>25 DEF TakenBack, Taken, tree, history
  <2>2. /\ Grown /\ cur \in DOMAIN records /\ records'[cur].status = Taken
        /\ \A i \in DOMAIN records : i # cur => records'[i] = records[i]
    BY <2>1, StatusGrows DEF Statuses
  <2>3. IF Git THEN head = records[cur].from \/ made > sure
               ELSE \A f \in Paths : installed[f] = records[cur].previous[f] \/ Since(installed[f])
    BY <2>1 DEF Placed, AsVerified
  <2> QED BY <2>1, <2>2, <2>3 DEF StatusStep, Grown
<1> QED
  BY <1>1, <1>2, <1>3, <1>4, <1>5, <1>6, <1>7, <1>8, <1>9, <1>10, <1>11, <1>12, <1>13, <1>14, <1>15, <1>16, <1>17, <1>18, <1>19, <1>20, <1>21, <1>22, <1>23, <1>24, <1>25 DEF Next, Upgrading, Restoring, Replacing, Others

\* No file has been replaced at the start.
LEMMA PlacedInit == Init => Placed
BY DEF Init, Placed, Near

\* What upgrade.nuon says when a command ends is true of the installed files.
THEOREM StatusesAreTrue == Spec => StatusIsTrue
<1>1. Init => TypeOK /\ Course /\ Placed
  BY TypeInit, KeptInit, PlacedInit
<1>2. TypeOK /\ Course /\ Placed /\ [Next]_vars => (TypeOK /\ Course /\ Placed)'
  BY TypeStep, CourseStep, PlacedStep
<1>3. TypeOK /\ Course /\ Placed /\ [Next]_vars => StatusStep
  BY StatusSteps
<1> QED BY <1>1, <1>2, <1>3, PTL DEF Spec, StatusIsTrue, StatusStep

-----------------------------------------------------------------------------
(* The way back *)

\* No more than edits happen to the installed files.
Left == \A f \in Paths : installed'[f] = installed[f] \/ Edited(installed'[f])

\* The tree an upgrade started from stays the same while records only grow.
LEMMA PreviousStays ==
  ASSUME NEW i \in DOMAIN records, Grown, Previous(i) PROVE Previous(i)'
BY DEF Grown, Previous

\* A tree stays a mix of an upgrade's two versions while only edits touch it.
LEMMA MixedStays ==
  ASSUME NEW i \in DOMAIN records, Grown, Left, Mixed(i) PROVE Mixed(i)'
BY DEF Grown, Left, Mixed

\* A tree of one version stays one while only edits touch it.
LEMMA WholeStays == ASSUME Left, Whole PROVE Whole'
BY DEF Left, Whole, Near

\* A tree only edits touch is whole, or has its way back, as before.
LEMMA CalmStays ==
  ASSUME Left, Calm, UNCHANGED records, older => older', cut => cut' PROVE Calm'
<1>1. CASE older \/ Whole
  BY <1>1, WholeStays DEF Calm
<1>2. CASE \E i \in DOMAIN records : Newest(i) /\ Mixed(i) /\ (cut \/ records[i].status # "promoting")
  <2>1. PICK i \in DOMAIN records : Newest(i) /\ Mixed(i) /\ (cut \/ records[i].status # "promoting")
    BY <1>2
  <2>2. Mixed(i)'
    BY <2>1, MixedStays, SameGrows
  <2>3. Newest(i)'
    BY <2>1 DEF Newest, Open
  <2> QED BY <2>1, <2>2, <2>3 DEF Calm
<1> QED BY <1>1, <1>2 DEF Calm

\* A tree that verifies is whole, and so is one between two phases that changed nothing.
LEMMA SoundIsWhole == ASSUME Sound PROVE Whole
BY DEF Sound, Verifies, Whole, Near

\* Before its first replacement an upgrade has left the tree whole.
LEMMA EarlyIsWhole ==
  ASSUME TypeOK, Placed, ~Git, pc \in {"validate", "validated", "copy"} PROVE Whole
BY AtHand DEF Placed, Whole

\* A promotion, a fallback or a rollback in progress is that of the newest open upgrade.
LEMMA HandIsNewest ==
  ASSUME TypeOK, Course, Way, ~Git,
         pc = "promote" \/ pc = "restore" \/ (pc = "check" /\ back = "fallback")
  PROVE  /\ cur \in DOMAIN records
         /\ older \/ (Newest(cur) /\ Mixed(cur))
         /\ records[cur].status = "promoting" => pc = "promote" \/ back = "fallback"
<1>1. cur \in DOMAIN records
  BY AtHand
<1>2. CASE back = "rollback"
  <2>1. pc = "restore"
    BY <1>2 DEF Course
  <2> QED BY <1>1, <1>2, <2>1 DEF Course, Way
<1>3. CASE back # "rollback"
  <2>1. (pc = "promote" \/ back = "fallback") /\ cur = Len(records)
    BY <1>3 DEF Course, TypeOK
  <2>2. \A j \in DOMAIN records : ~(j > cur)
    BY <2>1 DEF TypeOK
  <2>3. records[cur].status = "promoting"
    BY <2>1 DEF Course
  <2> QED BY <1>1, <2>1, <2>2, <2>3 DEF Way, Newest, Open
<1> QED BY <1>2, <1>3

\* The open upgrades keep the trees they started from.
LEMMA Originals1 ==
  ASSUME Originals, UNCHANGED records, pc' \in {"idle", "promote", "check", "restore", "merged", "verified"}
  PROVE  Originals'
<1>1. \A i \in DOMAIN records : Open(i)' => Open(i)
  BY DEF Open
<1>2. \A i \in DOMAIN records : Open(i)' => Previous(i)'
  BY <1>1, PreviousStays, SameGrows DEF Originals
<1> QED BY <1>2 DEF Originals

\* A status set after the copy to one that is open only if it was.
LEMMA Originals2 ==
  ASSUME TypeOK, Originals, pc # "idle", NEW s \in Statuses, Status(s),
         s \in {"applied", "rollback-needed", "promoting"} => Open(cur),
         pc' \in {"idle", "promote", "check", "restore", "merged", "verified"}
  PROVE  Originals'
<1>1. /\ Grown /\ DOMAIN records' = DOMAIN records
      /\ cur \in DOMAIN records /\ records'[cur].status = s
      /\ \A i \in DOMAIN records : i # cur => records'[i] = records[i]
  BY StatusGrows
<1>2. ASSUME NEW i \in DOMAIN records, Open(i)' PROVE Open(i)
  <2>1. CASE i = cur
    BY <1>1, <1>2, <2>1 DEF Open
  <2>2. CASE i # cur
    BY <1>1, <1>2, <2>2 DEF Open
  <2> QED BY <2>1, <2>2
<1>3. \A i \in DOMAIN records : Open(i)' => Previous(i)'
  BY <1>1, <1>2, PreviousStays DEF Originals
<1> QED BY <1>1, <1>3 DEF Originals

\* Every step keeps Way.
LEMMA WayStep ==
  TypeOK /\ Course /\ Kept /\ Placed /\ Way /\ Course' /\ [Next]_vars => Way'
<1> SUFFICES ASSUME TypeOK, Course, Kept, Placed, Way, Course', [Next]_vars, ~Git' PROVE Way'
  BY DEF Way
<1>1. ASSUME NEW v \in Versions, Begin(v) PROVE Way'
  <2>1. ~Git /\ pc' = "validate" /\ back' = "none"
    BY <1>1 DEF Begin, tree, history, Leave, Goto, command, Git, Course
  <2>2. /\ DOMAIN records' = DOMAIN records \cup {cur'} /\ Grown
        /\ \A i \in DOMAIN records : records'[i] = records[i]
        /\ records'[cur'].status = "staged"
    BY <1>1, Begun DEF Grown
  <2>3. ASSUME NEW i \in DOMAIN records', Open(i)' PROVE Previous(i)'
    <3>1. i \in DOMAIN records /\ Open(i)
      BY <2>2, <2>3 DEF Open
    <3> QED BY <2>1, <2>2, <3>1, PreviousStays DEF Way, Originals
  <2>4. ~Open(cur)'
    BY <2>2 DEF Open
  <2> QED BY <2>1, <2>3, <2>4 DEF Way, Originals
<1>2. ASSUME Validate PROVE Way'
  <2>1. ~Git /\ pc = "validate" /\ pc' = "validated" /\ back' = "none" /\ UNCHANGED <<records, cur>>
    BY <1>2 DEF Validate, tree, history, Leave, Goto, command, Git, Course
  <2>2. \A i \in DOMAIN records : Open(i)' => Previous(i)'
    BY <2>1, PreviousStays, SameGrows DEF Way, Originals, Open
  <2>3. ~Open(cur)'
    BY <2>1 DEF Way, Originals, Open
  <2> QED BY <2>1, <2>2, <2>3 DEF Way, Originals
<1>3. ASSUME Preview PROVE Way'
  <2>1. /\ ~Git /\ pc \in {"validate", "validated", "copy"} /\ pc' = "idle" /\ back' = "none"
        /\ Status("validated-not-applied") /\ UNCHANGED installed
    BY <1>3 DEF Preview, tree, history, Leave, Goto, command, Git
  <2>2. Originals'
    BY <2>1, Originals2 DEF Way, Statuses
  <2>3. Whole'
    BY <2>1, EarlyIsWhole, WholeStays DEF Left
  <2> QED BY <2>1, <2>2, <2>3 DEF Way, Calm
<1>4. ASSUME VerifyAgain PROVE Way'
  <2>1. /\ ~Git /\ pc = "validated" /\ pc' = "copy" /\ back' = "none" /\ Sound
        /\ UNCHANGED <<records, cur, installed>> /\ todo' = Listed(installed)
    BY <1>4 DEF VerifyAgain, tree, history, Leave, Goto, command, Git, Course
  <2>2. \A i \in DOMAIN records : Open(i)' => Previous(i)'
    BY <2>1, PreviousStays, SameGrows DEF Way, Originals, Open
  <2>3. ~Open(cur)'
    BY <2>1 DEF Way, Originals, Open
  <2>4. installed = Release[records[cur].from]
    BY <2>1, AtHand, SoundManifest, Releases DEF Placed
  <2>5. ASSUME NEW f \in Paths \ todo'
        PROVE  /\ installed[f] = Absent /\ records[cur].previous[f] = Absent
               /\ Release[records[cur].from][f] = Absent
    <3>1. installed[f] = Absent
      BY <2>1, <2>5 DEF Listed
    <3>2. records[cur].previous[f] = Absent
      BY <2>1 DEF Kept, Nothing
    <3> QED BY <3>1, <3>2, <2>4
  <2> QED BY <2>1, <2>2, <2>3, <2>4, <2>5 DEF Way, Originals, Near
<1>5. ASSUME Reject PROVE Way'
  <2>1. /\ ~Git /\ pc \in {"validate", "validated", "copy"} /\ pc' = "idle" /\ back' = "none"
        /\ Status("rejected") /\ UNCHANGED installed
    BY <1>5 DEF Reject, tree, history, Leave, Goto, command, Git
  <2>2. Originals'
    BY <2>1, Originals2 DEF Way, Statuses
  <2>3. Whole'
    BY <2>1, EarlyIsWhole, WholeStays DEF Left
  <2> QED BY <2>1, <2>2, <2>3 DEF Way, Calm
<1>6. ASSUME NEW f \in Paths, CopyPrevious(f) PROVE Way'
  <2>1. /\ ~Git /\ pc = "copy" /\ pc' = "copy" /\ back' = "none" /\ f \in todo
        /\ UNCHANGED <<cur, installed>> /\ todo' = todo \ {f}
    BY <1>6 DEF CopyPrevious, tree, history, Leave, Goto, command, Git, Course
  <2>2. /\ cur \in DOMAIN records /\ DOMAIN records' = DOMAIN records
        /\ \A i \in DOMAIN records : i # cur => records'[i] = records[i]
        /\ records'[cur].status = records[cur].status
        /\ records'[cur].from = records[cur].from
        /\ records'[cur].previous[f] = installed[f]
        /\ \A g \in Paths : g # f => records'[cur].previous[g] = records[cur].previous[g]
    BY <1>6, PreviousSet
  <2>3. ~Open(cur)'
    BY <2>1, <2>2 DEF Way, Originals, Open
  <2>4. ASSUME NEW i \in DOMAIN records, Open(i)' PROVE Previous(i)'
    <3>1. i # cur /\ records'[i] = records[i]
      BY <2>1, <2>2, <2>3, <2>4
    <3>2. Open(i)
      BY <2>4, <3>1 DEF Open
    <3> QED BY <2>1, <3>1, <3>2 DEF Way, Originals, Previous
  <2>5. /\ todo \subseteq Listed(Release[records[cur].from])
        /\ Near(installed[f], Release[records[cur].from][f])
    BY <2>1 DEF Way, Originals, Placed
  <2>6. Release[records[cur].from][f] # Absent
    BY <2>1, <2>5 DEF Listed
  <2>7. ASSUME NEW g \in Paths \ todo'
        PROVE  LET p == records'[cur].previous[g] IN
               /\ Near(installed[g], p)
               /\ \/ p = Release[records[cur].from][g]
                  \/ Edited(p) /\ Release[records[cur].from][g] # Absent
    <3>1. CASE g = f
      BY <2>2, <2>5, <2>6, <3>1 DEF Near
    <3>2. CASE g # f
      BY <2>1, <2>2, <2>7, <3>2 DEF Way, Originals
    <3> QED BY <3>1, <3>2
  <2>8. todo' \subseteq Listed(Release[records'[cur'].from])
    BY <2>1, <2>2, <2>5
  <2>9. Originals'
    BY <2>1, <2>2, <2>3, <2>4, <2>7, <2>8 DEF Originals
  <2> QED BY <2>1, <2>9 DEF Way
<1>7. ASSUME StartPromotion PROVE Way'
  <2>1. /\ ~Git /\ pc = "copy" /\ pc' = "promote" /\ back' = "none" /\ todo = {}
        /\ UNCHANGED <<cur, installed>> /\ Status("promoting") /\ "promoting" \in Statuses
    BY <1>7 DEF StartPromotion, tree, history, Leave, Goto, command, Git, Course, Statuses
  <2>2. /\ Grown /\ DOMAIN records' = DOMAIN records
        /\ cur \in DOMAIN records
        /\ \A i \in DOMAIN records : i # cur => records'[i] = records[i]
    BY <2>1, StatusGrows
  <2>3. Previous(cur) /\ Mixed(cur)
    BY <2>1 DEF Way, Originals, Previous, Mixed, Near
  <2>4. Previous(cur)' /\ Mixed(cur)'
    BY <2>1, <2>2, <2>3, PreviousStays, MixedStays DEF Left, Previous, Mixed, Grown
  <2>5. ASSUME NEW i \in DOMAIN records, Open(i)' PROVE Previous(i)'
    <3>1. CASE i = cur
      BY <2>1, <2>2, <2>3, <3>1, PreviousStays
    <3>2. CASE i # cur
      <4>1. Open(i)
        BY <2>2, <2>5, <3>2 DEF Open
      <4> QED BY <2>1, <2>2, <4>1, PreviousStays DEF Way, Originals
    <3> QED BY <3>1, <3>2
  <2>6. Originals'
    BY <2>1, <2>2, <2>5 DEF Originals
  <2> QED BY <2>1, <2>4, <2>6 DEF Way
<1>8. ASSUME Merge PROVE Way'
  BY <1>8 DEF Merge, tree, Switch, Git
<1>9. ASSUME Applied PROVE Way'
  <2>1. /\ ~Git /\ pc = "verified" /\ back = "none" /\ pc' = "idle" /\ back' = "none"
        /\ UNCHANGED installed /\ Status("applied") /\ "applied" \in Statuses
    BY <1>9 DEF Applied, tree, Leave, Git, Statuses
  <2>2. Open(cur)
    BY <2>1 DEF Course, Open
  <2>3. Originals'
    BY <2>1, <2>2, Originals2 DEF Way
  <2>4. Whole'
    BY <2>1, WholeStays DEF Way, Left
  <2> QED BY <2>1, <2>3, <2>4 DEF Way, Calm
<1>10. ASSUME PromotionFails PROVE Way'
  <2>1. /\ ~Git /\ (pc = "promote" \/ (pc = "verified" /\ back = "none")) /\ pc' = "check" /\ back' = "fallback"
        /\ UNCHANGED <<cur, records, installed>>
    BY <1>10 DEF PromotionFails, tree, history, Leave, Goto, command, Git, Course
  <2>2. cur \in DOMAIN records
    BY <2>1, AtHand
  <2>3. Originals'
    BY <2>1, Originals1 DEF Way
  <2>4. Mixed(cur)'
    BY <2>1 DEF Way, Mixed
  <2> QED BY <2>1, <2>3, <2>4 DEF Way
<1>11. ASSUME NEW i \in 1..MaxRuns, StartRollback(i) PROVE Way'
  <2>1. /\ ~Git /\ pc = "idle" /\ pc' = "check" /\ back' = "rollback" /\ cur' = i
        /\ UNCHANGED <<records, installed, cut>> /\ i \in DOMAIN records /\ Open(i)
        /\ older' = (older \/ \E j \in DOMAIN records : j > i /\ Open(j))
    BY <1>11 DEF StartRollback, tree, history, Leave, Goto, command, Git
  <2>2. Originals'
    BY <2>1, Originals1 DEF Way
  <2>3. older' \/ Newest(cur)'
    BY <2>1 DEF Newest, Open
  <2>4. Calm'
    BY <2>1, CalmStays DEF Way, Left
  <2> QED BY <2>1, <2>2, <2>3, <2>4 DEF Way
<1>12. ASSUME CheckFiles PROVE Way'
  <2>1. /\ ~Git /\ pc = "check" /\ pc' = "restore"
        /\ UNCHANGED <<cur, records, installed, back, older>>
        /\ \E w \in Versions : records[cur].previous = Release[w]
        /\ \A f \in Listed(records[cur].previous) \cup Listed(Release[records[cur].to]) :
             installed[f] \in {Absent, records[cur].previous[f], Release[records[cur].to][f]}
    BY <1>12 DEF CheckFiles, tree, history, Leave, Goto, command, Git, Untouched, Verifies, Record
  <2>2. cur \in DOMAIN records /\ records[cur].to \in Versions
    BY <2>1, AtHand
  <2>3. Originals'
    BY <2>1, Originals1 DEF Way
  <2>4. older \/ Mixed(cur)
    <3>1. CASE back = "fallback"
      BY <2>1, <3>1 DEF Way
    <3>2. CASE back = "rollback" /\ ~older
      <4>1. Newest(cur) /\ Calm
        BY <2>1, <3>2 DEF Way
      <4>2. CASE Whole
        <5>1. PICK v \in Versions : \A f \in Paths : Near(installed[f], Release[v][f])
          BY <4>2 DEF Whole
        <5>2. PICK w \in Versions : records[cur].previous = Release[w]
          BY <2>1
        <5>3. Manifest \in Listed(Release[records[cur].to])
          BY <2>2, Releases DEF Listed
        <5>4. installed[Manifest] \in {Absent, Release[w][Manifest], Release[records[cur].to][Manifest]}
          BY <2>1, <5>2, <5>3
        <5>5. ~Edited(installed[Manifest])
          BY <2>2, <5>4, Releases DEF Edited, Absent
        <5>6. installed[Manifest] = Release[v][Manifest]
          BY <5>1, <5>5, Releases DEF Near
        <5>7. v = w \/ v = records[cur].to
          BY <2>2, <5>4, <5>6, Releases
        <5> QED BY <5>1, <5>2, <5>7 DEF Mixed, Near
      <4>3. CASE \E i \in DOMAIN records : Newest(i) /\ Mixed(i)
        <5>1. PICK i \in DOMAIN records : Newest(i) /\ Mixed(i)
          BY <4>3
        <5>2. i \in Nat /\ cur \in Nat
          BY <2>2 DEF TypeOK
        <5>3. ~(i > cur) /\ ~(cur > i)
          BY <2>2, <4>1, <5>1 DEF Newest
        <5>4. i = cur
          BY <5>2, <5>3
        <5> QED BY <5>1, <5>4
      <4> QED BY <3>2, <4>1, <4>2, <4>3 DEF Calm
    <3> QED BY <2>1, <3>1, <3>2 DEF Course, TypeOK
  <2>5. Mixed(cur) => Mixed(cur)'
    BY <2>1 DEF Mixed
  <2>6. back' = "fallback" => Mixed(cur)'
    BY <2>1, <2>5 DEF Way
  <2>7. back' = "rollback" => older' \/ Newest(cur)'
    BY <2>1 DEF Way, Newest, Open
  <2>8. older' \/ Mixed(cur)'
    BY <2>1, <2>4, <2>5
  <2>9. Originals' /\ UNCHANGED cur /\ pc' = "restore"
    BY <2>1, <2>3
  <2> QED BY <2>6, <2>7, <2>8, <2>9 DEF Way
<1>13. ASSUME Reset PROVE Way'
  BY <1>13 DEF Reset, tree, Switch, Git
<1>14. ASSUME Restored PROVE Way'
  <2>1. /\ ~Git /\ pc = "restore" /\ pc' = "verified" /\ Sound
        /\ UNCHANGED <<installed, records, cur, back, older>>
    BY <1>14 DEF Restored, tree, history, Goto, Git
  <2>2. Originals'
    BY <2>1, Originals1 DEF Way
  <2>3. Whole'
    BY <2>1, SoundIsWhole, WholeStays DEF Left
  <2>4. back # "none"
    BY <2>1 DEF Course
  <2>5. back' = "fallback" => Mixed(cur)'
    BY <2>1 DEF Way, Mixed
  <2>6. back' = "rollback" => older' \/ Newest(cur)'
    BY <2>1 DEF Way, Newest, Open
  <2> QED BY <2>1, <2>2, <2>3, <2>4, <2>5, <2>6 DEF Way
<1>15. ASSUME RestoreFails PROVE Way'
  <2>1. /\ ~Git /\ pc \in {"check", "restore", "verified"} /\ pc' = "idle" /\ back' = "none"
        /\ UNCHANGED <<installed, cut, older>>
    BY <1>15 DEF RestoreFails, Course, tree, history, Leave, Goto, command, Git
  <2>2. CASE back = "fallback"
    <3>1. Status("rollback-needed") /\ "rollback-needed" \in Statuses
      BY <1>15, <2>2 DEF RestoreFails, Statuses
    <3>2. Open(cur) /\ cur = Len(records) /\ Mixed(cur)
      BY <2>1, <2>2 DEF Course, Open, Way
    <3>3. Originals'
      BY <2>1, <3>1, <3>2, Originals2 DEF Way
    <3>4. /\ Grown /\ DOMAIN records' = DOMAIN records /\ cur \in DOMAIN records
          /\ records'[cur].status = "rollback-needed"
      BY <2>1, <3>1, StatusGrows
    <3>5. PICK i \in DOMAIN records : i = cur
      BY <3>4
    <3>6. Mixed(i)'
      BY <2>1, <3>2, <3>4, <3>5, MixedStays DEF Left
    <3>7. ~(\E j \in DOMAIN records : j > i)
      BY <3>2, <3>5 DEF TypeOK
    <3>8. Newest(i)' /\ records'[i].status # "promoting" /\ i \in DOMAIN records'
      BY <3>4, <3>5, <3>7 DEF Newest, Open
    <3>9. Calm'
      BY <3>6, <3>8 DEF Calm
    <3> QED BY <2>1, <3>3, <3>9 DEF Way
  <2>3. CASE back = "rollback"
    <3>1. UNCHANGED records
      BY <1>15, <2>3 DEF RestoreFails
    <3>2. Originals'
      BY <2>1, <3>1, Originals1 DEF Way
    <3>3. Calm
      <4>1. CASE pc = "check"
        BY <2>1, <2>3, <4>1 DEF Way
      <4>2. CASE pc = "restore"
        BY <2>1, <2>3, <4>2, HandIsNewest DEF Calm
      <4>3. CASE pc = "verified"
        BY <2>1, <4>3 DEF Way, Calm
      <4> QED BY <2>1, <4>1, <4>2, <4>3
    <3>4. Calm'
      BY <2>1, <3>1, <3>3, CalmStays DEF Left
    <3> QED BY <2>1, <3>2, <3>4 DEF Way
  <2> QED BY <1>15, <2>1, <2>2, <2>3 DEF RestoreFails, TypeOK
<1>16. ASSUME NEW f \in Paths, Replace(f) PROVE Way'
  <2>1. /\ UNCHANGED <<kind, records, cur, pc, back, older>> /\ ~Git /\ pc \in {"promote", "restore"}
        /\ \A g \in Paths : g # f => installed'[g] = installed[g]
        /\ installed'[f] = Sources[f]
    BY <1>16 DEF Replace, history, TypeOK, Tree, Git
  <2>2. installed'[f] = Sources[f]
    BY <2>1 DEF Listed
  <2>3. Sources[f] \in {records[cur].previous[f], Release[records[cur].to][f]}
    BY <2>1 DEF Sources, Record
  <2>4. Mixed(cur) => Mixed(cur)'
    BY <2>1, <2>2, <2>3 DEF Mixed
  <2>5. Originals'
    BY <2>1, Originals1 DEF Way
  <2>6. back' = "rollback" => older' \/ Newest(cur)'
    BY <2>1 DEF Way, Newest, Open
  <2> QED BY <2>1, <2>4, <2>5, <2>6 DEF Way
<1>17. ASSUME NEW f \in Paths, Remove(f) PROVE Way'
  <2>1. /\ UNCHANGED <<kind, records, cur, pc, back, older>> /\ ~Git /\ pc \in {"promote", "restore"}
        /\ \A g \in Paths : g # f => installed'[g] = installed[g]
        /\ installed'[f] = Absent /\ f \notin Listed(Sources)
    BY <1>17 DEF Remove, history, TypeOK, Tree, Git
  <2>2. installed'[f] = Sources[f]
    BY <2>1 DEF Listed
  <2>3. Sources[f] \in {records[cur].previous[f], Release[records[cur].to][f]}
    BY <2>1 DEF Sources, Record
  <2>4. Mixed(cur) => Mixed(cur)'
    BY <2>1, <2>2, <2>3 DEF Mixed
  <2>5. Originals'
    BY <2>1, Originals1 DEF Way
  <2>6. back' = "rollback" => older' \/ Newest(cur)'
    BY <2>1 DEF Way, Newest, Open
  <2> QED BY <2>1, <2>4, <2>5, <2>6 DEF Way
<1>18. ASSUME Stop PROVE Way'
  <2>1. /\ ~Git /\ pc # "idle" /\ pc' = "idle" /\ back' = "none" /\ UNCHANGED <<records, installed, older>>
        /\ cut' = (cut \/ pc \in {"promote", "merged"} \/ back = "fallback")
    BY <1>18 DEF Stop, tree, history, Leave, Goto, command, Git
  <2>2. Originals'
    BY <2>1, Originals1 DEF Way
  <2>3. CASE pc \in {"validate", "validated", "copy"}
    <3>1. Whole'
      BY <2>1, <2>3, EarlyIsWhole, WholeStays DEF Left
    <3> QED BY <2>1, <2>2, <3>1 DEF Way, Calm
  <2>4. CASE pc = "check" /\ back = "rollback"
    <3>1. Calm'
      BY <2>1, <2>4, CalmStays DEF Way, Left
    <3> QED BY <2>1, <2>2, <3>1 DEF Way
  <2>5. CASE pc = "promote" \/ pc = "restore" \/ (pc = "check" /\ back = "fallback")
    <3>1. /\ cur \in DOMAIN records
          /\ older \/ (Newest(cur) /\ Mixed(cur))
          /\ (records[cur].status = "promoting") => cut'
      BY <2>1, <2>5, HandIsNewest
    <3>2. CASE older
      BY <2>1, <2>2, <3>2 DEF Way, Calm
    <3>3. CASE Newest(cur) /\ Mixed(cur)
      <4>1. PICK i \in DOMAIN records : i = cur /\ Newest(i) /\ Mixed(i)
        BY <3>1, <3>3
      <4>2. Mixed(i)' /\ Newest(i)' /\ (cut' \/ records'[i].status # "promoting")
        BY <2>1, <3>1, <4>1, MixedStays, SameGrows DEF Left, Newest, Open
      <4>3. i \in DOMAIN records'
        BY <2>1, <4>1
      <4>4. Calm'
        BY <4>2, <4>3 DEF Calm
      <4> QED BY <2>1, <2>2, <4>4 DEF Way
    <3> QED BY <3>1, <3>2, <3>3
  <2>7. CASE pc = "verified"
    <3>1. Whole'
      BY <2>1, <2>7, WholeStays DEF Way, Left
    <3> QED BY <2>1, <2>2, <3>1 DEF Way, Calm
  <2>6. pc # "merged" /\ back \in {"none", "fallback", "rollback"} /\ (pc = "check" => back # "none") /\ pc \in Phases
    BY <2>1 DEF Course, TypeOK, Phases
  <2> QED BY <2>1, <2>3, <2>4, <2>5, <2>6, <2>7 DEF Phases
<1>19. ASSUME NEW f \in Paths, Edit(f) PROVE Way'
  <2>1. /\ UNCHANGED <<kind, head, records, cur, pc, todo, back, cut, older>> /\ ~Git
        /\ Left
    <3>1. made \in Nat /\ made' = made + 1
      BY <1>19 DEF Edit, TypeOK
    <3>2. Edited(-made')
      BY <3>1 DEF Edited
    <3>3. installed' = [installed EXCEPT ![f] = -made']
      BY <1>19 DEF Edit
    <3>4. Left
      BY <3>2, <3>3 DEF TypeOK, Tree, Left
    <3> QED BY <1>19, <3>4 DEF Edit, command, Git
  <2>2. \A g \in Paths : \A x : Near(installed[g], x) => Near(installed'[g], x)
    BY <2>1 DEF Near, Left
  <2>3. \A i \in DOMAIN records : Open(i)' => Previous(i)'
    BY <2>1, PreviousStays, SameGrows DEF Way, Originals, Open
  <2>4. Originals'
    BY <2>1, <2>2, <2>3 DEF Way, Originals, Open
  <2>5. pc # "idle" => cur \in DOMAIN records
    BY AtHand
  <2>6. Mixed(cur) => Mixed(cur)'
    BY <2>1 DEF Mixed, Left
  <2>7. back' = "rollback" => older' \/ Newest(cur)'
    BY <2>1 DEF Way, Newest, Open
  <2>8. Calm => Calm'
    BY <2>1, CalmStays
  <2>9. Whole => Whole'
    BY <2>1, WholeStays
  <2> QED BY <2>1, <2>4, <2>6, <2>7, <2>8, <2>9 DEF Way
<1>20. ASSUME NEW v \in Versions, Checkout(v) PROVE Way'
  BY <1>20 DEF Checkout, tree, Switch, Git
<1>21. ASSUME NEW v \in Versions, Reinstall(v) PROVE Way'
  <2>1. /\ ~Git /\ pc = "idle" /\ pc' = "idle" /\ back' = "none" /\ UNCHANGED records
        /\ installed' = Release[v]
    BY <1>21 DEF Reinstall, command, Course
  <2>2. Originals'
    BY <2>1, Originals1 DEF Way
  <2>3. Whole'
    BY <2>1 DEF Whole, Near
  <2> QED BY <2>1, <2>2, <2>3 DEF Way, Calm
<1>22. ASSUME Prune PROVE Way'
  <2>1. /\ ~Git /\ pc = "idle" /\ pc' = "idle" /\ back' = "none"
        /\ UNCHANGED <<records, cut, older>>
    BY <1>22 DEF Prune, command, Course
  <2>2. PICK v \in Versions :
          /\ installed[Manifest] = Release[v][Manifest]
          /\ installed' = [f \in Paths |-> IF f \in Listed(Release[v]) THEN installed[f] ELSE Absent]
    BY <1>22 DEF Prune
  <2>3. \A f \in Paths : installed'[f] = IF Release[v][f] # Absent THEN installed[f] ELSE Release[v][f]
    BY <2>2 DEF Listed
  <2>4. ~Edited(installed[Manifest]) /\ Manifest \in Paths
    BY <2>2, Releases
  <2>5. Originals'
    BY <2>1, Originals1 DEF Way
  <2>6. Calm'
    <3>1. CASE older
      BY <2>1, <3>1 DEF Calm
    <3>2. CASE Whole
      <4>1. PICK w \in Versions : \A f \in Paths : Near(installed[f], Release[w][f])
        BY <3>2 DEF Whole
      <4>2. w = v
        BY <2>2, <2>4, <4>1, Releases DEF Near
      <4>3. \A f \in Paths : Near(installed'[f], Release[v][f])
        BY <2>3, <4>1, <4>2 DEF Near
      <4> QED BY <4>3 DEF Calm, Whole
    <3>3. CASE \E i \in DOMAIN records : Newest(i) /\ Mixed(i) /\ (cut \/ records[i].status # "promoting")
      <4>1. PICK i \in DOMAIN records : Newest(i) /\ Mixed(i) /\ (cut \/ records[i].status # "promoting")
        BY <3>3
      <4>2. Previous(i)
        BY <2>1, <4>1 DEF Way, Originals, Newest
      <4>3. records[i] \in RecordType
        BY <4>1 DEF TypeOK
      <4>4. records[i].from \in Versions /\ records[i].to \in Versions
        BY <4>3 DEF RecordType
      <4>5. installed[Manifest] \in {records[i].previous[Manifest], Release[records[i].to][Manifest]}
        BY <2>4, <4>1 DEF Mixed
      <4>6. ASSUME installed[Manifest] = Release[records[i].to][Manifest] PROVE Mixed(i)'
        <5>1. v = records[i].to
          BY <2>2, <4>4, <4>6, Releases
        <5>2. ASSUME NEW f \in Paths
              PROVE  \/ installed'[f] \in {records[i].previous[f], Release[records[i].to][f]}
                     \/ Edited(installed'[f])
          BY <2>3, <4>1, <5>1 DEF Mixed
        <5> QED BY <2>1, <5>2 DEF Mixed
      <4>7. ASSUME installed[Manifest] = records[i].previous[Manifest] PROVE Mixed(i)'
        <5>1. v = records[i].from
          BY <2>2, <2>4, <4>2, <4>4, <4>7, Releases DEF Previous
        <5>2. \A f \in Paths : Release[v][f] = Absent => records[i].previous[f] = Release[v][f]
          BY <4>2, <5>1 DEF Previous
        <5>3. ASSUME NEW f \in Paths
              PROVE  \/ installed'[f] \in {records[i].previous[f], Release[records[i].to][f]}
                     \/ Edited(installed'[f])
          BY <2>3, <4>1, <5>2 DEF Mixed
        <5> QED BY <2>1, <5>3 DEF Mixed
      <4>8. Mixed(i)'
        BY <4>5, <4>6, <4>7
      <4>9. Newest(i)' /\ (cut' \/ records'[i].status # "promoting") /\ i \in DOMAIN records'
        BY <2>1, <4>1 DEF Newest, Open
      <4> QED BY <4>8, <4>9 DEF Calm
    <3> QED BY <2>1, <3>1, <3>2, <3>3 DEF Way, Calm
  <2> QED BY <2>1, <2>5, <2>6 DEF Way
<1>23. CASE UNCHANGED vars
  <2>1. UNCHANGED <<kind, installed, records, pc, cur, todo, back, cut, older>>
    BY <1>23 DEF vars, tree, command, history
  <2>2. Left /\ ~Git
    BY <2>1 DEF Left, Git
  <2>3. Calm => Calm'
    BY <2>1, <2>2, CalmStays
  <2>4. \A i \in DOMAIN records : Open(i)' => Previous(i)'
    BY <2>1, <2>2, PreviousStays, SameGrows DEF Way, Originals, Open
  <2>5. Originals'
    BY <2>1, <2>2, <2>4 DEF Way, Originals, Open
  <2>6. (Mixed(cur) => Mixed(cur)') /\ (Newest(cur) => Newest(cur)')
    BY <2>1 DEF Mixed, Newest, Open
  <2>7. Whole => Whole'
    BY <2>2, WholeStays
  <2> QED BY <2>1, <2>2, <2>3, <2>5, <2>6, <2>7 DEF Way
<1>24. ASSUME Promoted PROVE Way'
  <2>1. /\ ~Git /\ pc = "promote" /\ pc' = "verified" /\ Sound
        /\ UNCHANGED <<installed, records, cur, back>>
    BY <1>24 DEF Promoted, PromotionDone, tree, Goto, Git
  <2>2. Originals'
    BY <2>1, Originals1 DEF Way
  <2>3. Whole'
    BY <2>1, SoundIsWhole, WholeStays DEF Left
  <2>4. back' = "none"
    BY <2>1 DEF Course
  <2>5. Mixed(cur)'
    BY <2>1 DEF Way, Mixed
  <2> QED BY <2>1, <2>2, <2>3, <2>4, <2>5 DEF Way
<1>25. ASSUME TakenBack PROVE Way'
  <2>1. /\ ~Git /\ pc = "verified" /\ pc' = "idle" /\ back' = "none"
        /\ UNCHANGED installed /\ Status(Taken) /\ Taken \in {"rolled-back", "rolled-back-after-failure"}
    BY <1>25 DEF TakenBack, tree, Leave, Git, Taken
  <2>2. Originals'
    BY <2>1, Originals2 DEF Way, Statuses
  <2>3. Whole'
    BY <2>1, WholeStays DEF Way, Left
  <2> QED BY <2>1, <2>2, <2>3 DEF Way, Calm
<1> QED
  BY <1>1, <1>2, <1>3, <1>4, <1>5, <1>6, <1>7, <1>8, <1>9, <1>10, <1>11, <1>12, <1>13, <1>14, <1>15, <1>16, <1>17, <1>18, <1>19, <1>20, <1>21, <1>22, <1>23, <1>24, <1>25 DEF Next, Upgrading, Restoring, Replacing, Others

\* At the start the tree is whole and there is nothing to go back from.
LEMMA WayInit == Init => Way
<1> SUFFICES ASSUME Init PROVE Way OBVIOUS
<1>1. Whole
  BY DEF Init, Whole, Near
<1>2. DOMAIN records = {} /\ pc = "idle" /\ back = "none"
  BY DEF Init
<1> QED BY <1>1, <1>2 DEF Way, Originals, Calm

\* What the invariants say when no command runs.
LEMMA CalmIsWayBack == TypeOK /\ Placed /\ Way => WayBack
<1> SUFFICES ASSUME TypeOK, Placed, Way, pc = "idle", ~older, \A f \in Paths : ~Edited(installed[f])
             PROVE  \/ \E v \in Versions : installed = Release[v]
                    \/ \E i \in DOMAIN records : Between(i) /\ (cut \/ records[i].status # "promoting")
  BY DEF WayBack
<1>1. ASSUME NEW v \in Versions, \A f \in Paths : Near(installed[f], Release[v][f])
      PROVE  installed = Release[v]
  <2>1. \A f \in Paths : installed[f] = Release[v][f]
    BY <1>1 DEF Near
  <2>2. installed \in [Paths -> Int] /\ Release[v] \in [Paths -> Int]
    BY Releases DEF TypeOK, Tree
  <2> QED BY <2>1, <2>2
<1>2. CASE Git
  BY <1>1, <1>2 DEF Placed, TypeOK
<1>3. CASE ~Git
  <2>1. Calm
    BY <1>3 DEF Way
  <2>2. CASE Whole
    BY <1>1, <2>2 DEF Whole
  <2>3. CASE \E i \in DOMAIN records : Newest(i) /\ Mixed(i) /\ (cut \/ records[i].status # "promoting")
    <3>1. PICK i \in DOMAIN records : Newest(i) /\ Mixed(i) /\ (cut \/ records[i].status # "promoting")
      BY <2>3
    <3>2. Between(i)
      BY <3>1 DEF Between, Newest, Mixed
    <3> QED BY <3>1, <3>2
  <2> QED BY <2>1, <2>2, <2>3 DEF Calm
<1> QED BY <1>2, <1>3

\* However promotions, fallbacks and rollbacks fail or stop, a tree that mixes
\* releases can be taken back from one upgrade's previous directory and candidate.
THEOREM MixedTreesHaveAWayBack == Spec => []WayBack
<1>1. Init => TypeOK /\ Course /\ Kept /\ EditsKept /\ Placed /\ Way
  BY TypeInit, KeptInit, PlacedInit, WayInit
<1>2. TypeOK /\ Course /\ Kept /\ EditsKept /\ Placed /\ Way /\ [Next]_vars =>
        (TypeOK /\ Course /\ Kept /\ EditsKept /\ Placed /\ Way)'
  BY TypeStep, CourseStep, KeptStep, PlacedStep, WayStep
<1> QED BY <1>1, <1>2, CalmIsWayBack, PTL DEF Spec

=============================================================================
