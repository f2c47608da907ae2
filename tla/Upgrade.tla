------------------------------ MODULE Upgrade ------------------------------
(***************************************************************************)
(* dotupgrade (scripts/safe-upgrade.nu, scripts/modules/upgrade.nu): a     *)
(* release is verified, validated in a sandbox and put in the place of the *)
(* installed one, file by file in an extracted release and by git in a     *)
(* checkout.  A failure falls back to the copy taken before, and           *)
(* `--rollback ID` takes an upgrade back.                                  *)
(*                                                                         *)
(* operation.lock admits one command at a time; pc = "idle" says that it   *)
(* is free.  A stopped command leaves the lock and nothing starts before a *)
(* person removes it, which is part of Stop.  People edit installed files  *)
(* at any moment, also between a check and the write it guards.            *)
(***************************************************************************)
EXTENDS Integers, Sequences

CONSTANTS Files,     \* paths of the releases, without the manifest
          Manifest,  \* RELEASE-MANIFEST.json
          Versions,  \* versions of the releases
          Release,   \* content of every path in every release
          Kinds,     \* kinds of checkouts: "artifact", "git"
          MaxEdits,  \* bound: edits, and changes of the checkout by others
          MaxRuns,   \* bound: upgrades
          MaxStops   \* bound: stops of the command

Paths == Files \cup {Manifest}
Absent == 0
Edited(c) == c < 0  \* the contents of releases are positive
Tree == [Paths -> Int]
Nothing == [f \in Paths |-> Absent]

ASSUME ReleaseAssumption ==
  /\ Manifest \notin Files
  /\ Versions \subseteq Nat
  /\ Release \in [Versions -> [Paths -> Nat]]
  /\ \A v \in Versions : Release[v][Manifest] # Absent
  /\ \A v, w \in Versions : Release[v][Manifest] = Release[w][Manifest] => v = w

ASSUME BoundsAssumption ==
  /\ Kinds \subseteq {"artifact", "git"}
  /\ MaxEdits \in Nat /\ MaxRuns \in Nat /\ MaxStops \in Nat

VARIABLES kind,      \* is the installed tree an extracted release or a checkout
          installed, \* the tree dotupgrade runs from
          stray,     \* a temporary file of a stopped promotion lies in it
          head,      \* HEAD of a checkout
          records,   \* the upgrades: upgrade.nuon with the previous directory
          pc, cur,   \* phase of the command, and its upgrade
          todo,      \* paths still to handle
          back,      \* is it a fallback or a rollback that restores
          sure,      \* edits made when the tree was found to be as wanted
          made, stops, \* edits and stops so far
          edits,     \* history: the edit a person expects at a path, or Absent
          raced,     \* history: edits made between a check and its write
          cut,       \* history: a promotion was stopped
          older      \* history: an upgrade was rolled back under a later one

tree == <<kind, installed, stray, head>>
command == <<pc, cur, todo, back, sure>>
history == <<made, stops, edits, raced, cut, older>>
vars == <<tree, records, command, history>>

Listed(t) == {f \in Paths : t[f] # Absent}

\* verify-release: the tree is what its own manifest lists, and nothing else.
Verifies(t, s) == ~s /\ \E v \in Versions : t = Release[v]
VersionOf(t) == CHOOSE v \in Versions : t = Release[v]
Sound == Verifies(installed, stray)

Init ==
  /\ kind \in Kinds
  /\ head \in Versions /\ installed = Release[head] /\ stray = FALSE
  /\ records = << >>
  /\ pc = "idle" /\ cur = 0 /\ todo = {} /\ back = "none" /\ sure = 0
  /\ made = 0 /\ stops = 0
  /\ edits = Nothing /\ raced = {} /\ cut = FALSE /\ older = FALSE

Git == kind = "git"
Clean == installed = Release[head]
Record == records[cur]
Status(s) == records' = [records EXCEPT ![cur].status = s]
Leave == pc' = "idle" /\ cur' = 0 /\ todo' = {} /\ back' = "none" /\ sure' = 0
Goto(p, t) ==
  /\ pc' = p /\ todo' = t /\ UNCHANGED cur
  /\ sure' = IF p = "verified" THEN made ELSE 0

-----------------------------------------------------------------------------
(* An upgrade up to the copy of the installed release. *)

\* Mistake: the record is first written when the promotion starts.
BeginUnrecorded(v) ==
  /\ pc = "idle" /\ Len(records) < MaxRuns
  /\ Sound /\ v > VersionOf(installed)
  /\ pc' = "validate" /\ cur' = Len(records) + 1
  /\ UNCHANGED <<tree, records, todo, back, sure, history>>

\* The candidate is copied and verified, and must be newer; then the record.
Begin(v) ==
  /\ pc = "idle" /\ Len(records) < MaxRuns
  /\ Sound /\ v > VersionOf(installed)
  /\ Git => Clean /\ v > head
  /\ records' = Append(records, [status |-> "staged", from |-> VersionOf(installed), to |-> v,
                                 previous |-> Nothing])
  /\ pc' = "validate" /\ cur' = Len(records) + 1
  /\ UNCHANGED <<tree, todo, back, sure, history>>

Validate == pc = "validate" /\ Goto("validated", {}) /\ UNCHANGED <<tree, records, back, history>>

\* Without --yes nothing is installed.
Preview ==
  /\ pc = "validated"
  /\ Status("validated-not-applied") /\ Leave
  /\ UNCHANGED <<tree, history>>

\* The installed release is verified again, and its files are listed.
VerifyAgain ==
  /\ pc = "validated" /\ Sound
  /\ Goto("copy", Listed(installed))
  /\ UNCHANGED <<tree, records, back, history>>

CopyPrevious(f) ==
  /\ pc = "copy" /\ f \in todo
  /\ records' = [records EXCEPT ![cur].previous[f] = installed[f]]
  /\ todo' = todo \ {f}
  /\ UNCHANGED <<tree, pc, cur, back, sure, history>>

\* Any step before the promotion may fail; the installed files are as they were.
Reject ==
  /\ pc \in {"validate", "validated", "copy"}
  /\ Status("rejected") /\ Leave
  /\ UNCHANGED <<tree, history>>

-----------------------------------------------------------------------------
(* promote-files, and git *)

\* What the files are replaced from.
Sources == IF pc = "promote" THEN Release[Record.to] ELSE Record.previous

StartPromotion ==
  /\ pc = "copy" /\ todo = {}
  /\ Git => head = Record.from /\ Clean
  /\ Status("promoting")
  /\ Goto("promote", IF Git THEN {} ELSE Listed(Release[Record.from]) \cup Listed(Release[Record.to]))
  /\ UNCHANGED <<tree, back, history>>

\* A file is copied next to its place and renamed; the manifest comes last.
Replace(f) ==
  /\ pc \in {"promote", "restore"} /\ ~Git
  /\ f \in todo \cap Listed(Sources)
  /\ f = Manifest => todo \cap Listed(Sources) = {Manifest}
  /\ installed' = [installed EXCEPT ![f] = Sources[f]]
  /\ todo' = todo \ {f}
  /\ UNCHANGED <<kind, stray, head, records, pc, cur, back, sure, history>>

\* Then what only the other release has is removed.
Remove(f) ==
  /\ pc \in {"promote", "restore"} /\ ~Git
  /\ todo \cap Listed(Sources) = {} /\ f \in todo
  /\ installed' = [installed EXCEPT ![f] = Absent]
  /\ todo' = todo \ {f}
  /\ UNCHANGED <<kind, stray, head, records, pc, cur, back, sure, history>>

\* git replaces the files that differ between two commits, unless one is edited.
Switch(v) ==
  /\ \A f \in Paths : installed[f] # Release[head][f] => Release[v][f] = Release[head][f]
  /\ installed' = [f \in Paths |-> IF installed[f] = Release[head][f] THEN Release[v][f] ELSE installed[f]]
  /\ head' = v
  /\ UNCHANGED <<kind, stray>>

\* git merge --ff-only; a HEAD that is ahead already is left alone.
Merge ==
  /\ pc = "promote" /\ Git /\ todo = {}
  /\ IF head < Record.to THEN Switch(Record.to) ELSE UNCHANGED tree
  /\ Goto("merged", {})
  /\ UNCHANGED <<records, back, history>>

PromotionDone == IF Git THEN pc = "merged" ELSE pc = "promote" /\ todo = {}

\* Mistake: the promoted files are not verified.
PromotedUnverified ==
  /\ PromotionDone
  /\ Goto("verified", {})
  /\ UNCHANGED <<tree, records, back, history>>

Promoted ==
  /\ PromotionDone /\ Sound
  /\ Goto("verified", {})
  /\ UNCHANGED <<tree, records, back, history>>

\* The record is written after the verification.
Applied ==
  /\ pc = "verified" /\ back = "none"
  /\ Status("applied") /\ Leave
  /\ UNCHANGED <<tree, history>>

-----------------------------------------------------------------------------
(* Fallback and rollback *)

PromotionFails ==
  /\ pc \in {"promote", "merged"} \/ (pc = "verified" /\ back = "none")
  /\ Goto("check", {}) /\ back' = "fallback"
  /\ UNCHANGED <<tree, records, history>>

Open(i) == records[i].status \in {"promoting", "applied", "rollback-needed"}

StartRollback(i) ==
  /\ pc = "idle" /\ i \in DOMAIN records
  /\ Open(i) /\ records[i].status # "promoting"
  /\ Git => head = records[i].to
  /\ pc' = "check" /\ cur' = i /\ back' = "rollback"
  /\ older' = (older \/ \E j \in DOMAIN records : j > i /\ Open(j))
  /\ UNCHANGED <<tree, records, todo, sure, made, stops, edits, raced, cut>>

\* Mistake: only the manifest is looked at.
UntouchedManifest == installed[Manifest] \in {Record.previous[Manifest], Release[Record.to][Manifest]}

\* Every file must come from the previous release or from the candidate.
Untouched ==
  \A f \in Listed(Record.previous) \cup Listed(Release[Record.to]) :
    installed[f] \in {Absent, Record.previous[f], Release[Record.to][f]}

Taken == IF back = "rollback" THEN "rolled-back" ELSE "rolled-back-after-failure"

CheckFiles ==
  /\ pc = "check" /\ ~Git
  /\ Verifies(Record.previous, FALSE) /\ Untouched
  /\ Goto("restore", Listed(Record.previous) \cup Listed(Release[Record.to]))
  /\ UNCHANGED <<tree, records, back, history>>

Restored ==
  /\ pc = "restore" /\ todo = {} /\ Sound
  /\ Goto("verified", {})
  /\ UNCHANGED <<tree, records, back, history>>

\* git reset --keep; a fallback wants HEAD where the upgrade had put it.
Reset ==
  /\ pc = "check" /\ Git
  /\ head \in {Record.from, Record.to}
  /\ Switch(Record.from)
  /\ Goto("verified", {})
  /\ UNCHANGED <<records, back, history>>

TakenBack ==
  /\ pc = "verified" /\ back # "none"
  /\ Status(Taken) /\ Leave
  /\ UNCHANGED <<tree, history>>

\* Mistake: a fallback that fails is not recorded.
RestoreFailsSilently ==
  /\ pc # "idle" /\ back # "none"
  /\ Leave
  /\ UNCHANGED <<tree, records, history>>

\* A fallback that fails says so; a rollback that fails leaves the record.
RestoreFails ==
  /\ pc # "idle" /\ back # "none"
  /\ IF back = "fallback" THEN Status("rollback-needed") ELSE UNCHANGED records
  /\ Leave
  /\ UNCHANGED <<tree, history>>

-----------------------------------------------------------------------------
(* Stops, and people *)

\* Between the copy of a file and its rename the copy stays in the tree.
Stop ==
  /\ pc # "idle" /\ stops < MaxStops
  /\ stops' = stops + 1
  /\ stray' \in (IF ~Git /\ pc \in {"promote", "restore"} /\ todo \cap Listed(Sources) # {}
                 THEN {stray, TRUE} ELSE {stray})
  /\ cut' = (cut \/ pc \in {"promote", "merged"} \/ back = "fallback")
  /\ Leave
  /\ UNCHANGED <<kind, installed, head, records, made, edits, raced, older>>

\* Will the command write f without looking at it again?
Overwrites(f) ==
  /\ ~Git
  /\ \/ pc = "copy" /\ f \notin todo
     \/ pc \in {"promote", "restore"} /\ f \in todo

Edit(f) ==
  /\ made < MaxEdits /\ made' = made + 1
  /\ installed' = [installed EXCEPT ![f] = -made']
  /\ edits' = [edits EXCEPT ![f] = -made']
  /\ raced' = IF Overwrites(f) THEN raced \cup {-made'} ELSE raced
  /\ UNCHANGED <<kind, stray, head, records, command, stops, cut, older>>

\* Another writer of the checkout moves HEAD while nothing is edited.
Checkout(v) ==
  /\ Git /\ Clean /\ v # head
  /\ made < MaxEdits /\ made' = made + 1
  /\ installed' = Release[v] /\ head' = v
  /\ UNCHANGED <<kind, stray, records, command, stops, edits, raced, cut, older>>

\* A release is copied over the tree by hand and what is obsolete is pruned.
Reinstall(v) ==
  /\ ~Git /\ pc = "idle" /\ installed # Release[v]
  /\ made < MaxEdits /\ made' = made + 1
  /\ installed' = Release[v] /\ stray' = FALSE /\ edits' = Nothing
  /\ UNCHANGED <<kind, head, records, command, stops, raced, cut, older>>

\* prune-obsolete.nu --execute removes what the manifest does not list.
Prune ==
  /\ ~Git /\ pc = "idle"
  /\ \E v \in Versions :
       /\ installed[Manifest] = Release[v][Manifest]
       /\ stray \/ ~(Listed(installed) \subseteq Listed(Release[v]))
       /\ installed' = [f \in Paths |-> IF f \in Listed(Release[v]) THEN installed[f] ELSE Absent]
       /\ edits' = [f \in Paths |-> IF f \in Listed(Release[v]) THEN edits[f] ELSE Absent]
  /\ stray' = FALSE
  /\ UNCHANGED <<kind, head, records, command, made, stops, raced, cut, older>>

-----------------------------------------------------------------------------
Upgrading ==
  \/ \E v \in Versions : Begin(v)
  \/ Validate \/ Preview \/ VerifyAgain \/ Reject
  \/ \E f \in Paths : CopyPrevious(f)
  \/ StartPromotion \/ Merge \/ Promoted \/ Applied

Restoring ==
  \/ PromotionFails \/ \E i \in 1..MaxRuns : StartRollback(i)
  \/ CheckFiles \/ Reset \/ Restored \/ TakenBack \/ RestoreFails

Replacing == \E f \in Paths : Replace(f) \/ Remove(f)

Others ==
  \/ \E f \in Paths : Edit(f)
  \/ \E v \in Versions : Checkout(v) \/ Reinstall(v)
  \/ Prune

Next == Upgrading \/ Restoring \/ Replacing \/ Stop \/ Others

Spec == Init /\ [][Next]_vars

-----------------------------------------------------------------------------
(* Properties *)

Statuses == {"staged", "validated-not-applied", "rejected", "promoting", "applied",
             "rolled-back", "rolled-back-after-failure", "rollback-needed"}
RecordType == [status : Statuses, from : Versions, to : Versions, previous : Tree]

\* Values of the variables.
TypeOK ==
  /\ kind \in Kinds /\ installed \in Tree /\ stray \in BOOLEAN /\ head \in Versions
  /\ records \in Seq(RecordType)
  /\ pc \in {"idle", "validate", "validated", "copy", "promote", "merged", "check", "restore",
            "verified"}
  /\ cur \in 0..Len(records) /\ (pc # "idle" => cur # 0)
  /\ todo \subseteq Paths /\ back \in {"none", "fallback", "rollback"}
  /\ made \in Nat /\ stops \in Nat /\ sure \in 0..made
  /\ edits \in Tree /\ raced \subseteq Int /\ cut \in BOOLEAN /\ older \in BOOLEAN

\* upgrade.nu:133: what a person wrote into an installed file is still there,
\* or in the previous directory of an upgrade, however upgrades fail, stop and
\* are rolled back; except what was written after the last look at the file.
EditsKept ==
  \A f \in Paths :
    \/ edits[f] \in {Absent, installed[f]} \cup raced
    \/ \E i \in DOMAIN records : records[i].previous[f] = edits[f]

\* Every file is from before or after upgrade i, which still has all of them.
Between(i) ==
  Open(i) /\ \A f \in Paths : installed[f] \in {records[i].previous[f], Release[records[i].to][f]}

\* A tree that mixes releases is one an upgrade can be taken back from: every
\* file comes from that upgrade's previous directory or its candidate, and its
\* record admits a rollback unless the promotion was stopped.  The exception is
\* a tree in which an older upgrade was rolled back before a later one.
WayBack ==
  \/ pc # "idle" \/ older
  \/ \E v \in Versions : installed = Release[v]
  \/ \E f \in Paths : Edited(installed[f])
  \/ \E i \in DOMAIN records : Between(i) /\ (cut \/ records[i].status # "promoting")

\* Written after the verification: edit n has the content -n.
Since(c) == c < -sure

\* What upgrade.nuon says when a command ends is true of the installed files but
\* for edits of the moment between the verification and the record; a checkout is
\* judged unless another Git writer moved HEAD.
StatusIsTrue ==
  [][\A i \in DOMAIN records :
       LET r == records'[i] IN
       r.status # records[i].status =>
         /\ r.status = "applied" =>
              \/ \A f \in Paths : installed'[f] = Release[r.to][f] \/ Since(installed'[f])
              \/ (Git /\ head # r.to)
         /\ r.status \in {"rolled-back", "rolled-back-after-failure"} =>
              IF Git THEN head' = r.from \/ made > sure
                     ELSE \A f \in Paths : installed'[f] = r.previous[f] \/ Since(installed'[f])
         /\ r.status \in {"rejected", "validated-not-applied"} =>
              \/ \A f \in Paths : installed'[f] = Release[r.from][f] \/ Edited(installed'[f])
              \/ (Git /\ head # r.from)
    ]_vars
=============================================================================
