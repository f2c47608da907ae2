---------------------------- MODULE DirectorySync ----------------------------
(***************************************************************************)
(* A machine whose private data root lies in a directory that a cloud      *)
(* client synchronises (provider "directory"): push, pull, acknowledge,    *)
(* snapshots and their restoration, while the client delivers what other   *)
(* machines wrote, one root at a time and whenever it likes                *)
(* (modules/sync-provider.nu, sync-transport-main.nu, sync-conflict.nu,    *)
(* create-snapshot.nu, rollback.nu).                                       *)
(*                                                                         *)
(* A managed root holds one file, and a content is the number of the       *)
(* change that made it: the client never delivers a content again.  A      *)
(* fingerprint is the tree it hashes.  The operations of one machine       *)
(* exclude each other (operation.lock, taken over by hand after a stop).   *)
(***************************************************************************)
EXTENDS Integers, Sequences

CONSTANTS Roots,             \* managed roots of the private payload
          Owned,             \* roots a capture script writes even where nothing is
          SnapshotsEnabled,  \* maintenance.snapshots_enabled
          Keep,              \* maintenance.snapshot_keep, 0 keeps all
          MaxChanges,        \* bound: changes made here and elsewhere
          MaxCommands        \* bound: commands started

ASSUME SettingAssumption == Owned \subseteq Roots /\ SnapshotsEnabled \in BOOLEAN /\ Keep \in Nat
ASSUME BoundAssumption == MaxChanges \in Nat /\ MaxCommands \in Nat

VARIABLES data,       \* the data root
          live,       \* live configuration of this machine
          made,       \* changes made so far
          base,       \* provider-state.nuon
          sync,       \* sync-state.nuon: the live fingerprint
          recovery,   \* sync-recovery/<id> with their recovery.nuon
          backups,    \* transfers/<id> of a replacement
          snapshots,  \* completed snapshots, newest first, with their names
          pc,         \* phase of the running command
          op,         \* the command and its flags
          head,       \* the observed provider head
          stage,      \* the tree to apply: the fetched one, or the snapshot
          old,        \* the workspace a replacement backed up
          local,      \* live fingerprint the guard saw
          at,         \* roots captured, replaced or applied so far
          got, prev, tries,  \* the manifest being read, the one before it, those read before
          start,      \* history: the data root when this manifest was begun
          known,      \* history: contents live files have had here
          captured,   \* history: contents a push has overwritten
          removed,    \* history: contents a replacement has removed
          missed,     \* history: contents delivered behind the back of a command
          unapplied,  \* history: contents people made the baseline without applying them
          commands

files == <<data, live, made>>
states == <<base, sync>>
copies == <<recovery, backups, snapshots>>
locals == <<op, head, stage, old, local, at>>
reader == <<got, prev, tries, start>>
history == <<known, captured, removed, missed, unapplied, commands>>
vars == <<files, states, copies, pc, locals, reader, history>>

Absent == 0
Unread == -1   \* not read, or no such record
Content == Nat
Tree == [Roots -> Content]
Empty == [r \in Roots |-> Absent]
Blank == [r \in Roots |-> Unread]
In(trees) == {t[r] : t \in trees, r \in Roots}

NoOp == [name |-> "none", manual |-> FALSE, discard |-> FALSE, sourceOnly |-> FALSE, chosen |-> 0]

Init ==
  /\ data \in {Empty} \cup {t \in [Roots -> {1}] : TRUE}
  /\ live = Empty /\ made = 1
  /\ base = Blank /\ sync = Blank
  /\ recovery = {} /\ backups = {} /\ snapshots = <<>>
  /\ pc = "idle" /\ op = NoOp /\ head = Empty /\ stage = Empty /\ old = Empty /\ local = Empty
  /\ at = [r \in Roots |-> "todo"]
  /\ got = Blank /\ prev = Blank /\ tries = 0 /\ start = Blank
  /\ known = {} /\ captured = {} /\ removed = {} /\ missed = {} /\ unapplied = {} /\ commands = 0

-----------------------------------------------------------------------------
(* The surroundings *)

\* The cloud client delivers a change of another machine.
Deliver(r) ==
  /\ made < MaxChanges
  /\ made' = made + 1
  /\ data' = [data EXCEPT ![r] = made + 1]
  /\ UNCHANGED <<live, states, copies, pc, locals, reader, history>>

\* Somebody changes the live configuration.
Edit(r) ==
  /\ made < MaxChanges
  /\ made' = made + 1
  /\ live' = [live EXCEPT ![r] = made + 1]
  /\ known' = known \cup {made + 1}
  /\ UNCHANGED <<data, states, copies, pc, locals, reader, captured, removed, missed, unapplied, commands>>

-----------------------------------------------------------------------------
(* Reading the data root *)

Heads == {"head", "asked", "kept", "publish", "same", "final", "last"}  \* stable-provider-head
Copies == {"preserve", "snapshot", "fetch", "backup"}                   \* copy-workspace
Verifies == {"verify", "undone"}                                        \* one workspace-manifest

\* A phase that reads begins with an empty manifest.
Enter(phase) ==
  /\ pc' = phase
  /\ got' = Blank /\ prev' = Blank /\ tries' = 0 /\ start' = data

\* A command ends: with success, an error, or because it was stopped.
Finish ==
  /\ pc' = "idle" /\ op' = NoOp /\ head' = Empty /\ stage' = Empty /\ old' = Empty /\ local' = Empty
  /\ at' = [r \in Roots |-> "todo"]
  /\ got' = Blank /\ prev' = Blank /\ tries' = 0 /\ start' = Blank

Full == \A r \in Roots : got[r] # Unread

ReadRoot(r) ==
  /\ pc \in Heads \cup Copies \cup Verifies
  /\ got[r] = Unread
  /\ got' = [got EXCEPT ![r] = data[r]]
  /\ UNCHANGED <<files, states, copies, pc, locals, prev, tries, start, history>>

\* What a replacement, or its undoing, must have left.
Wanted == IF pc = "verify" THEN stage ELSE old

\* Mistake: a head is trusted as soon as it was read twice.
AcceptedTwice ==
  /\ Full
  /\ \/ pc \in Heads /\ tries > 0
     \/ pc \in Copies /\ got = prev /\ tries = 2
     \/ pc \in Verifies /\ got = Wanted

\* A head is stable when two manifests in a row agree; a copy equals the
\* manifests before and after it.
Accepted ==
  /\ Full
  /\ \/ pc \in Heads /\ got = prev
     \/ pc \in Copies /\ got = prev /\ tries = 2
     \/ pc \in Verifies /\ got = Wanted

\* After the first manifest, up to three more for a head; the copy itself and
\* the manifest after it.
Again ==
  /\ Full /\ ~Accepted
  /\ \/ pc \in Heads /\ tries < 3
     \/ pc \in Copies /\ (tries = 0 \/ (tries = 1 /\ got = prev))
  /\ prev' = got /\ got' = Blank /\ tries' = tries + 1 /\ start' = data
  /\ UNCHANGED <<files, states, copies, pc, locals, history>>

\* Any error and any stop; an error of a replacement is handled below.
Abort ==
  /\ pc # "idle"
  /\ Finish
  /\ UNCHANGED <<files, states, copies, history>>

-----------------------------------------------------------------------------
(* The commands begin *)

\* The first thing every command does is to read the head, a snapshot the tree.
Begin(command, phase) ==
  /\ pc = "idle" /\ commands < MaxCommands
  /\ commands' = commands + 1
  /\ op' = command
  /\ Enter(phase)
  /\ UNCHANGED <<files, states, copies, head, old, local, at, known, captured, removed, missed, unapplied>>

\* dotpush, and the push of the automatic worker.
Push == \E m \in BOOLEAN : Begin([NoOp EXCEPT !.name = "push", !.manual = m], "head") /\ UNCHANGED stage

\* Someone who confirms the incoming difference discards local changes too.
Pull == \E d \in BOOLEAN : Begin([NoOp EXCEPT !.name = "pull", !.discard = d], "head") /\ UNCHANGED stage

\* dotbackend acknowledge.
Acknowledge == Begin([NoOp EXCEPT !.name = "acknowledge"], "head") /\ UNCHANGED stage

\* dotctl backup.
Snapshot == SnapshotsEnabled /\ Begin([NoOp EXCEPT !.name = "snapshot"], "snapshot") /\ UNCHANGED stage

\* dotctl restore: a snapshot is chosen by name, and looked up again when it is used.
Restore ==
  \E i \in DOMAIN snapshots, d, s \in BOOLEAN :
    /\ stage' = snapshots[i].tree
    /\ Begin([name |-> "restore", manual |-> TRUE, discard |-> d, sourceOnly |-> s,
              chosen |-> snapshots[i].id], "head")

\* The tree just read.
Read(phase) == pc = phase /\ Accepted

\* Nothing else changes.
Quiet == UNCHANGED <<files, states, copies, op, stage, old, local, at, history>>

-----------------------------------------------------------------------------
(* Heads, recovery copies and snapshots *)

\* assert-expected-head.
BaselineIs(t) == IF base = Blank THEN t = Empty ELSE t = base

AfterCheck(phase) == IF SnapshotsEnabled THEN "snapshot" ELSE phase

\* Automatic pushes and restores require the head to be the baseline.
CheckHead ==
  /\ Read("head") /\ op.name \in {"push", "restore"}
  /\ BaselineIs(got)
  /\ head' = got
  /\ Enter(AfterCheck(IF op.name = "push" THEN "capture" ELSE "guard"))
  /\ Quiet

\* Mistake: a manual push does not look for what it overwrites.
OverrideAtOnce ==
  /\ Read("head") /\ op.name = "push" /\ op.manual
  /\ base # Blank /\ got # base
  /\ head' = got
  /\ Enter(AfterCheck("capture"))
  /\ Quiet

\* A manual push over a changed head first makes a recovery copy.
Override ==
  /\ Read("head") /\ op.name = "push" /\ op.manual
  /\ base # Blank /\ got # base
  /\ head' = got
  /\ Enter("asked")
  /\ Quiet

\* A pull fetches the head, an acknowledgement reads it once more.
ObserveHead ==
  /\ Read("head") /\ op.name \in {"pull", "acknowledge"}
  /\ op.name = "pull" => got # Empty
  /\ head' = got
  /\ Enter(IF op.name = "pull" THEN "fetch" ELSE "same")
  /\ Quiet

\* preserve-provider-recovery: assert-same-head, the copy, assert-same-head.
Preserve ==
  /\ got = head
  /\ \/ Read("asked") /\ Enter("preserve")
     \/ Read("preserve") /\ Enter("kept")
  /\ UNCHANGED head /\ Quiet

Preserved ==
  /\ Read("kept") /\ got = head
  /\ recovery' = recovery \cup {head}
  /\ Enter(AfterCheck("capture"))
  /\ UNCHANGED <<files, states, backups, snapshots, locals, history>>

\* Mistake: nothing is pruned.
PrunedNothing(taken) == taken

\* Only the newest are kept.
Pruned(taken) ==
  IF Keep = 0 \/ Len(taken) <= Keep THEN taken ELSE SubSeq(taken, 1, Keep)

\* create-snapshot, which prunes the oldest ones after it.  A command takes one at most.
Snapshotted ==
  /\ Read("snapshot")
  /\ snapshots' = Pruned(<<[id |-> commands, tree |-> got]>> \o snapshots)
  /\ IF op.name = "snapshot"
       THEN Finish
       ELSE Enter(IF op.name = "push" THEN "capture" ELSE "guard") /\ UNCHANGED locals
  /\ UNCHANGED <<files, states, recovery, backups, history>>

-----------------------------------------------------------------------------
(* push *)

\* chezmoi re-add writes what the source already has, the capture scripts
\* write their own roots; what the machine does not have is left alone.
Captures(r) == live[r] # Absent /\ (data[r] # Absent \/ r \in Owned)

Capture(r) ==
  /\ pc = "capture" /\ at[r] = "todo"
  /\ at' = [at EXCEPT ![r] = "done"]
  /\ IF Captures(r) /\ data[r] # live[r]
       THEN /\ data' = [data EXCEPT ![r] = live[r]]
            /\ captured' = captured \cup ({data[r]} \ {Absent})
            /\ missed' = IF data[r] # head[r] THEN missed \cup {data[r]} ELSE missed
       ELSE UNCHANGED <<data, captured, missed>>
  /\ UNCHANGED <<live, made, states, copies, pc, op, head, stage, old, local, reader,
                 known, removed, unapplied, commands>>

Done == \A r \in Roots : at[r] = "done"

CaptureDone ==
  /\ pc = "capture" /\ Done
  /\ Enter("publish")
  /\ UNCHANGED head /\ Quiet

\* publish-revision and record-provider-state: whatever is there now.
Publish ==
  /\ Read("publish")
  /\ base' = got
  /\ missed' = missed \cup {got[r] : r \in {s \in Roots : got[s] # head[s] /\ got[s] \notin known}}
  /\ Enter("settle")
  /\ UNCHANGED <<files, sync, copies, locals, known, captured, removed, unapplied, commands>>

\* update-sync-state, the end of a push, a pull and a restore.
Settle ==
  /\ pc = "settle"
  /\ sync' = live
  /\ Finish
  /\ UNCHANGED <<files, base, copies, history>>

-----------------------------------------------------------------------------
(* pull and acknowledge *)

\* fetch-revision.
Fetch ==
  /\ Read("fetch") /\ got = head
  /\ stage' = got
  /\ Enter("same")
  /\ UNCHANGED <<files, states, copies, op, head, old, local, at, history>>

SameHead ==
  /\ Read("same") /\ got = head /\ op.name = "pull"
  /\ Enter("guard")
  /\ UNCHANGED head /\ Quiet

Acknowledged ==
  /\ Read("same") /\ got = head /\ op.name = "acknowledge"
  /\ base' = head
  /\ unapplied' = unapplied \cup In({head})
  /\ Finish
  /\ UNCHANGED <<files, sync, copies, known, captured, removed, missed, commands>>

\* guard-pull-local; a restore of the source alone does not ask.
Guard ==
  /\ pc = "guard" /\ ~op.sourceOnly
  /\ sync # Blank /\ live # sync => op.discard
  /\ local' = live
  /\ Enter("unchanged")
  /\ UNCHANGED <<files, states, copies, op, head, stage, old, at, history>>

\* assert-local-unchanged, after the backup of the live configuration.
Unchanged ==
  /\ \/ pc = "unchanged" /\ live = local
     \/ pc = "guard" /\ op.sourceOnly
  /\ Enter(IF op.name = "pull" THEN "apply" ELSE "backup")
  /\ UNCHANGED head /\ Quiet

\* sync-down-local, which leaves alone what the tree does not have.
Apply(r) ==
  /\ pc = "apply" /\ at[r] = "todo"
  /\ at' = [at EXCEPT ![r] = "done"]
  /\ IF stage[r] = Absent
       THEN UNCHANGED <<live, known>>
       ELSE live' = [live EXCEPT ![r] = stage[r]] /\ known' = known \cup {stage[r]}
  /\ UNCHANGED <<data, made, states, copies, pc, op, head, stage, old, local, reader,
                 captured, removed, missed, unapplied, commands>>

ApplyDone ==
  /\ pc = "apply" /\ Done
  /\ Enter(IF op.name = "pull" THEN "final" ELSE "last")
  /\ UNCHANGED head /\ Quiet

\* The baseline is what was fetched, if that is still the head.
Pulled ==
  /\ Read("final") /\ got = head
  /\ base' = head
  /\ Enter("settle")
  /\ UNCHANGED <<files, sync, copies, locals, history>>

-----------------------------------------------------------------------------
(* restore: install-workspace, then as a pull *)

\* A snapshot that was pruned meanwhile reads as a payload without any root.
Present == \E i \in DOMAIN snapshots : snapshots[i].id = op.chosen
Selected == IF Present THEN stage ELSE Empty

\* Mistake: the old workspace is only read, not copied.
BackedUpNowhere ==
  /\ Read("backup")
  /\ old' = got /\ stage' = Selected
  /\ Enter("replace")
  /\ UNCHANGED <<files, states, copies, op, head, local, at, history>>

BackedUp ==
  /\ Read("backup")
  /\ backups' = backups \cup {got}
  /\ old' = got /\ stage' = Selected
  /\ Enter("replace")
  /\ UNCHANGED <<files, states, recovery, snapshots, op, head, local, at, history>>

Target == IF pc = "replace" THEN stage ELSE old
Busy == \E r \in Roots : at[r] = "out"

\* One root after the other is removed ...
Remove(r) ==
  /\ pc \in {"replace", "undo"} /\ at[r] = "todo" /\ ~Busy
  /\ at' = [at EXCEPT ![r] = "out"]
  /\ data' = [data EXCEPT ![r] = Absent]
  /\ removed' = removed \cup ({data[r]} \ {Absent, stage[r]})
  /\ missed' = missed \cup ({data[r]} \ {old[r], stage[r]})
  /\ UNCHANGED <<live, made, states, copies, pc, op, head, stage, old, local, reader,
                 known, captured, unapplied, commands>>

\* ... and copied.
Place(r) ==
  /\ pc \in {"replace", "undo"} /\ at[r] = "out"
  /\ at' = [at EXCEPT ![r] = "done"]
  /\ data' = IF Target[r] = Absent THEN data ELSE [data EXCEPT ![r] = Target[r]]
  /\ UNCHANGED <<live, made, states, copies, pc, op, head, stage, old, local, reader, history>>

PlaceDone ==
  /\ pc \in {"replace", "undo"} /\ Done
  /\ Enter(IF pc = "replace" THEN "verify" ELSE "undone")
  /\ UNCHANGED head /\ Quiet

\* An error while roots are replaced, or a tree that is not the wanted one.
ReplaceFails ==
  /\ pc \in {"replace", "verify"}
  /\ pc = "verify" => Full /\ ~Accepted
  /\ at' = [r \in Roots |-> "todo"]
  /\ Enter("undo")
  /\ UNCHANGED <<files, states, copies, op, head, stage, old, local, history>>

\* "Previous workspace was restored automatically."
Undone ==
  /\ Read("undone")
  /\ Finish
  /\ UNCHANGED <<files, states, copies, history>>

\* The replaced source is applied, unless it is gone or the source alone was
\* asked for.
Installed ==
  /\ Read("verify")
  /\ IF op.sourceOnly
       THEN Enter("last")
       ELSE /\ live = local
            /\ Present
            /\ Enter("apply")
  /\ at' = [r \in Roots |-> "todo"]
  /\ UNCHANGED <<files, states, copies, op, head, stage, old, local, history>>

\* Whatever is there now becomes the baseline.
Restored ==
  /\ Read("last")
  /\ base' = got
  /\ missed' = missed \cup {got[r] : r \in {s \in Roots : got[s] # stage[s]}}
  /\ IF op.sourceOnly
       THEN unapplied' = unapplied \cup In({stage}) /\ Finish /\ UNCHANGED sync
       ELSE Enter("settle") /\ UNCHANGED <<locals, unapplied>>
  /\ UNCHANGED <<files, sync, copies, known, captured, removed, commands>>

-----------------------------------------------------------------------------

Environment == \E r \in Roots : Deliver(r) \/ Edit(r)
Commands == Push \/ Pull \/ Acknowledge \/ Snapshot \/ Restore
Reading == Again \/ \E r \in Roots : ReadRoot(r)
Heading == CheckHead \/ Override \/ ObserveHead \/ Preserve \/ Preserved \/ Snapshotted
Pushing == CaptureDone \/ Publish \/ \E r \in Roots : Capture(r)
Pulling == Fetch \/ SameHead \/ Acknowledged \/ Guard \/ Unchanged \/ ApplyDone \/ Pulled
             \/ \E r \in Roots : Apply(r)
Restoring == BackedUp \/ PlaceDone \/ ReplaceFails \/ Undone \/ Installed \/ Restored
               \/ \E r \in Roots : Remove(r) \/ Place(r)

Next == Environment \/ Commands \/ Reading \/ Heading \/ Pushing \/ Pulling \/ Restoring
          \/ Settle \/ Abort

Spec == Init /\ [][Next]_vars

-----------------------------------------------------------------------------
(* Properties *)

Manifest == [Roots -> Content \cup {Unread}]
Phases == Heads \cup Copies \cup Verifies
            \cup {"idle", "capture", "settle", "guard", "unchanged", "apply", "replace", "undo"}
Ops == [name : {"none", "push", "pull", "acknowledge", "snapshot", "restore"},
        manual : BOOLEAN, discard : BOOLEAN, sourceOnly : BOOLEAN, chosen : Nat]
Taken == [id : Nat, tree : Tree]

\* Every variable has its type, and no more snapshots are kept than the
\* setting says.
TypeOK ==
  /\ data \in Tree /\ live \in Tree /\ made \in Nat
  /\ base \in Manifest /\ sync \in Manifest
  /\ recovery \subseteq Tree /\ backups \subseteq Tree
  /\ snapshots \in Seq(Taken) /\ (Keep > 0 => Len(snapshots) <= Keep)
  /\ pc \in Phases /\ op \in Ops
  /\ head \in Tree /\ stage \in Tree /\ old \in Tree /\ local \in Tree
  /\ at \in [Roots -> {"todo", "out", "done"}]
  /\ got \in Manifest /\ prev \in Manifest /\ tries \in 0..3 /\ start \in Manifest
  /\ known \subseteq Content /\ captured \subseteq Content /\ removed \subseteq Content
  /\ missed \subseteq Content /\ unapplied \subseteq Content /\ commands \in Nat

\* A tree this machine relies on is never mixed from two moments: a stable
\* head, a recovery copy, a snapshot, a fetched tree and the report that a
\* replacement succeeded or was undone all name a tree the data root had, as a
\* whole, while the command looked (stable-provider-head, copy-workspace,
\* install-workspace), whatever the cloud client does meanwhile.
AcceptedIsMoment == Accepted => got = start

\* What a push overwrites in the data root was live here before, or lies in a
\* recovery copy, or came after the check of the push, or people made it the
\* baseline themselves without applying it (acknowledge, restore --source-only).
PushKeepsOthers == captured \subseteq known \cup In(recovery) \cup missed \cup unapplied

\* What the replacement of the workspace removes lies in its backup or came
\* after the backup, also when the command fails, is undone or stops half way.
RestoreKeepsPrevious == removed \subseteq In(backups) \cup missed
=============================================================================
