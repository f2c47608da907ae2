------------------------------- MODULE SetupRuns -------------------------------
(***************************************************************************)
(* Setup as a checkpointed transaction over a directory provider, and what *)
(* undoes it: setup-main.nu with its run records (run-state.nu), its       *)
(* review of a changed source (setup-reconcile.nu), `dotrun --rollback`    *)
(* (run-control.nu), snapshots and `dotrollback` (create-snapshot.nu,      *)
(* rollback.nu), local backups and `dotlocalrestore`                       *)
(* (backup-local-config.nu).                                               *)
(*                                                                         *)
(* The managed configuration is one content, live and in the private       *)
(* source; every version a person or the cloud client writes is a new      *)
(* number, 0 is none.  What only optional stages carry and no local backup *)
(* holds (the settings of rpool and rclone, on a machine that has them) is *)
(* a second content, the extras.                                           *)
(* The private source also has a stamp for what is in it besides (its      *)
(* structure and .dotfiles-sync-meta.nuon).  One operation runs at a time  *)
(* under operation.lock, people edit and the cloud client writes at any    *)
(* moment, every step can fail and the machine can stop after any of them. *)
(* Stages that change nothing modelled here (schema migration, machine     *)
(* configuration, installers) are left out; "scheduler" stands for the     *)
(* optional ones that run on every attempt.                                *)
(***************************************************************************)
EXTENDS Integers, Sequences, FiniteSets

CONSTANTS Keep,        \* maintenance.snapshot_keep
          None,        \* no record
          MaxRuns,     \* bound: runs created
          MaxWrites,   \* bound: versions written by people and the cloud client
          Limits       \* bounds a behaviour chooses from: runs, writes, faults (failures,
                       \* interruptions, machine stops), commands (snapshots, restores and
                       \* rollbacks by hand), the policies its user chooses from, and
                       \* maintenance.snapshots_enabled

Policies == {"push-local", "pull-private", "backup-private", "standard"}
ASSUME KeepAssumption == Keep \in Nat \ {0}
ASSUME BoundAssumption ==
  /\ MaxRuns \in Nat /\ MaxWrites \in Nat
  /\ Limits \subseteq [runs : 0..MaxRuns, writes : 0..MaxWrites, faults : Nat, commands : Nat,
                      policies : SUBSET Policies, snapshots : BOOLEAN]

Runs == 1..MaxRuns
LastVersion == 2 + MaxWrites
Contents == 0..LastVersion
Trees == [cfg : Contents, extra : Contents, stamp : Nat]
Empty == [cfg |-> 0, extra |-> 0, stamp |-> 0]
ASSUME NoneAssumption ==
  /\ None \notin Trees /\ None \notin Policies
  /\ None \notin [live : Contents, tree : Trees, baseline : Trees \cup {None}]

VARIABLES live,      \* the live configuration
          extra,     \* the live extras
          tree,      \* the private source
          baseline,  \* provider-state.nuon
          sync,      \* sync-state.nuon: the two fingerprints the worker compares
          runs,      \* run records, by run identifier
          backups,   \* completed local backups, oldest first
          snapshots, \* completed snapshots, oldest first
          copies,    \* copies of the private source that are never pruned
          lock,      \* operation.lock exists
          job,       \* the operation that holds it
          late,      \* a status dotrun writes after it released the lock
          count,     \* versions, commands and snapshots so far
          faults,    \* failures, interruptions and stops so far
          limit,     \* the bounds of this behaviour
          copied,    \* history: of the live configuration and of the source's two contents, those
                     \* that were last brought over, from the other side or from a copy
          found,     \* history: what a run found when it made its first backup
          clean,     \* history: only that run has changed anything since
          saved      \* history: versions that existed at a run's last backup and snapshot (before it: all)

config == <<live, extra, tree, baseline, sync>>
store == <<backups, snapshots, copies>>
fixed == <<found, saved, limit>>
history == <<clean, copied, fixed>>
vars == <<config, runs, store, lock, job, late, count, faults, history>>

-----------------------------------------------------------------------------
(* Run records *)

Stages == {"backup", "snapshot", "init", "import", "apply",
           "capture", "meta", "localbackup", "restore", "baseline", "scheduler"}
AlwaysRun == {"scheduler"}
Optional == {"capture", "restore", "scheduler"}
NeedsPrivate == {"pull-private", "backup-private"}
\* "open" stands for running, failed and interrupted, which are resumed alike, and
\* "begun" for every status of a stage that was entered and has not succeeded.
Resumable == {r \in DOMAIN runs : runs[r].status = "open"}

NewRun == [status |-> "open", policy |-> None, mode |-> None, kept |-> FALSE,
           stages |-> [s \in Stages |-> "pending"]]

\* mode-for-policy; the fallback depends on the requested mode and on the source.
Modes(policy) == CASE policy = "push-local" -> {"initial"}
                   [] policy \in NeedsPrivate -> {"existing"}
                   [] OTHER -> {"initial", "existing"}

\* Mutant: an initial setup takes no snapshot.
StepsNoSnapshot(choice, policy, mode) ==
  <<"policy", "backup">> \o (IF choice = None THEN <<>> ELSE <<"preserve">>)
  \o (IF mode = "initial" THEN <<"init", "import", "apply", "capture", "meta">>
      ELSE <<"snapshot", "init">>
           \o (IF policy = "backup-private" THEN <<"localbackup">> ELSE <<>>)
           \o <<"apply", "restore">>)
  \o <<"baseline", "scheduler">>

\* The steps of setup-impl in order; "policy" and "preserve" are not checkpointed, a copy
\* is preserved only after a choice about a changed source.
Steps(choice, policy, mode) ==
  <<"policy", "backup">> \o (IF choice = None THEN <<>> ELSE <<"preserve">>)
  \o <<"snapshot", "init">>
  \o (IF mode = "initial" THEN <<"import", "apply", "capture", "meta">>
      ELSE (IF policy = "backup-private" THEN <<"localbackup">> ELSE <<>>)
           \o <<"apply", "restore">>)
  \o <<"baseline", "scheduler">>

Idle == [kind |-> "none", pc |-> "idle", run |-> 0, resume |-> FALSE, choice |-> None,
         before |-> None, at |-> 1, snap |-> 0, want |-> None, backup |-> None, ok |-> TRUE]

My == runs[job.run]
MySteps == Steps(job.choice, My.policy, My.mode)
Step == MySteps[job.at]
InSetup(label) == job.kind = "setup" /\ job.pc = label

Init ==
  /\ \/ live \in {0, 1} /\ extra = live
        /\ tree \in {Empty, [cfg |-> 2, extra |-> 2, stamp |-> 1]}
        /\ baseline = None /\ sync = None
     \/ live = 2 /\ extra = 2 /\ tree = [cfg |-> 2, extra |-> 2, stamp |-> 1]
        /\ baseline = tree /\ sync = [local |-> 2, cloud |-> tree]
  /\ runs = <<>> /\ backups = <<>> /\ snapshots = <<>> /\ copies = {}
  /\ lock = FALSE /\ job = Idle /\ late = None
  /\ count = [version |-> 2, commands |-> 0, snapshots |-> 0] /\ faults = 0
  /\ found = [r \in Runs |-> None] /\ clean = [r \in Runs |-> TRUE]
  /\ saved = [r \in Runs |-> [backup |-> LastVersion, snapshot |-> LastVersion]]
  /\ copied = {} /\ limit \in Limits

\* Somebody other than run r changed the configuration.
Disturb(r) == clean' = [q \in Runs |-> clean[q] /\ q = r]
BroughtOver(what) == copied' = copied \cup what
WrittenThere(what) == copied' = copied \ what
InTree == {"cfg", "extra"}
Release == job' = Idle /\ lock' = FALSE
Fault == faults < limit.faults /\ faults' = faults + 1
SetStatus(r, status) == runs' = [runs EXCEPT ![r].status = status]
\* mark-stage
Mark(status) ==
  runs' = [runs EXCEPT ![job.run].stages[Step] = status, ![job.run].status = "open"]
\* Mutants: pruning leaves one too many, or the oldest.
NewestAndOne(s) == SubSeq(s, IF Len(s) > Keep THEN Len(s) - Keep ELSE 1, Len(s))
Oldest(s) == SubSeq(s, 1, IF Len(s) > Keep THEN Keep ELSE Len(s))
Newest(s) == SubSeq(s, IF Len(s) > Keep THEN Len(s) - Keep + 1 ELSE 1, Len(s))

\* create-backup: commit, then prune.
AddBackup(r) ==
  backups' = Newest(Append(backups, [run |-> r, live |-> live, baseline |-> baseline, sync |-> sync]))

\* create-snapshot succeeds without a snapshot when they are disabled and when there is no
\* data root; a source that holds nothing may be one.
NoSnapshot == ~limit.snapshots \/ tree = Empty
AddSnapshot(r) ==
  \/ /\ limit.snapshots
     /\ snapshots' = Newest(Append(snapshots, [id |-> count.snapshots + 1, run |-> r, tree |-> tree]))
     /\ count' = [count EXCEPT !.snapshots = @ + 1]
  \/ NoSnapshot /\ UNCHANGED <<snapshots, count>>

-----------------------------------------------------------------------------
(* main: the review of the source and the choice of a run *)

StartSetup(resume) ==
  /\ ~lock /\ job = Idle /\ (resume \/ Len(runs) < limit.runs)
  /\ lock' = TRUE
  /\ job' = [Idle EXCEPT !.kind = "setup", !.pc = "review", !.resume = resume, !.before = tree]
  /\ UNCHANGED <<config, runs, store, late, count, faults, history>>

\* setup-head-changed: a machine without a baseline has nothing to compare with.
Changed == baseline # None /\ baseline # job.before

\* assert-same-head follows the choice, then setup-impl makes a run or resolves the one to
\* resume: the named one or the latest.  A changed source always makes a new run.
NewOrResumed(resume) ==
  IF resume THEN UNCHANGED runs /\ \E r \in Resumable : job'.run = r
  ELSE Len(runs) < limit.runs /\ runs' = Append(runs, NewRun) /\ job'.run = Len(runs')

Review ==
  /\ InSetup("review") /\ tree = job.before
  /\ \E choice \in IF Changed THEN limit.policies \cap {"push-local", "backup-private"} ELSE {None} :
       \E r \in Runs :
         /\ job' = [job EXCEPT !.pc = "enter", !.run = r, !.choice = choice,
                               !.resume = @ /\ choice = None]
         /\ NewOrResumed(job'.resume)
  /\ UNCHANGED <<config, store, lock, late, count, faults, history>>

\* Cancelled, not interactive, changed during the review, or nothing to resume.
LeaveReview ==
  /\ InSetup("review")
  /\ Changed \/ tree # job.before \/ (job.resume /\ Resumable = {})
  /\ Release
  /\ UNCHANGED <<config, runs, store, late, count, faults, history>>

-----------------------------------------------------------------------------
(* setup-impl: stages and checkpoints *)

Advance(j) == [j EXCEPT !.pc = IF j.at < Len(MySteps) THEN "enter" ELSE "record",
                        !.at = @ + 1]

\* Mutant: a resumed run resolves its direction anew.
ChooseAgain ==
  /\ InSetup("enter") /\ Step = "policy"
  /\ \E p \in limit.policies : \E m \in Modes(p) :
       /\ p \in NeedsPrivate => tree.cfg # 0
       /\ job.choice \in {None, p}
       /\ runs' = [runs EXCEPT ![job.run].policy = p, ![job.run].mode = m]
  /\ job' = Advance(job)
  /\ UNCHANGED <<config, store, lock, late, count, faults, history>>

\* resolve-config-policy and update-run-context: a resumed run keeps what it resolved.
ChoosePolicy ==
  /\ InSetup("enter") /\ Step = "policy"
  /\ IF job.resume /\ My.policy # None
       THEN UNCHANGED runs
       ELSE \E p \in limit.policies : \E m \in Modes(p) :
              /\ job.choice \in {None, p}
              /\ runs' = [runs EXCEPT ![job.run].policy = p, ![job.run].mode = m]
  /\ runs'[job.run].policy \in NeedsPrivate => tree.cfg # 0
  /\ job' = Advance(job)
  /\ UNCHANGED <<config, store, lock, late, count, faults, history>>

\* The menu's other answers, a preview or a cancellation, end the run.
CancelRun ==
  /\ InSetup("enter") /\ Step = "policy" /\ job.choice = None /\ ~(job.resume /\ My.policy # None)
  /\ SetStatus(job.run, "cancelled")
  /\ Release
  /\ UNCHANGED <<config, store, late, count, faults, history>>

\* preserve-reviewed-source between two assert-same-head.
Preserve ==
  /\ InSetup("enter") /\ Step = "preserve"
  /\ tree = job.before
  /\ copies' = copies \cup {tree}
  /\ job' = Advance(job)
  /\ UNCHANGED <<config, runs, backups, snapshots, lock, late, count, faults, history>>

IsStage == Step \in Stages
Done == job.resume /\ My.stages[Step] = "success" /\ Step \notin AlwaysRun

-----------------------------------------------------------------------------
(* What the stages do *)

\* create-backup
BackupStage ==
  /\ AddBackup(job.run)
  /\ found' = [found EXCEPT ![job.run] = IF @ = None
                 THEN [live |-> live, tree |-> tree, baseline |-> baseline] ELSE @]
  /\ clean' = [clean EXCEPT ![job.run] = found[job.run] = None \/ @]
  /\ saved' = [saved EXCEPT ![job.run].backup = count.version]
  /\ UNCHANGED <<config, snapshots, copies, count, copied, limit>>

SnapshotStage ==
  /\ AddSnapshot(job.run)
  /\ saved' = [saved EXCEPT ![job.run].snapshot = count.version]
  /\ UNCHANGED <<config, backups, copies, found, clean, copied, limit>>

\* init-private-data creates what is missing.
Initialized(t) == IF t = Empty THEN [t EXCEPT !.stamp = 1] ELSE t
\* migrate-dotfiles and the captures of the extras skip what the machine does not have.
Imported(t) == IF live = 0 THEN t ELSE [t EXCEPT !.cfg = live]
Captured(t) == IF extra = 0 THEN t ELSE [t EXCEPT !.extra = extra]
\* write-sync-meta
Stamped(t, writer) == [t EXCEPT !.stamp = 1 + writer]

WriteTree(t) ==
  /\ tree' = t
  /\ IF t = tree THEN UNCHANGED clean ELSE Disturb(job.run)
  /\ BroughtOver({f \in InTree : t[f] # tree[f]})
  /\ UNCHANGED <<live, extra, baseline, sync, store, count, fixed>>

WriteLive(v) ==
  /\ live' = v
  /\ IF v = live THEN UNCHANGED <<clean, copied>> ELSE Disturb(job.run) /\ BroughtOver({"live"})
  /\ UNCHANGED <<extra, tree, baseline, sync, store, count, fixed>>

WriteExtra(v) ==
  /\ extra' = v
  /\ IF v = extra THEN UNCHANGED clean ELSE Disturb(job.run)
  /\ UNCHANGED <<live, tree, baseline, sync, store, count, copied, fixed>>

\* chezmoi apply and the restores of the extras remove nothing.
Applied == IF tree.cfg = 0 THEN live ELSE tree.cfg
Restored == IF tree.extra = 0 THEN extra ELSE tree.extra

LocalBackupStage ==
  /\ AddBackup(0)
  /\ UNCHANGED <<config, snapshots, copies, count, history>>

\* update-sync-state
BaselineStage ==
  /\ sync' = [local |-> live, cloud |-> tree]
  /\ UNCHANGED <<live, extra, tree, baseline, store, count, history>>

Effect ==
  CASE Step = "backup" -> BackupStage
    [] Step = "snapshot" -> SnapshotStage
    [] Step = "init" -> WriteTree(Initialized(tree))
    [] Step = "import" -> WriteTree(Imported(tree))
    [] Step = "capture" -> WriteTree(Captured(tree))
    [] Step = "meta" -> WriteTree(Stamped(tree, job.run))
    [] Step = "apply" -> WriteLive(Applied)
    [] Step = "restore" -> WriteExtra(Restored)
    [] Step = "localbackup" -> LocalBackupStage
    [] Step = "baseline" -> BaselineStage
    [] OTHER -> UNCHANGED <<config, store, count, history>>

-----------------------------------------------------------------------------
(* run-stage *)

AtStage == InSetup("enter") /\ IsStage

SkipStage ==
  /\ AtStage /\ Done
  /\ job' = Advance(job)
  /\ UNCHANGED <<config, runs, store, lock, late, count, faults, history>>

DoStage ==
  /\ AtStage /\ ~Done
  /\ Effect
  /\ Mark("success")
  /\ job' = Advance(job)
  /\ UNCHANGED <<lock, late, faults>>

\* Except with push-local a protected file that differs is kept if its user says so.
KeepProtected ==
  /\ AtStage /\ ~Done /\ Step = "apply"
  /\ My.policy # "push-local" /\ live # tree.cfg
  /\ runs' = [runs EXCEPT ![job.run].stages[Step] = "success", ![job.run].status = "open",
                         ![job.run].kept = TRUE]
  /\ job' = Advance(job)
  /\ UNCHANGED <<config, store, lock, late, count, faults, history>>

\* Mutant: an optional stage that is passed over counts as completed.
PassOver ==
  /\ AtStage /\ ~Done /\ Fault
  /\ Effect \/ UNCHANGED <<config, store, count, history>>
  /\ \/ Step \in Optional /\ Mark("success") /\ job' = Advance(job) /\ UNCHANGED lock
     \/ Mark("begun") /\ Release
  /\ UNCHANGED late

\* A stage fails before or after it did its work: an optional one is passed over, a
\* required one or an interruption ends the attempt...
FailStage ==
  /\ AtStage /\ ~Done /\ Fault
  /\ Effect \/ UNCHANGED <<config, store, count, history>>
  /\ Mark("begun")
  /\ \/ Step \in Optional /\ job' = Advance(job) /\ UNCHANGED lock
     \/ Release
  /\ UNCHANGED late

\* ... and so does a machine that stops after the work, before its checkpoint.
StopInStage ==
  /\ AtStage /\ ~Done /\ Fault
  /\ Effect
  /\ Mark("begun")
  /\ job' = Idle
  /\ UNCHANGED <<lock, late>>

\* An error outside the stages leaves the run open.
FailOutside ==
  /\ (InSetup("enter") /\ ~IsStage) \/ InSetup("record") \/ InSetup("finish")
  /\ Fault
  /\ Release
  /\ UNCHANGED <<config, runs, store, late, count, history>>

\* main, after setup-impl: the source as it is now becomes the baseline.
RecordBaseline ==
  /\ InSetup("record")
  /\ baseline' = tree
  /\ IF tree = baseline THEN UNCHANGED clean ELSE Disturb(job.run)
  /\ job' = [job EXCEPT !.pc = "finish"]
  /\ UNCHANGED <<live, extra, tree, sync, runs, store, lock, late, count, faults, copied, fixed>>

FinishRun ==
  /\ InSetup("finish")
  /\ SetStatus(job.run, "success")
  /\ Release
  /\ UNCHANGED <<config, store, late, count, faults, history>>

-----------------------------------------------------------------------------
(* dotrun --rollback, dotrollback, dotlocalrestore, dotsnapshot *)

Kept(id) == \E i \in DOMAIN snapshots : snapshots[i].id = id
\* matching-backup, matching-snapshot: the newest that carries the run's label.
OfRun(s, r) == {i \in DOMAIN s : s[i].run = r}
Latest(I) == CHOOSE i \in I : \A k \in I : k <= i
InJob(label) == job.pc = label
FromRun == job.kind = "control"

\* Without a backup nothing is restored, without a snapshot only the live files.
StartControl ==
  /\ ~lock /\ job = Idle /\ late = None /\ count.commands < limit.commands
  /\ lock' = TRUE /\ count' = [count EXCEPT !.commands = @ + 1]
  /\ \E r \in DOMAIN runs :
       LET B == OfRun(backups, r)
           S == OfRun(snapshots, r)
           j == [Idle EXCEPT !.kind = "control", !.run = r]
       IN job' = IF B = {} THEN [j EXCEPT !.pc = "release", !.ok = FALSE]
                 ELSE IF S = {} THEN [j EXCEPT !.pc = "state", !.backup = backups[Latest(B)]]
                 ELSE [j EXCEPT !.pc = "expect", !.backup = backups[Latest(B)],
                                !.snap = snapshots[Latest(S)].id, !.want = snapshots[Latest(S)].tree]
  /\ UNCHANGED <<config, runs, store, late, faults, history>>

\* dotrollback of any snapshot.
StartRollback ==
  /\ ~lock /\ job = Idle /\ count.commands < limit.commands
  /\ \E i \in DOMAIN snapshots :
       job' = [Idle EXCEPT !.kind = "rollback", !.pc = "expect",
                           !.snap = snapshots[i].id, !.want = snapshots[i].tree]
  /\ lock' = TRUE /\ count' = [count EXCEPT !.commands = @ + 1]
  /\ UNCHANGED <<config, runs, store, late, history, faults>>

\* assert-expected-head
Expected == IF baseline = None THEN tree = Empty ELSE baseline = tree
Expect ==
  /\ InJob("expect")
  /\ job' = IF Expected THEN [job EXCEPT !.pc = "presnap"] ELSE [job EXCEPT !.pc = "release", !.ok = FALSE]
  /\ UNCHANGED <<config, runs, store, lock, late, count, faults, history>>

\* The snapshot taken first prunes too.
PreSnapshot ==
  /\ InJob("presnap")
  /\ AddSnapshot(0)
  /\ job' = [job EXCEPT !.pc = IF FromRun THEN "install" ELSE "guard"]
  /\ UNCHANGED <<config, runs, backups, copies, lock, late, history, faults>>

\* guard-pull-local (its user may consent to lose local changes) and the local backup.
Guard ==
  /\ InJob("guard")
  /\ AddBackup(0)
  /\ job' = [job EXCEPT !.pc = "install", !.before = live]
  /\ UNCHANGED <<config, runs, snapshots, copies, lock, late, count, faults, history>>

\* install-workspace: a source that is gone has an empty manifest.
Install ==
  /\ InJob("install")
  /\ ~FromRun => job.before = live
  /\ tree' = IF Kept(job.snap) THEN job.want ELSE Empty
  /\ copies' = copies \cup {tree}
  /\ Disturb(job.run) /\ WrittenThere(InTree)
  /\ job' = [job EXCEPT !.pc = IF FromRun THEN "record" ELSE "meta"]
  /\ UNCHANGED <<live, extra, baseline, sync, runs, backups, snapshots, lock, late, count, fixed, faults>>

Meta ==
  /\ InJob("meta")
  /\ tree' = Stamped(tree, MaxRuns + job.snap)
  /\ Disturb(0)
  /\ job' = [job EXCEPT !.pc = "apply"]
  /\ UNCHANGED <<live, extra, baseline, sync, runs, store, lock, late, count, copied, fixed, faults>>

\* assert-local-unchanged, then sync-down-local from the snapshot; a snapshot of a source
\* that had no structure yet is not a chezmoi root.
ApplySnapshot ==
  /\ InJob("apply") /\ job.before = live /\ Kept(job.snap) /\ job.want # Empty
  /\ live' = IF job.want.cfg = 0 THEN live ELSE job.want.cfg
  /\ extra' = IF job.want.extra = 0 THEN extra ELSE job.want.extra
  /\ Disturb(0) /\ BroughtOver({"live"})
  /\ job' = [job EXCEPT !.pc = "record"]
  /\ UNCHANGED <<tree, baseline, sync, runs, store, lock, late, count, fixed, faults>>

\* record-provider-state; update-sync-state unless only the source was restored.
RecordRollback ==
  /\ InJob("record") /\ job.kind \in {"control", "rollback"}
  /\ baseline' = tree
  /\ sync' = IF FromRun THEN sync ELSE [local |-> live, cloud |-> tree]
  /\ job' = [job EXCEPT !.pc = IF FromRun THEN "state" ELSE "release"]
  /\ UNCHANGED <<live, extra, tree, runs, store, lock, late, count, faults, history>>

\* dotlocalrestore --force of any backup.
StartRestore ==
  /\ ~lock /\ job = Idle /\ count.commands < limit.commands
  /\ \E i \in DOMAIN backups :
       job' = [Idle EXCEPT !.kind = "restore", !.pc = "state", !.backup = backups[i]]
  /\ lock' = TRUE /\ count' = [count EXCEPT !.commands = @ + 1]
  /\ UNCHANGED <<config, runs, store, late, history, faults>>

\* Mutant: provider-state.nuon is not among the restored files.
RestoreSyncOnly ==
  /\ InJob("state")
  /\ sync' = job.backup.sync
  /\ job' = [job EXCEPT !.pc = "live", !.before = [live |-> live, baseline |-> baseline, sync |-> sync]]
  /\ UNCHANGED <<live, extra, tree, baseline, runs, store, lock, late, count, faults, history>>

\* restore-backup: state files come before configuration files.
RestoreState ==
  /\ InJob("state")
  /\ baseline' = job.backup.baseline /\ sync' = job.backup.sync
  /\ job' = [job EXCEPT !.pc = "live", !.before = [live |-> live, baseline |-> baseline, sync |-> sync]]
  /\ UNCHANGED <<live, extra, tree, runs, store, lock, late, count, faults, history>>

RestoreLive ==
  /\ InJob("live")
  /\ live' = job.backup.live
  /\ Disturb(job.run) /\ WrittenThere({"live"})
  /\ job' = [job EXCEPT !.pc = "release"]
  /\ UNCHANGED <<extra, tree, baseline, sync, runs, store, lock, late, count, fixed, faults>>

\* restore-from-recovery
RestoreFails ==
  /\ InJob("live")
  /\ Fault
  /\ live' = job.before.live /\ baseline' = job.before.baseline /\ sync' = job.before.sync
  /\ Disturb(job.run)
  /\ IF live' = live THEN UNCHANGED copied ELSE BroughtOver({"live"})
  /\ job' = [job EXCEPT !.pc = "release", !.ok = FALSE]
  /\ UNCHANGED <<extra, tree, runs, store, lock, late, fixed, count>>

\* A rollback refuses what changed under it and a source that it cannot apply.
Refused ==
  /\ job.kind = "rollback" /\ job.pc \in {"install", "apply"}
  /\ job.before # live \/ (job.pc = "apply" /\ (~Kept(job.snap) \/ job.want = Empty))

RollbackFails ==
  /\ job.kind \in {"control", "rollback", "restore"}
  /\ job.pc \in {"presnap", "guard", "install", "apply", "record", "state"}
  /\ IF Refused THEN UNCHANGED faults ELSE Fault
  /\ job' = [job EXCEPT !.pc = "release", !.ok = FALSE]
  /\ UNCHANGED <<config, runs, store, lock, late, history, count>>

\* The lease is released first, the status written afterwards.
ReleaseJob ==
  /\ InJob("release")
  /\ Release
  /\ late' = IF FromRun THEN [run |-> job.run, status |-> IF job.ok THEN "rolled-back" ELSE "rollback-failed"]
             ELSE late
  /\ Disturb(0)
  /\ UNCHANGED <<config, runs, store, count, copied, fixed, faults>>

LateStatus ==
  /\ late # None
  /\ SetStatus(late.run, late.status)
  /\ late' = None
  /\ UNCHANGED <<config, store, lock, job, count, history, faults>>

TakeSnapshot ==
  /\ ~lock /\ job = Idle /\ limit.snapshots /\ count.commands < limit.commands
  /\ snapshots' = Newest(Append(snapshots, [id |-> count.snapshots + 1, run |-> 0, tree |-> tree]))
  /\ count' = [count EXCEPT !.commands = @ + 1, !.snapshots = @ + 1]
  /\ UNCHANGED <<config, runs, backups, copies, lock, job, late, history, faults>>

-----------------------------------------------------------------------------
(* Others *)

EditLive ==
  /\ count.version < 2 + limit.writes
  /\ count' = [count EXCEPT !.version = @ + 1]
  /\ \/ live' = count'.version /\ WrittenThere({"live"}) /\ UNCHANGED extra
     \/ extra' = count'.version /\ UNCHANGED <<live, copied>>
  /\ Disturb(0)
  /\ UNCHANGED <<tree, baseline, sync, runs, store, lock, job, late, fixed, faults>>

\* The cloud client delivers what another machine pushed.
Deliver ==
  /\ count.version < 2 + limit.writes
  /\ count' = [count EXCEPT !.version = @ + 1]
  /\ tree' = [cfg |-> count'.version, extra |-> count'.version,
               stamp |-> IF tree.stamp = 0 THEN 1 ELSE tree.stamp]
  /\ Disturb(0) /\ WrittenThere(InTree)
  /\ UNCHANGED <<live, extra, baseline, sync, runs, store, lock, job, late, fixed, faults>>

\* The machine stops; the lock file stays.
Stop ==
  /\ job # Idle \/ late # None
  /\ Fault
  /\ job' = Idle /\ late' = None
  /\ IF job.kind \in {"none", "setup"} THEN UNCHANGED clean ELSE Disturb(0)
  /\ UNCHANGED <<config, runs, store, lock, copied, fixed, count>>

\* Its user removes the lock of the stopped process.
RemoveLock ==
  /\ lock /\ job = Idle
  /\ lock' = FALSE
  /\ UNCHANGED <<config, runs, store, job, late, count, faults, history>>

Setup == \/ \E resume \in BOOLEAN : StartSetup(resume)
         \/ Review \/ LeaveReview \/ ChoosePolicy \/ CancelRun \/ Preserve
         \/ SkipStage \/ DoStage \/ KeepProtected \/ FailStage \/ StopInStage
         \/ FailOutside \/ RecordBaseline \/ FinishRun
Recovery == \/ StartControl \/ StartRollback \/ Expect \/ PreSnapshot \/ Guard
            \/ Install \/ Meta \/ ApplySnapshot \/ RecordRollback \/ StartRestore \/ RestoreState
            \/ RestoreLive \/ RestoreFails \/ RollbackFails \/ ReleaseJob \/ LateStatus \/ TakeSnapshot
Others == EditLive \/ Deliver \/ Stop \/ RemoveLock

Next == Setup \/ Recovery \/ Others
Spec == Init /\ [][Next]_vars

-----------------------------------------------------------------------------
(* Properties *)

Optionally(S) == S \cup {None}
RunRecord == [status : {"open", "success", "cancelled", "rolled-back", "rollback-failed"},
              policy : Optionally(Policies), mode : Optionally({"initial", "existing"}),
              kept : BOOLEAN,
              stages : [Stages -> {"pending", "begun", "success"}]]
SyncState == [local : Contents, cloud : Trees]
Backup == [run : 0..MaxRuns, live : Contents, baseline : Optionally(Trees), sync : Optionally(SyncState)]
Snapshot == [id : Nat \ {0}, run : 0..MaxRuns, tree : Trees]

\* Types of the configuration, the run records and what recovery keeps.
TypeOK ==
  /\ live \in Contents /\ extra \in Contents /\ tree \in Trees
  /\ baseline \in Optionally(Trees) /\ sync \in Optionally(SyncState)
  /\ runs \in Seq(RunRecord) /\ Len(runs) <= MaxRuns
  /\ backups \in Seq(Backup) /\ Len(backups) <= Keep
  /\ snapshots \in Seq(Snapshot) /\ Len(snapshots) <= Keep
  /\ copies \subseteq Trees
  /\ lock \in BOOLEAN /\ (job # Idle => lock)
  /\ late # None => late.run \in DOMAIN runs
  /\ job.run # 0 => job.run \in DOMAIN runs
  /\ job.kind = "setup" /\ job.pc = "enter" => job.at \in DOMAIN MySteps

Copies == {0} \cup {backups[i].live : i \in DOMAIN backups}
              \cup {snapshots[i].tree.cfg : i \in DOMAIN snapshots} \cup {t.cfg : t \in copies}
Extras == {0} \cup {snapshots[i].tree.extra : i \in DOMAIN snapshots} \cup {t.extra : t \in copies}

\* Setup replaces live configuration (apply-private-source, the restores) only by what the
\* private source holds, and what it replaces is in a copy recovery still has, however many
\* runs were interrupted, resumed and rolled back before.  Not in a copy is what was written
\* after the run's backup, which a resumed attempt does not repeat, and what an earlier
\* attempt had brought in from a source that was replaced since.
AppliedIsSaved ==
  [][InSetup("enter") /\ job' # job /\ live' # live
       => \/ live \in Copies \cup {tree.cfg} \/ live > saved[job.run].backup
          \/ job.resume /\ "live" \in copied]_vars

\* While snapshots are enabled, what an import (migrate-dotfiles) or a capture of extras
\* replaces in the private source is live or in a copy, unless it came from the live side
\* before or was written after the run's snapshot.
ImportedIsSaved ==
  [][InSetup("enter") /\ job' # job /\ limit.snapshots =>
       /\ tree'.cfg # tree.cfg
          => \/ tree.cfg \in Copies \cup {live} \/ "cfg" \in copied
             \/ tree.cfg > saved[job.run].snapshot
       /\ tree'.extra # tree.extra
          => \/ tree.extra \in Extras \cup {extra} \/ "extra" \in copied
             \/ tree.extra > saved[job.run].snapshot]_vars

\* A run goes in one direction: after an attempt that imported the live configuration no
\* resumed attempt enters the stages that bring the private configuration in, although the
\* source the first attempt filled would now count as existing.
OneDirection ==
  \A r \in DOMAIN runs :
    runs[r].stages["import"] # "pending" =>
      runs[r].stages["restore"] = "pending" /\ runs[r].stages["localbackup"] = "pending"

\* When dotrun --rollback gives its lock back without an error and nobody but the run has
\* changed anything, the machine has the live configuration, the private source and the
\* baseline that the run found, unless the run's snapshot was pruned or none was taken.
RollbackRestores ==
  /\ job.kind = "control" /\ job.pc = "release" /\ job.ok /\ clean[job.run]
  /\ IF job.snap = 0 THEN My.stages["snapshot"] = "pending" ELSE Kept(job.snap)
  => found[job.run] = [live |-> live, tree |-> tree, baseline |-> baseline]

\* A run that is about to be called a success has really brought both sides together, in
\* whatever attempts, and its baseline is the source as it left it, unless somebody else
\* wrote meanwhile or its user kept a protected file.  Of the extras, whose stages are
\* optional, that holds or the run's record names the stage that did not succeed.
SuccessIsApplied ==
  InSetup("finish") /\ clean[job.run] =>
    /\ My.kept \/ tree.cfg \in {0, live}
    /\ IF My.mode = "initial" THEN My.stages["capture"] = "begun" \/ extra \in {0, tree.extra}
       ELSE My.stages["restore"] = "begun" \/ tree.extra \in {0, extra}
    /\ baseline = tree

\* A rollback that goes on after it replaced the workspace has replaced it by the snapshot
\* that was selected ("[ok] Restored ... snapshot").
RestoresSelected ==
  [][InJob("install") /\ job'.pc \in {"record", "meta"} => tree' = job.want]_vars
===============================================================================
