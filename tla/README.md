# Initial-setup: specification, model checking and proofs

This directory specifies the parts of Initial-setup that change state people
care about: private configuration shared by several machines, the local
workspace it passes through, the journals and state files that recovery relies
on, and the installed tools themselves.  The specifications are written from the
sources (Nushell under `scripts/`, Rust under `tools/cloudwins/`); `PROJECT.json`
maps every definition to the lines it stands for.

## 1. The system

**Machines and files.** Every machine has a *live* configuration (what programs
read), a private *workspace* (`data_root`, a chezmoi source) and machine-local
state under `~/.config/dotfiles`.  Machines share a *provider*:

| provider | shared state | concurrency control |
| --- | --- | --- |
| `directory` | the data root itself, kept in sync by a cloud client | two equal observations |
| `local` | `revisions/<id>` and `HEAD.nuon` on a shared file system | lock file in the store |
| `rclone` | the same layout on an object store | re-reading HEAD |

**Components, their state and operations.**

| component | state | operations | what makes it correct |
| --- | --- | --- | --- |
| synchronisation transport (`sync-transport-main.nu`, `sync-provider.nu`, `sync-local-guard.nu`, `update-sync-state.nu`) | HEAD, revisions, workspace, `provider-state.nuon`, `sync-state.nuon`, source-only marker, locks | push, pull, source-only pull, acknowledge, resolve | nothing published or edited disappears unless somebody said so; baselines name what was really applied |
| automatic worker (`auto-sync*.nu`) | `auto-sync.lock`, `SYNC-CONFLICT.txt` | one cycle: fingerprint, decide, wait, look again, run the transport | every machine reaches HEAD or its user is told |
| cloudwins engine (`tools/cloudwins/src/main.rs`) | target workspace, `baseline.json`, one journal and backup set per run, target lock | plan, apply, rollback, verify, ready, status, probe | an interrupted import can always be finished backwards; the baseline names the last import |
| operation locks (`safety.nu`, `posix/`, `windows/` helpers) | lock files holding a token | acquire, release, lease | one operation per machine, one writer per store |
| state schemas (`state-schema.nu`, `migrate-state-transaction.nu`, `migrate-config.nu`) | versioned state files, migration backups, transaction records | plan, back up, commit, roll back | a record tells the truth about every file; nothing somebody else wrote disappears |
| setup runs (`setup-main.nu`, `run-state.nu`, `setup-reconcile.nu`, `run-control.nu`) | run records with stage checkpoints | start, review, resume, cancel, `dotrun --rollback` | one direction per run, what it replaces is recoverable, success means applied, rollback gives back what the run found |
| vault and secret restores (`vault.nu`, `rclone-secret-sync.nu`, `wireguard-sync.nu`, `ssh-key-sync.nu`, `rpool-sync.nu`) | age identity, registry, ciphertexts, prepared stages | capture, prepare, commit, discard | nothing live changes before everything incoming is readable |
| snapshots and rollback (`create-snapshot.nu`, `rollback.nu`, `backup-local-config.nu`) | snapshot and backup directories | create, prune, restore | a restore is guarded like a pull and can itself be undone |
| data root in a synchronised directory (`sync-provider.nu`, `sync-conflict.nu`) | the data root, baseline, recovery copies, transfer backups | observe, capture, preserve, replace root by root | no tree mixed from two moments is relied on; nothing another machine wrote is overwritten without a copy |
| self-upgrade (`safe-upgrade.nu`, `upgrade.nu`, `prune-obsolete.nu`) | installed tree or checkout, upgrade records with the previous tree | verify, preview, promote, fall back, roll back, prune | edits survive, records are true, a mixed tree can be taken back |
| Nushell runtime and bootstrap (`nu-runtime.nu`, `bootstrap.*`) | managed interpreter candidates | select, install, fall back | a working interpreter is left |
| planner, profiles, installers, identities, console, diagnostics, release tooling | plan files, manifests | see `PROJECT.json` | mostly sequential or read-only |

**Interactions.** Commands and the scheduler start `sync-transport.nu`, which
selects a runtime and runs `sync-transport-main.nu` under `operation.lock`.  A
push captures live files into the workspace (`sync-up-local.nu`), stages and
publishes a revision, then records two baselines: the provider's
(`provider-state.nuon`) and the machine's (`sync-state.nuon`, two fingerprints).
A pull goes the other way through a verified stage and `sync-down-local.nu`,
which prepares and commits rclone, WireGuard, SSH and rpool secrets around
`chezmoi apply`.  The worker only reads fingerprints and starts the same
transport.  cloud-wins mode replaces the provider by reviewed imports of the
cloudwins engine and blocks pushes.

**What is hard.** Several machines interleave on one store; people and programs
edit files while operations run; every phase can fail, and a stopped process
leaves locks, half-replaced directories and half-written pairs of files; two
fingerprint domains (revision id and tree hash) describe one HEAD.  The hazards
with their lines are listed in `PROJECT.json`.

## 2. Modules

| module | models | instance |
| --- | --- | --- |
| `CloudWins` | the cloudwins engine: plans, applies, rollbacks and the lock-free checks of several processes, journals written ahead, stops between any two writes, changes of both trees by others | `MCCloudWins` |
| `ImportStack` | what the engine promises: imports form a stack, the baseline is its top, only the top can be taken back | refined by `CloudWins` |
| `PlanMaking` | how a plan is read from two trees while others write them | `MCPlanMaking` |
| `DurableFiles` | what a loss of power leaves of the engine's files, write by write | `MCDurableFiles` |
| `SyncTransport` | push, pull, source-only pull, acknowledge, resolve and the automatic worker of several machines over a `local` or `rclone` revision store | `MCSyncTransport` |
| `DirectorySync` | push, pull, acknowledge, snapshot and restore over a `directory` provider, with the cloud client as a writer | `MCDirectorySync` |
| `StateMigration` | `dotmigrate`: one transaction over several state files while others write them | itself |
| `SetupRuns` | setup as a resumable transaction over a directory provider, snapshots, local backups and the commands that roll back | `MCSetupRuns` |
| `Upgrade` | `dotupgrade`: promotion, fallback, rollback and pruning of an extracted release or a checkout | `MCUpgrade` |
| `CloudWinsProofs`, `PlanMakingProofs`, `DurableFilesProofs`, `SyncTransportProofs`, `DirectorySyncProofs`, `StateMigrationProofs`, `SetupRunsProofs`, `UpgradeProofs` | theorems about the module of the same name, see section 5 | TLAPS |

How they fit: `PlanMaking` yields the plans that `CloudWins` applies, and
`DurableFiles` refines the order of the writes `CloudWins` treats as single steps.
`SyncTransport` and `DirectorySync` are the two kinds of provider under the same
entry script; `SyncTransport` takes the replacement of the workspace as one step,
`DirectorySync` takes it apart.  `SetupRuns` drives captures, applies and
snapshots as stages of a longer transaction.

### CloudWins

State: `mirror` (the cloud tree) and `target` (the workspace), a content per
path; `plans`; `journals`, one per run in order; `baseline` (the run recorded in
`baseline.json`); the target `lock`; and per process its `pc` and the run and
journal copy it works with.  Actions follow the writes of `main.rs`: `ApplyBegin`
accepts a plan under the lock, `ApplyStage` stages and verifies, `ApplyPrepare`
writes the journal ahead, `InstallCheck` and `InstallCommit` compare and rename
each path, `ApplyRecord` writes the baseline, `ApplyFinish` closes the journal.
`RollbackRead` reads the journal *before* the lock, as the code does, and
`RollbackBegin` to `RollbackFinish` undo.  `CheckBegin` to `ReadyReport` are
`ready` and `verify`, which take no lock: they list the journals, read the
baseline, compare the workspace and look at the run's journal again, and other
processes act in between.  `Abort` ends a process between any two actions;
`MirrorChange` and `Edit` are the cloud client and the people, who act between a
comparison and the write it guards too.

### PlanMaking

Two trees of files and directories, with names that are sequences of components
and a function that folds case.  A walk lists one directory at a time (`ListDir`)
and the files it found are read one by one (`ReadFirst`, `ReadSecond`,
`ReadTarget`); `Settle` and `Stable` are the two collections of the source and
their comparison, `NoteLayout` and `CompareLayouts` the later comparison of both
layouts, `LookAgain` the second look at every path, `WritePlan` the validation of
names.  `ChangeSource` and `ChangeTarget` fall anywhere.  Reading one file is a
step because `fingerprint` refuses a file that moves while it is read.

### DurableFiles

Every file has what a process reads (`live`) and what a loss of power may leave
of it (`disk`).  Writing is `Put`, `Flush`, `Name`, `SyncParent`; the commands use
it for backups, journals, targets and the baseline in the order of `apply` and
`rollback`.  `Stop` ends the process with its names as they are, `PowerLoss`
settles every unflushed name one way or the other.

Directories are lost in the same way.  `create_dir_all` makes `runs/<id>`, its
`backups`, the directories inside them and directories of the workspace
(`main.rs:426`, `:504`); a directory is `fresh` until the one that holds its name is
flushed, and a loss of power may take a fresh directory with all that is in it.
The engine flushes only the directory a file is in, so writing a journal settles
the name of `backups/`, and nothing ever settles `runs/<id>` or a directory inside
another one (`Nested` paths).  A finished run may therefore still lose its
directory.  What remains true is stated with two exceptions: `WriteAhead` and
`BaselineHasRun` speak of runs whose directory is there, and `PhaseIsTrue` of runs
above `spoilt`, the newest run that lost its directory or that was there when the
workspace lost one.  What the code's own comment promises without exception is
`RunsRecoverable`, which is violated (section 4).

Assumptions: a Unix file system on which flushing a directory makes the names in
it durable (`main.rs:454`); the state directory itself, made by an earlier command,
is settled; apart from directories, every file is flushed on its own, which leaves
more to lose than the real layout; the staged copies are not modelled, since
nothing reads them after a restart.  `loose` marks histories in which a process was
stopped between a name and its flush: the repeated rollback skips such a path and
does not flush it.

### SyncTransport

A tree is the set of edits it contains and, in a workspace or a revision, a `stamp`
for `.dotfiles-sync-meta.nuon`: `write-sync-meta.nu` puts the time and the writer
into it at every capture (`sync-up-local.nu:112`) and it is part of what is hashed
(`sync-provider.nu:51`), so no two captures hash alike, even of unchanged files.  A
revision's number stands for its stamp, and a capture not yet uploaded has one of
its own.  This takes for granted that one machine does not capture twice within the
same second.  The cloud fingerprint is the tree hash of HEAD, and that of a store
without HEAD is distinct from all others.  Per machine one operation runs at a time;
its phases are the places where the code reads or writes something shared: entry
script, `operation.lock`, store lock, baseline check, capture, upload, second check,
HEAD, read-back and record for a push; fetch, guard, install, second guard, apply,
record and mark for a pull; then marker, two fingerprints and release.  `Refused`
lists what each phase's checks turn down and `Fail` is the common failure path.
People may edit at any time, run every command, merge and force targets through
`dotresolve`, acknowledge a HEAD, and remove the locks of a stopped process.  The
worker decides from fingerprints, waits, looks again and starts an operation.  The
variable `setting` picks the store, the policy, who runs which command and which
accidents happen; it is chosen once.

Abstractions: one edit is one managed file's change and merges keep both sides (a
person could also drop one); a capture or an apply that fails leaves any mixture
of the two trees; replacing the workspace is one step; the ten-minute takeover of
`auto-sync.lock` is left out.

### DirectorySync

One machine whose data root a cloud client synchronises.  A managed root holds one
file, and a content is the number of the change that made it, so the client never
delivers a content again; a removal it delivers is not modelled.  Reading the data
root is a phase of its own: `ReadRoot` reads one root, `Again` starts over, and two
equal readings are accepted (`stable-provider-head`), or one reading equal to the
tree wanted (`copy-workspace`, `install-workspace`).  Commands are sequences of such
readings and of writes root by root: `Push` checks the head, preserves a changed one
in a recovery copy when a person pushes over it, takes a snapshot, captures and
reads the result into the baseline; `Pull` fetches, guards and applies; `Restore`
backs the workspace up, replaces it (`Remove`, `Place`), undoes that on an error,
and applies.  Snapshots have names, and a restore works with the name it was given
(`op.chosen`): the snapshot taken first may prune that very one, in which case there
is nothing to read from (`Present`).  `Deliver` and `Edit` fall anywhere, `Abort`
stops or fails a command anywhere.  Left out: the metadata file of the data root and
the export audit.  `missed` collects what was delivered behind the last check of a
command and `unapplied` what a person made the baseline without applying it
(acknowledge, restore `--source-only`); both are exceptions in `PushKeepsOthers`,
because the code does overwrite them.

### StateMigration

State files are `1..N`, the machine configuration first.  A content is a version
(who wrote it last) and a schema (old or new); migrating changes the schema only.
One transaction at a time holds `operation.lock` and goes through the phases of
`migrate-state-transaction.nu`: plan each file, back each up, write the record, then
for every file compare with the backup (`Check`), compare again in
`migrate-config.nu` (`Recheck`), read, write and verify (`Written`: of the
configuration only the schema version is looked at, of the other files the whole
content, `:283-287`); a failure anywhere leads to `Undo` in reverse order, and the
record becomes `committed`, `rolled-back` or `rollback-failed`.  `OtherWrite` writes
a file at any moment without the lock, as `update-sync-state.nu` does when setup and
doctor run it.  `Crash` stops the process anywhere and leaves the lock.

`Outcome`: what the last record says of a file nobody else has touched is true.
`NothingLost`: the last version somebody wrote is live or in a recorded backup,
unless it was written after the transaction's own last comparison (`raced`).

### SetupRuns

The configuration the required stages carry is one content, in the live files and in
the private source; what only optional stages carry and no local backup holds (the
settings of rpool and rclone) is a second one, the `extra`s, captured by `capture`
and brought back by `restore`.  The source also carries a stamp for its structure
and metadata.  `runs` are the records of `run-state.nu` with a checkpoint per stage;
`backups` and `snapshots` are pruned to `Keep`; `copies` are the reconciliation and
transfer copies, which nothing prunes.  `StartSetup` to `NewOrResumed` are `main`'s
review of a changed source and the choice of the run; `ChoosePolicy` resolves policy
and direction; `Steps` is the order of the stages, and `SkipStage`, `DoStage`,
`FailStage`, `StopInStage` are `run-stage`.  `RecordBaseline` and `FinishRun` end
`main`.  `StartControl` is `dotrun --rollback`, `StartRollback` `dotrollback`,
`StartRestore` `dotlocalrestore --force`, `TakeSnapshot` `dotsnapshot`; they share
the steps `Expect`, `PreSnapshot`, `Guard`, `Install`, `Meta`, `ApplySnapshot`,
`RestoreState`, `RestoreLive`.  `LateStatus` is the status `run-control.nu` writes
after it gave its lock back.  `EditLive` and `Deliver` are the people and the cloud
client, at any moment.

Abstractions: "open" stands for the three statuses that can be resumed and "begun"
for every stage that was entered and has not succeeded; the stages that do not
touch the configuration, the source or the baselines are represented by one
optional stage that always runs; keeping a protected file keeps the whole
configuration.  Whether snapshots are enabled is chosen once per behaviour
(`limit.snapshots`).

An optional stage that fails is passed over and the run still ends with `success`
(`setup-main.nu:400`).  `SuccessIsApplied` therefore says of the extras that both
sides agree or that the run's record names the stage that did not succeed, and of
the required configuration that it is applied.  With snapshots disabled or no data
root the snapshot stage succeeds without a copy (`create-snapshot.nu:35-44`), and an
import may replace what nothing else holds: `ImportedIsSaved` speaks of behaviours
with snapshots enabled.  No backup holds the live extras, so `AppliedIsSaved` and
`RollbackRestores` speak of the configuration, the source and the baseline only.

Four variables are history.  `found` is what a run found at its first backup;
`clean` says of each run whether only that run has changed the configuration, the
source or the baseline since; `copied` holds the live configuration and each of
the source's two contents while it was brought over from the other side or from a
copy and not written there; `saved` remembers
which versions existed at a run's last backup and snapshot.  `AppliedIsSaved` and
`ImportedIsSaved` exempt what was written after the backup or snapshot of a resumed
run, because the checkpointed stage is not repeated, and what an earlier attempt of
a resumed run had brought in itself; this is how the code works, not what they
would ideally say.

### Upgrade

A release is a content per path; positive contents come from releases, negative ones
are edits, and the manifest tells releases apart.  `records` are the `upgrade.nuon`
files with the previous tree each saved.  `Begin` to `CopyPrevious` verify, validate
and copy; `Replace` and `Remove` promote or restore file by file with the manifest
last; `Merge` and `Reset` are the git kind; `CheckFiles` is the comparison before a
restoration; `RestoreFails` leaves `rollback-needed` after a fallback.  A promotion
or a restoration is verified (`Promoted`, `Restored`, `Reset`) and then recorded
(`Applied`, `TakenBack`), and people edit between the two: `sure` is the number of
edits made when the tree was verified, and `StatusIsTrue` exempts exactly the later
ones.  `Stop` ends the command anywhere and may leave a temporary file in the tree;
people edit (`Edit`), another Git writer moves the checkout (`Checkout`), a release
is copied over the tree by hand (`Reinstall`) and `Prune` removes what the manifest
does not list.  A verification reads the tree in one step, and the order of the
paths but for the manifest is left open; `VERSION` is one of the files. `raced`
collects edits made after the last look at a file: `upgrade.nu:133` says that local
edits are never erased, and the check before a promotion or a restoration leaves
that window.

## 3. Runs

| run | instance and bounds | shows |
| --- | --- | --- |
| `cloudwins` | 2 paths, 2 contents, 2 processes, 2 runs, 2 plans, 1 outside change | types, the baseline through any stop, recovery of contents, one unfinished import, journals move forward, lock-free checks report the newest run, refinement of `ImportStack` |
| `plan_making` | names `a`, `A`, `a/b`, `c`, trees of up to 2 nodes, 2 contents, 2 changes | the source read is one moment's; no file of the plan that nobody touched meets an obstacle that nobody touched |
| `durable` | 2 paths, one of them nested, 2 contents, 2 runs, 2 stops or losses of power | nothing is torn, journal and backups come first and go only with their directories, phases and baseline are true of what no lost directory spoilt |
| `durable_lost_run` | the same | *violated*, see section 4 |
| `sync_safety` | 2 machines, 2 revisions, 1 stop; five settings: local store with two edits and every command, with an edit during an operation, with failing phases and a stop (pulls and merges by hand, then pushes by hand), and an rclone store with prefer_cloud | HEAD is held under the lock, publications are kept, pulls take no unpublished edit, new HEADs are noticed, a baseline is the operation's own |
| `sync_converges` | worker only, prefer_local, 2 edits, 3 revisions, `FairSpec` | every machine reaches HEAD or tells its user |
| `sync_racy_edit` | workers only, 3 edits, 3 revisions | *violated*, see section 4 |
| `directory` | 2 roots, one of them written by a capture script, 1 snapshot kept, 3 changes, 3 commands | no mixed tree is relied on, pushes and replacements keep what they overwrite |
| `state_migration` | 3 files, 2 transactions, 1 foreign write per file | `Outcome`, `NothingLost` |
| `setup` | 2 backups and 2 snapshots kept; one run of any policy with a change from outside, a fault and a command, or of each direction with a change and two faults; two runs of policy standard, which has both directions, with a change and a fault, or a fault and a command; two runs of two policies with a change; one standard run with two commands and a change or a fault; one run of each direction with snapshots disabled, a fault and a command | direction, recoverability of what setup replaces, the meaning of success with and without the optional stages, rollback |
| `setup_restore` | one run and two commands | *violated*, see section 4 |
| `upgrade` | 3 releases of 4 paths (one added, one removed, one changed back), both kinds, 2 upgrades, 2 edits, 1 stop | edits survive, mixed trees have a way back, records are true |

**Bounds and why they are enough.** Two machines are every pair of writer and
reader; a third adds no new kind of step, since machines interact only through HEAD
and the store lock.  Two edits give both sides of a conflict, one is enough to lose.
Two revisions give a base and its successor; three let both machines publish again.
Two processes of the cloudwins engine are the one that holds the lock and the one
with a stale journal; two runs give a top and what is below it. Four names give a
pair that differs in case, a file below a directory of that pair and an unrelated
one; two changes are a change and its reversal.  One nested path and one at the top
are a directory that can be lost and one that cannot; two stops cut an apply or a
rollback, and then the command that repeats or undoes it or the rest afterwards.
Two roots are one already read, removed or copied and one not yet.  Three state
files are the configuration, one already committed and one not yet.  Two kept
backups and snapshots are reached and exceeded within one run and one command.  Two
setup runs give a run and a later one that pushes its backup out.  Two upgrades give
one below another, and three releases let the second change a file back.  The bounds
of `SetupRuns` are chosen together at the start of a behaviour (`limit`), so that
each hazard gets its own room without multiplying the others.  Every safety property
of a passing run is also proved without bounds (section 5).

**Deadlock** is not checked: edits, revisions, runs and commands are used up, and
a system in which nobody does anything has really stopped.

**Fairness.** `FairSpec` assumes that a started operation runs on
(`WF(Transport)`: a subprocess is waited for, and each phase has either its
step or its refusal) and that the scheduler keeps starting the worker
(`WF(Worker)`: a timer installed by `install-auto-sync.nu`).  Nothing is assumed
of people, stops or edits.  The other modules state safety only: their commands
are started by people, and nothing in the code promises that one is finished.

## 4. Where code and documentation disagree

Each has a run that shows it and an entry in `PROJECT.json` with the quoted lines:

- `sync_racy_edit`: an edit made while a push runs becomes part of the baseline
  unpublished, and a later automatic pull replaces it.
- `durable_lost_run`: the name of `runs/<id>` is never flushed in `runs/`, so a loss of
  power after the first install can take the journal and the backups and leave the
  installed file, although `main.rs:745` calls the journal recoverable from there on.
- `setup_restore`: the snapshot a rollback takes first can prune the one it was
  asked to restore; the private source is then emptied, and `dotrun --rollback`
  reports success.

Seen while modelling and not given a run of their own:

- Releasing the lock after an upgrade recorded `applied` may fail
  (`safe-upgrade.nu:129`); `promoting` is false by then, so the handler at `:153`
  replaces the record by `rejected` although the new release is installed.  The
  model gives the lock back together with the record and does not show this.
- What a cloud client delivers between the two readings at the end of a push is
  taken into the baseline without having been applied (`sync-provider.nu:394`), and
  a later push overwrites it.  `PushKeepsOthers` exempts it (`missed`).
- A source-only pull that stops between its baseline and its marker
  (`sync-transport-main.nu:219`, `:220`) lets the next push drop what it fetched,
  although pushes should stay blocked until the source is reconciled
  (`CHANGELOG.md:57`).  `KeepsPublished` exempts exactly this (`cut`).
- A state file written between the plan of a migration and its backup is replaced
  by the migration of its older content: the hash that guards the commit is the
  backup's, and the content is read before it (`migrate-state-transaction.nu:66`),
  while `state-schema.nu:170` says that the transaction stops rather than
  overwriting concurrent state changes.  `NothingLost` still holds, as the backup has the write.
- What the cloud client delivers while setup runs becomes the trusted baseline
  (`setup-main.nu:1142`), although `setup-main.nu:1060` says that trusted baselines
  are never silently reset.
- A restore with `--source-only` makes the restored tree the baseline without
  applying it and without a marker (`rollback.nu:153`), so the next push captures
  the live files over it.
- HEAD of an rclone store is overwritten without a compare-and-swap
  (`sync-provider.nu:433`), and the cloud fingerprint is read after the baseline
  was recorded (`update-sync-state.nu:36`), so a HEAD published in between is not
  noticed there.
- With prefer_cloud the pull the worker starts is refused by the guard on local
  changes (`auto-sync-worker.nu:133`), and `--local-wins` is not declared by
  `sync-transport.nu:7`.
- Content written to a cloudwins target between the comparison and the removal of
  a created file is removed (`main.rs:798-804`).
- A rollback of cloudwins that is killed between a rename and the flush of its
  directory, and repeated, does not flush the restored path (`main.rs:799`), so a
  loss of power afterwards can bring the import back under a closed journal.
- When `migrate-config.nu` refuses because the configuration changed, the restore
  that follows overwrites that change (`migrate-state-transaction.nu:258`).
- `auto-sync.lock` is tested, taken over and written in separate steps, so two
  cycles can overlap (`auto-sync-main.nu:36`).
- `dotrun --rollback` of a failed run of a directory provider is refused by
  `assert-expected-head`, and the independent live restore is then not tried
  (`run-control.nu:143`, `CHANGELOG.md:668`).
- The status of a rolled back run is written after its lock is released
  (`run-control.nu:178`), and a run's backup is found by a substring of its name
  (`run-control.nu:40`).
- A promotion that is stopped stays `promoting`, which `dotupgrade --rollback`
  does not accept (`safe-upgrade.nu:51`); the previous files are still in the
  upgrade's directory (`cut`).  Rolling an older upgrade back after the fallback of
  a later one failed can leave files of the later release (`older`), which
  `prune-obsolete.nu` removes.

## 5. Proofs

All theorems hold for every value of the constants that meets their named
assumptions: bounds are natural numbers, null values lie outside the sets they
extend, releases are told apart by their manifests.

`CloudWinsProofs` proves every property of the run `cloudwins`.  `TypeCorrect`,
`BaselineCorrect`, `OneUnfinished`, `PhasesForward` and `ReportsAreNewest` rest on
`IInv == TypeOK /\ StackInv /\ ProcInv`: the baseline alone is not inductive,
because a process that stopped between the baseline and the closing of its
journal is only recognised through the shape of the whole stack of runs
(`StackInv`), and a process about to write must still hold a copy that agrees
with the journal on disk (`ProcInv`).  `CheckInv` adds what a lock-free check
knows of the runs it has seen.  `StackImplemented` is the refinement: under the
mapping of the runs that are not rolled back to the stack, each action pushes,
closes, pops or stutters (`ImplementsStep`).  `RecoverableAlways` (`Recoverable`)
and `SettledAlways` (`Settled`) are about the files.  Neither says anything of a
run below the top or of a rollback half done, so `TreeInv` adds that each run found
what the run below it left, on the paths nobody edited since, and that the top run
holds the old or the new content, and `JobInv` which paths a process has installed
or restored.  Each action has one step in the proof.

`PlanMakingProofs` proves the types, `SnapshotTaken` (`StableIsSnapshot`) and
`PlansFit` (`PlanFits`), for any set of names and trees of any depth.  A walk that
lists directories one after the other proves a path absent only indirectly; the
invariant says of every name that it has been seen, is absent or was changed, or
lies below a directory still to be listed.  That a plan fits its target needs what
the four walks found at their different moments: `LayoutOK` says that a walk has
recorded the kind of each node that nobody touched or still has a directory above
it to list, down to the comparison of the two layouts, whatever comes and goes
beside it.

`DurableFilesProofs` proves the types (nothing is torn), `JournalAhead`
(`WriteAhead`), `BaselineNamesRun` (`BaselineHasRun`) and `PhaseTrue`
(`PhaseIsTrue`), for any losses of files and directories.  `IInv` orders the writes: a
journal that may be on the disk has all its backups there or has lost the
directory they are in (`JournalLast`, `BackedUp`), a file that is there has its
directories (`Homed`), and a payload file is only ever being written by a run
whose journal is there for good as long as its directory is (`OpOK`,
`InstalledReady`).  `BegunInv` adds that a run named by a baseline, on the disk or
about to be, has begun in every state a loss of power may leave, unless its
directory is gone.  `PhaseIsTrue` speaks of files no process ever saw together, so
`DiskInv` quantifies over them: of every way a loss may leave the one file that is
being written, the stack of the runs above `spoilt`, the baselines and the
workspace fit each other (`Sound`, `Open`) and the last command has left what it says
(`Latest`).  `PcInv` is what the running command has established before each of its
steps.  `DiskInv` and `PcInv` hold only while no name is left unflushed by a
stopped process (`loose`), the exemption the properties make too.

`SyncTransportProofs` proves every safety property of `sync_safety`.  `MachineOK`:
a machine past the store lock holds it, the HEAD it decided on is still HEAD, and
what it staged is what its revision contains; from it follow `LockHoldsHead`,
`RecordsItsOwn` and `NewHeadsAreNoticed`, and with it `TypesHold`, because HEAD
names an uploaded revision only as long as operations carry uploaded ones.
`EditsOK` says at every phase which live edits are published or made during an
operation (`PullsKeepEdits`).  `KeptOK` follows published edits through the
workspace, the live files, the staged tree and the source-only marker, and
`FreshOK` says that a revision about to be published is in nobody's baseline;
together they give `PublishedIsKept`.  `Effect` states what a step of one machine
leaves alone of the others, so that every action is treated for its own machine
only.

`DirectorySyncProofs` proves the types, `NeverMixed` (`AcceptedIsMoment`),
`NothingOverwritten` (`PushKeepsOthers`) and `PreviousKept`
(`RestoreKeepsPrevious`).  Two equal readings are one moment because a root that
differs from what a reading began with never equals it again (`NoReturn`, for a
wanted tree `NoReturnOfWanted`), which rests on contents being numbers that only
grow (`Bounded`).  A push overwrites the head it observed (`HeadKept`) or what was
delivered since, and that head was live here, is copied or was made the baseline
by a person (`BaseKept`, `AppliesHead`).

`StateMigrationProofs` proves `TypeCorrect`, `RecordTellsTruth` (`Outcome`) and
`WritesSurvive` (`NothingLost`) for any number of files, foreign writes and
transactions.  Its invariant adds to the types: `Versions` (versions grow and no
file is ahead of its counter), `Planned` and `BackedUp` (what the running
transaction has read and saved comes from the files), `Agree` (while files are
compared, read and written, the copies in memory agree with the record on disk),
`Committed` and `Undoing` (which files hold old and which hold migrated content
at each point of the two loops), `Told` (the statement about the record, for
transactions that have ended or stopped) and `Kept` (the saved versions).  The
records alone say nothing while a transaction runs, so `Outcome` needs `Committed`
and `Undoing`; `NothingLost` needs `Kept`, which adds that a file the transaction is
past comparing already has its last version in a recorded backup.  There is one
lemma per action.

`SetupRunsProofs` proves every property of the run `setup`, for any number of runs,
writes, faults and commands and any retention.  `OneDirection` is not inductive:
that an import was entered does not by itself keep a resumed attempt from
restoring.  `IInv` adds that the directed stages of a run agree with its mode and
that none was entered before it had a policy (`RunOK`), and that an attempt has
passed its first step only if its run has a policy (`Chosen`), so that a policy is
never chosen for a run whose stages began.  `StepsInOrder` states of the sequence of
steps itself that each directed stage occurs in one mode only, that the stages
stand in one order in every sequence and that none of backup, snapshot and apply is
missing; it is proved from lemmas about concatenation.  The rest of the invariant
(`Whole`) stands on it, and each part is there because a theorem needs it:

- `Typed` (`TypesKept`) adds to `TypeOK` what each operation holds at each of its
  steps.
- `Ordered`: nothing but the backup is entered before the backup succeeded, nothing
  that changes the configuration before the snapshot did, and an attempt, resumed
  or not, has the required stages behind it.  A failed optional stage, a stop
  before a checkpoint and a resumption all have to respect it.
- `Together`: of a run that nobody disturbed, what was applied has stayed together,
  except while its rollback takes it apart, and the extras have or the record names
  the optional stage that did not bring them together; with `Ordered` this gives
  `SuccessMeans` (`SuccessIsApplied`).
- `Recorded`: of such a run every backup and snapshot, of whatever attempt, holds
  what it found, because until the snapshot is there the machine still has it.
  `Controlling` follows a rollback that selected them to its end, which gives
  `RollbackMeans` (`RollbackRestores`).
- `Selected`: snapshots are told apart and a restore uses one that is there.
  `Covered` says of each side that its content is in a copy, newer than the run's
  backup or snapshot, or was brought over, through every pruning, and more sharply
  of an attempt that started anew; it gives `AppliesWhatIsSaved` (`AppliedIsSaved`)
  and `ImportsWhatIsSaved` (`ImportedIsSaved`).

Two of these properties had to be restated before they could be proved; runs with
larger bounds confirmed both cases.  The baseline another run records also ends that
a run is undisturbed (`clean`), since `dotrun --rollback` compares the source with
it and puts it back.  And a resumed attempt may replace content that an earlier
attempt had brought in, after the only copy of it was pruned: the exemption is what
was `copied`, not only what came from elsewhere.

`UpgradeProofs` proves the types, `EditsAreKept`, `StatusesAreTrue` and
`MixedTreesHaveAWayBack`.  `Course` ties the phase to the status of the record.
`Kept` says that an edit the command will overwrite is in the previous directory.
`Placed` bounds the releases the installed files can stem from, so that a tree
that verifies is the one the status names; from the verification to the record
only edits numbered above `sure` can differ from it.  `Way` is the long one: a tree is whole
or a mix of the two versions of the newest open upgrade, whose previous directory
is complete (`Originals`), through promotion, fallback, rollback, edits and stops.

**Model-checked only.** Liveness (`Converges`), which is beyond the prover.  Every
invariant and every other action property of a passing run is proved.  The three
properties that are violated have a run each (section 4).

## 6. Plan

Done: every module and theorem above.  Worth adding, in this order:

1. The prepared restores of rclone, WireGuard, SSH and rpool secrets inside a
   pull: prepare, commit and discard with failures between them.
2. `operation.lock` with its leases and `auto-sync.lock` with its takeover as
   protocols of their own.
3. Theorems about what the repairs of section 4 would give: a rollback that keeps
   its snapshot, and directories that are flushed when they are made, with which
   `RunsRecoverable` should hold without exception.
4. Locks that cannot be released, and what their owners' error handlers do then.

## 7. Not modelled

Downloads, package managers, terminals, formatting, path validation and
cryptography are outside; what they decide appears as a nondeterministic success
or failure.

- **Operation locks** have no module of their own: their effect, what a stop
  leaves behind and who removes it are part of `SyncTransport`; the acquisition is
  one exclusive create by an external helper.
- **Vault, prepared restores, rpool configuration**: their effect on the live
  configuration is inside the applying steps of `SyncTransport`, `DirectorySync`
  and `SetupRuns`, which may leave any part done; what they do to their own files
  is mostly age, chezmoi and a privileged service at work.
- **Nushell runtime, installers, toolchains, WireGuard helpers**: sequences of
  calls of programs that are not in the repository.
- **cloud-wins front end, planner, profiles, identities, data relocation**:
  commands without another writer that check and then call what is modelled.
- **Console, diagnostics, validation, release tooling, tests**: read-only or not
  part of the running system.
- Within modelled components: `dotbackend configure`, scopes of rclone-only
  transports, the takeover of `auto-sync.lock` (`SyncTransport`); the export audit,
  the metadata file and removals the client delivers (`DirectorySync`); the field
  transforms of each schema (`StateMigration`); installers, the preview, the rclone
  provider and the version check of a resumed run (`SetupRuns`); command lines,
  path checks and the storage probe (`CloudWins`).
