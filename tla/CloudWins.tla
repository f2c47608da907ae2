------------------------------ MODULE CloudWins ------------------------------
(***************************************************************************)
(* The cloudwins engine (tools/cloudwins/src/main.rs): it imports a cloud  *)
(* mirror into a workspace under an approved plan, with a write-ahead      *)
(* journal per run, and rolls runs back, latest first.                     *)
(*                                                                         *)
(* Processes run `apply --execute`, `rollback --execute`, `ready` and      *)
(* `verify`; they can stop at any point (a crash, an I/O error and a       *)
(* failing ensure! leave the same state behind: the files as they are, and *)
(* the OS lock released).  The two checks take no lock.                    *)
(* The cloud client changes the mirror and people edit the workspace at    *)
(* any time, also between a check and the rename it protects.              *)
(*                                                                         *)
(* A file is its content (the code compares SHA-256 and size).  A run is   *)
(* its order number; the bytes in runs/<id>/staged and runs/<id>/backups   *)
(* are those of the plan (copy_temp verifies them before the journal is    *)
(* written), so they need no variable.  baseline.json is determined by the *)
(* run that wrote it: the variable holds that run, 0 when there is no file.*)
(***************************************************************************)
EXTENDS Integers, Sequences, FiniteSets

CONSTANTS Paths,     \* relative paths both trees may hold
          Contents,  \* contents of a file
          Absent,    \* no file at a path
          Procs,     \* cloudwins processes
          NoProc,    \* the target lock is free
          NoPath,    \* no path between check and rename
          MaxRuns,   \* bound: journals written
          MaxEdits,  \* bound: changes made by people and by the cloud client
          MaxPlans   \* bound: plans on disk

ASSUME AbsentAssumption == Absent \notin Contents
ASSUME NoProcAssumption == NoProc \notin Procs
ASSUME NoPathAssumption == NoPath \notin Paths

VARIABLES mirror,    \* the source tree
          target,    \* the workspace
          plans,     \* plans/<id>.json
          journals,  \* runs/<id>/journal.json, by order
          baseline,  \* run recorded in baseline.json
          lock,      \* holder of cloud-wins.lock
          pc, job,   \* control state and locals of each process
          clean,     \* history: per run, the paths nobody edited since its last check
          edits      \* changes made from outside so far

vars == <<mirror, target, plans, journals, baseline, lock, pc, job, clean, edits>>
outside == <<mirror, plans, edits>>

Tree == [Paths -> Contents \cup {Absent}]
Plan == [source : Tree, target : Tree]
Phase == {"Prepared", "Applying", "Applied", "RollingBack", "RolledBack"}
Journal == [phase : Phase, plan : Plan, prev : Nat]

\* Entries whose action is Create or Replace, and the tree apply must produce:
\* files only in the workspace are kept.
Changes(plan) == {p \in Paths : plan.source[p] \notin {Absent, plan.target[p]}}
Result(plan) == [p \in Paths |-> IF plan.source[p] = Absent THEN plan.target[p]
                                                             ELSE plan.source[p]]

Runs == DOMAIN journals
Unrolled == {r \in Runs : journals[r].phase # "RolledBack"}
Unfinished == {r \in Runs : journals[r].phase \notin {"Applied", "RolledBack"}}
IsLatest(r) == r \in Unrolled /\ \A s \in Unrolled : s <= r

Preconditions(plan) == mirror = plan.source /\ target = plan.target
\* Rollback infers progress from contents, never from completed_paths.
OldOrNew(plan, p) == target[p] \in {plan.target[p], plan.source[p]}

Idle == [run |-> 0, known |-> 0, todo |-> {}, at |-> NoPath,
         plan |-> [source |-> [p \in Paths |-> Absent], target |-> [p \in Paths |-> Absent]]]

Init ==
  /\ mirror \in Tree /\ target \in Tree
  /\ plans = {}
  /\ journals = <<>>
  /\ baseline = 0
  /\ lock = NoProc
  /\ pc = [c \in Procs |-> "idle"]
  /\ job = [c \in Procs |-> Idle]
  /\ clean = <<>>
  /\ edits = 0

Goto(c, label, locals) ==
  /\ pc' = [pc EXCEPT ![c] = label]
  /\ job' = [job EXCEPT ![c] = locals]
SetPhase(r, ph) == journals' = [journals EXCEPT ![r].phase = ph]
Release(c) == lock' = IF lock = c THEN NoProc ELSE lock

-----------------------------------------------------------------------------
(* Outside changes *)

\* The cloud client rewrites, adds or removes a file of the mirror.
MirrorChange(p, v) ==
  /\ edits < MaxEdits /\ v # mirror[p]
  /\ edits' = edits + 1
  /\ mirror' = [mirror EXCEPT ![p] = v]
  /\ UNCHANGED <<target, plans, journals, baseline, lock, pc, job, clean>>

\* Somebody edits the workspace.
Edit(p, v) ==
  /\ edits < MaxEdits /\ v # target[p]
  /\ edits' = edits + 1
  /\ target' = [target EXCEPT ![p] = v]
  /\ clean' = [r \in DOMAIN clean |-> clean[r] \ {p}]
  /\ UNCHANGED <<mirror, plans, journals, baseline, lock, pc, job>>

-----------------------------------------------------------------------------
(* plan *)

\* `plan` needs no lock: it records both trees as they are.
MakePlan ==
  /\ Cardinality(plans) < MaxPlans
  /\ \E p \in Paths : mirror[p] # Absent
  /\ plans' = plans \cup {[source |-> mirror, target |-> target]}
  /\ UNCHANGED <<mirror, target, journals, baseline, lock, pc, job, clean, edits>>

-----------------------------------------------------------------------------
(* apply --execute *)

\* Mistake: a pending run does not block the next apply.
ApplyBeginDespitePending(c, plan) ==
  /\ pc[c] = "idle"
  /\ lock = NoProc
  /\ Len(journals) < MaxRuns
  /\ Preconditions(plan)
  /\ lock' = c
  /\ Goto(c, "staging", [Idle EXCEPT !.plan = plan])
  /\ UNCHANGED <<outside, target, journals, baseline, clean>>

ApplyBegin(c, plan) ==
  /\ pc[c] = "idle"
  /\ lock = NoProc
  /\ Len(journals) < MaxRuns
  /\ Unfinished = {}
  /\ Preconditions(plan)
  /\ lock' = c
  /\ Goto(c, "staging", [Idle EXCEPT !.plan = plan])
  /\ UNCHANGED <<outside, target, journals, baseline, clean>>

\* Mistake: the trees are not compared again after staging.
ApplyStageUnverified(c) ==
  /\ pc[c] = "staging"
  /\ clean' = Append([r \in 1..Len(journals) |-> clean[r]], Paths)
  /\ Goto(c, "staged", job[c])
  /\ UNCHANGED <<outside, target, journals, baseline, lock>>

\* All new bytes staged and all backups taken, each verified against the plan,
\* then both trees are compared with the plan again.
ApplyStage(c) ==
  /\ pc[c] = "staging"
  /\ Preconditions(job[c].plan)
  /\ clean' = Append([r \in 1..Len(journals) |-> clean[r]], Paths)
  /\ Goto(c, "staged", job[c])
  /\ UNCHANGED <<outside, target, journals, baseline, lock>>

\* The write-ahead journal: its order is one more than the highest.
ApplyPrepare(c) ==
  /\ pc[c] = "staged"
  /\ journals' = Append(journals, [phase |-> "Prepared", plan |-> job[c].plan, prev |-> baseline])
  /\ Goto(c, "prepared", [job[c] EXCEPT !.run = Len(journals) + 1])
  /\ UNCHANGED <<outside, target, baseline, lock, clean>>

ApplyStart(c) ==
  /\ pc[c] = "prepared"
  /\ SetPhase(job[c].run, "Applying")
  /\ Goto(c, "installing", [job[c] EXCEPT !.todo = Changes(job[c].plan)])
  /\ UNCHANGED <<outside, target, baseline, lock, clean>>

\* install: the fingerprint comparison just before the rename or link...
InstallCheck(c, p) ==
  /\ pc[c] = "installing"
  /\ p \in job[c].todo
  /\ target[p] = job[c].plan.target[p]
  /\ Goto(c, "installChecked", [job[c] EXCEPT !.at = p])
  /\ UNCHANGED <<outside, target, journals, baseline, lock, clean>>

\* ...and the change itself: a rename replaces whatever is there, a hard link
\* fails when something is.
InstallCommit(c) ==
  LET p == job[c].at IN
  /\ pc[c] = "installChecked"
  /\ job[c].plan.target[p] = Absent => target[p] = Absent
  /\ target' = [target EXCEPT ![p] = job[c].plan.source[p]]
  /\ Goto(c, "installing", [job[c] EXCEPT !.at = NoPath, !.todo = @ \ {p}])
  /\ UNCHANGED <<outside, journals, baseline, lock, clean>>

\* Mistake: the baseline names the run after this one.
ApplyRecordOffByOne(c) ==
  /\ pc[c] = "installing"
  /\ job[c].todo = {}
  /\ mirror = job[c].plan.source
  /\ target = Result(job[c].plan)
  /\ baseline' = job[c].run + 1
  /\ Goto(c, "recorded", job[c])
  /\ UNCHANGED <<outside, target, journals, lock, clean>>

\* Both trees are as expected; baseline.json is written before the final phase.
ApplyRecord(c) ==
  /\ pc[c] = "installing"
  /\ job[c].todo = {}
  /\ mirror = job[c].plan.source
  /\ target = Result(job[c].plan)
  /\ baseline' = job[c].run
  /\ Goto(c, "recorded", job[c])
  /\ UNCHANGED <<outside, target, journals, lock, clean>>

ApplyFinish(c) ==
  /\ pc[c] = "recorded"
  /\ SetPhase(job[c].run, "Applied")
  /\ Release(c)
  /\ Goto(c, "idle", Idle)
  /\ UNCHANGED <<outside, target, baseline, clean>>

-----------------------------------------------------------------------------
(* rollback --execute *)

\* The journal is read before the lock is taken; a run that is rolled back
\* already is refused.
RollbackRead(c, r) ==
  /\ pc[c] = "idle"
  /\ journals[r].phase # "RolledBack"
  /\ Goto(c, "rollbackRead", [Idle EXCEPT !.run = r, !.plan = journals[r].plan])
  /\ UNCHANGED <<outside, target, journals, baseline, lock, clean>>

\* Mistake: the journal read before the lock is trusted under it.
RollbackBeginStale(c) ==
  /\ pc[c] = "rollbackRead"
  /\ lock = NoProc
  /\ \A p \in Changes(job[c].plan) : OldOrNew(job[c].plan, p)
  /\ lock' = c
  /\ Goto(c, "rollbackChecked", job[c])
  /\ UNCHANGED <<outside, target, journals, baseline, clean>>

\* Under the lock: this run is the latest that is not rolled back, and every
\* changed path holds the old or the new content.
RollbackBegin(c) ==
  /\ pc[c] = "rollbackRead"
  /\ lock = NoProc
  /\ IsLatest(job[c].run)
  /\ \A p \in Changes(job[c].plan) : OldOrNew(job[c].plan, p)
  /\ lock' = c
  /\ Goto(c, "rollbackChecked", job[c])
  /\ UNCHANGED <<outside, target, journals, baseline, clean>>

RollbackStart(c) ==
  /\ pc[c] = "rollbackChecked"
  /\ SetPhase(job[c].run, "RollingBack")
  /\ Goto(c, "restoring", [job[c] EXCEPT !.todo = Changes(job[c].plan)])
  /\ UNCHANGED <<outside, target, baseline, lock, clean>>

\* A path that already holds the old content is skipped...
RestoreSkip(c, p) ==
  /\ pc[c] = "restoring"
  /\ p \in job[c].todo
  /\ target[p] = job[c].plan.target[p]
  /\ Goto(c, "restoring", [job[c] EXCEPT !.todo = @ \ {p}])
  /\ UNCHANGED <<outside, target, journals, baseline, lock, clean>>

\* ...any other must hold the content the run installed...
RestoreCheck(c, p) ==
  /\ pc[c] = "restoring"
  /\ p \in job[c].todo
  /\ target[p] = job[c].plan.source[p]
  /\ Goto(c, "restoreChecked", [job[c] EXCEPT !.at = p])
  /\ UNCHANGED <<outside, target, journals, baseline, lock, clean>>

\* ...and gets its backup back by a rename, or is deleted if the run created it
\* (deleting a file that has meanwhile gone is an error).
RestoreCommit(c) ==
  LET p == job[c].at IN
  /\ pc[c] = "restoreChecked"
  /\ job[c].plan.target[p] = Absent => target[p] # Absent
  /\ target' = [target EXCEPT ![p] = job[c].plan.target[p]]
  /\ Goto(c, "restoring", [job[c] EXCEPT !.at = NoPath, !.todo = @ \ {p}])
  /\ UNCHANGED <<outside, journals, baseline, lock, clean>>

\* Mistake: the baseline of the run undone stays in place.
RollbackRecordKeeps(c) ==
  /\ pc[c] = "restoring"
  /\ job[c].todo = {}
  /\ Goto(c, "restored", job[c])
  /\ UNCHANGED <<outside, target, journals, baseline, lock, clean>>

\* Mistake: the baseline is removed although an earlier run left one.
RollbackRecordRemoves(c) ==
  /\ pc[c] = "restoring"
  /\ job[c].todo = {}
  /\ baseline' = 0
  /\ Goto(c, "restored", job[c])
  /\ UNCHANGED <<outside, target, journals, lock, clean>>

\* Mistake: rollback stops at the first path that needs no change.
RollbackRecordEarly(c) ==
  /\ pc[c] = "restoring"
  /\ baseline' = journals[job[c].run].prev
  /\ Goto(c, "restored", job[c])
  /\ UNCHANGED <<outside, target, journals, lock, clean>>

\* The baseline the run found is put back, or removed when it found none.
RollbackRecord(c) ==
  /\ pc[c] = "restoring"
  /\ job[c].todo = {}
  /\ baseline' = journals[job[c].run].prev
  /\ Goto(c, "restored", job[c])
  /\ UNCHANGED <<outside, target, journals, lock, clean>>

RollbackFinish(c) ==
  /\ pc[c] = "restored"
  /\ SetPhase(job[c].run, "RolledBack")
  /\ Release(c)
  /\ Goto(c, "idle", Idle)
  /\ UNCHANGED <<outside, target, baseline, clean>>

-----------------------------------------------------------------------------
(* ready and verify *)

\* Mistake: the check does not ask whether a run is pending.
CheckBeginDespitePending(c) ==
  /\ pc[c] = "idle"
  /\ Goto(c, "checking", [Idle EXCEPT !.known = Len(journals)])
  /\ UNCHANGED <<outside, target, journals, baseline, lock, clean>>

\* Both first read every journal and refuse when a run is unfinished...
CheckBegin(c) ==
  /\ pc[c] = "idle"
  /\ Unfinished = {}
  /\ Goto(c, "checking", [Idle EXCEPT !.known = Len(journals)])
  /\ UNCHANGED <<outside, target, journals, baseline, lock, clean>>

\* ...then read baseline.json, which must exist...
CheckRead(c) ==
  /\ pc[c] = "checking"
  /\ baseline # 0
  /\ Goto(c, "comparing", [job[c] EXCEPT !.run = baseline, !.plan = journals[baseline].plan])
  /\ UNCHANGED <<outside, target, journals, baseline, lock, clean>>

\* ...then compare the workspace with it; verify compares the mirror too and
\* reports...
VerifyReport(c) ==
  /\ pc[c] = "comparing"
  /\ mirror = job[c].plan.source
  /\ target = Result(job[c].plan)
  /\ Goto(c, "reported", job[c])
  /\ UNCHANGED <<outside, target, journals, baseline, lock, clean>>

ReadyCompare(c) ==
  /\ pc[c] = "comparing"
  /\ target = Result(job[c].plan)
  /\ Goto(c, "compared", job[c])
  /\ UNCHANGED <<outside, target, journals, baseline, lock, clean>>

\* ...while ready reads the journals once more: the run must be complete.
ReadyReport(c) ==
  /\ pc[c] = "compared"
  /\ journals[job[c].run].phase = "Applied"
  /\ Goto(c, "reported", job[c])
  /\ UNCHANGED <<outside, target, journals, baseline, lock, clean>>

-----------------------------------------------------------------------------
\* A crash, an I/O error or a refused check: the process ends, the kernel
\* releases its lock, and every file stays as it is.
Abort(c) ==
  /\ pc[c] # "idle"
  /\ Release(c)
  /\ Goto(c, "idle", Idle)
  /\ UNCHANGED <<outside, target, journals, baseline, clean>>

Apply(c) ==
  \/ \E plan \in plans : ApplyBegin(c, plan)
  \/ ApplyStage(c) \/ ApplyPrepare(c) \/ ApplyStart(c)
  \/ \E p \in Paths : InstallCheck(c, p)
  \/ InstallCommit(c) \/ ApplyRecord(c) \/ ApplyFinish(c)

Rollback(c) ==
  \/ \E r \in Runs : RollbackRead(c, r)
  \/ RollbackBegin(c) \/ RollbackStart(c)
  \/ \E p \in Paths : RestoreSkip(c, p) \/ RestoreCheck(c, p)
  \/ RestoreCommit(c) \/ RollbackRecord(c) \/ RollbackFinish(c)

Check(c) ==
  \/ CheckBegin(c) \/ CheckRead(c)
  \/ VerifyReport(c) \/ ReadyCompare(c) \/ ReadyReport(c)

Next ==
  \/ \E p \in Paths, v \in Contents \cup {Absent} : MirrorChange(p, v) \/ Edit(p, v)
  \/ MakePlan
  \/ \E c \in Procs : Apply(c) \/ Rollback(c) \/ Check(c) \/ Abort(c)

Spec == Init /\ [][Next]_vars
-----------------------------------------------------------------------------
(* Properties *)

\* Every variable keeps its type, and baseline.json never names a run that has no
\* journal.
TypeOK ==
  /\ mirror \in Tree /\ target \in Tree
  /\ plans \subseteq Plan
  /\ journals \in Seq(Journal)
  /\ baseline \in 0..Len(journals)
  /\ lock \in Procs \cup {NoProc}
  /\ pc \in [Procs -> {"idle", "staging", "staged", "prepared", "installing",
                       "installChecked", "recorded", "rollbackRead", "rollbackChecked",
                       "restoring", "restoreChecked", "restored",
                       "checking", "comparing", "compared", "reported"}]
  /\ job \in [Procs -> [run : Nat, known : Nat, todo : SUBSET Paths,
                        at : Paths \cup {NoPath}, plan : Plan]]
  /\ clean \in Seq(SUBSET Paths) /\ Len(clean) >= Len(journals)
  /\ edits \in Nat

\* Whenever no run is unfinished, baseline.json records the latest run that is
\* not rolled back, and does not exist when every run is rolled back: what
\* `ready` and the next plan rely on, through any crash between the write of
\* baseline.json and the write of the journal's final phase.
BaselineIsLatest ==
  Unfinished = {} => IF Unrolled = {} THEN baseline = 0 ELSE IsLatest(baseline)

\* A run that stopped half way can be rolled back: each path it changes, if
\* nobody edited it since the run's last check, holds its old or its new
\* content (what rollback demands before it writes anything).
Recoverable ==
  \A r \in Unfinished : \A p \in Changes(journals[r].plan) \cap clean[r] :
    OldOrNew(journals[r].plan, p)

\* When no run is unfinished a path nobody edited holds what the latest run
\* left there, and its first original content once every run is rolled back:
\* crashes, retried rollbacks and rolled back later runs leave no trace.
Settled ==
  Unfinished = {} =>
    /\ \A r \in Runs : IsLatest(r) =>
         \A p \in clean[r] : target[p] = Result(journals[r].plan)[p]
    /\ Unrolled = {} /\ Runs # {} =>
         \A p \in clean[1] : target[p] = journals[1].plan.target[p]

\* `ready` and `verify` take no lock, and runs come and go between their reads.
\* The run they report is still the newest complete one, apart from runs
\* applied after the check began.
ReportsNewest ==
  [][\A c \in Procs : pc[c] # "reported" /\ pc'[c] = "reported" =>
       \A s \in Runs : s > job[c].run /\ journals[s].phase = "Applied" => s > job[c].known]_vars

\* Only the latest run that is not rolled back can be unfinished, so at most one.
OnlyLatestUnfinished == \A r \in Unfinished : IsLatest(r)

Rank(ph) == CASE ph = "Prepared" -> 0 [] ph = "Applying" -> 1 [] ph = "Applied" -> 2
              [] ph = "RollingBack" -> 3 [] ph = "RolledBack" -> 4
\* A journal is never lost and its phase never moves back, although rollback
\* rewrites the journal from a copy read before it had the lock.
PhasesMoveForward ==
  [][/\ Len(journals') >= Len(journals)
     /\ \A r \in Runs : /\ journals'[r].plan = journals[r].plan
                       /\ Rank(journals'[r].phase) >= Rank(journals[r].phase)]_vars

Stack == INSTANCE ImportStack WITH imported <- Unrolled, open <- Unfinished # {}, recorded <- baseline
\* The engine implements a stack of imports with the name of its top beside it.
ImplementsStack == Stack!Spec
=============================================================================
