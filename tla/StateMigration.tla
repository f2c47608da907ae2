----------------------------- MODULE StateMigration -----------------------------
(***************************************************************************)
(* dotmigrate: one transaction over the machine configuration and the      *)
(* sync-state, provider-state and vault files (migrate-state-transaction.nu*)
(* with modules/state-schema.nu and migrate-config.nu).                    *)
(*                                                                         *)
(* Files are numbered in the order they are committed; file 1 is the       *)
(* machine configuration, whose migration is a program of its own.  A      *)
(* content is its schema and the version of its data.  The transaction     *)
(* holds operation.lock, but not every writer does: `doctor` and setup run *)
(* update-sync-state.nu without it and people edit the files, so any file  *)
(* can change between two steps.  Every step can fail, and the machine can *)
(* stop after any of them.                                                 *)
(***************************************************************************)
EXTENDS Integers, Sequences

CONSTANTS N,         \* number of files
          None,      \* no content
          MaxWrites, \* bound: versions others write to one file
          MaxRuns    \* bound: transactions that got as far as their record

ASSUME CountAssumption == N \in Nat \ {0} /\ MaxWrites \in Nat /\ MaxRuns \in Nat

Files == 1..N
Config == 1
Content == [v : Nat, schema : {"old", "new"}]
ASSUME NoneAssumption == None \notin Content

VARIABLES files,    \* the live files
          lock,     \* operation.lock exists
          records,  \* transaction.nuon of each transaction, in order
          pc, at,   \* phase of the running transaction and the file it is at
          plan,     \* what prepare-state-plan read of each pending file
          backup,   \* its verified backup
          done,     \* files to restore if a later one fails
          stuck,    \* a restore failed
          ver,      \* history: number of versions others wrote to each file
          raced     \* history: files whose last version came after the last check

locals == <<plan, backup, done, stuck>>
history == <<ver, raced>>
vars == <<files, lock, records, pc, at, locals, history>>

Nothing == [f \in Files |-> None]
Migrated(c) == [c EXCEPT !.schema = "new"]
Pending == {f \in Files : plan[f] # None}

Init ==
  /\ files \in [Files -> {[v |-> 0, schema |-> s] : s \in {"old", "new"}}]
  /\ lock = FALSE /\ records = <<>>
  /\ pc = "idle" /\ at = 1
  /\ plan = Nothing /\ backup = Nothing /\ done = {} /\ stuck = FALSE
  /\ ver = [f \in Files |-> 0] /\ raced = {}

Goto(label, f) == pc' = label /\ at' = f

-----------------------------------------------------------------------------
(* The plan, the backups, the record *)

Begin ==
  /\ pc = "idle" /\ ~lock /\ Len(records) < MaxRuns
  /\ lock' = TRUE
  /\ Goto("plan", 1)
  /\ plan' = Nothing /\ backup' = Nothing /\ done' = {} /\ stuck' = FALSE
  /\ UNCHANGED <<files, records, history>>

PlanFile ==
  /\ pc = "plan" /\ at \in Files
  /\ plan' = [plan EXCEPT ![at] = IF files[at].schema = "old" THEN files[at] ELSE None]
  /\ Goto("plan", at + 1)
  /\ UNCHANGED <<files, lock, records, backup, done, stuck, history>>

PlanDone ==
  /\ pc = "plan" /\ at = N + 1
  /\ Goto(IF Pending = {} THEN "release" ELSE "backup", 1)
  /\ UNCHANGED <<files, lock, records, locals, history>>

\* The backup is the file as it is now, which may be newer than the plan.
BackupFile ==
  /\ pc = "backup" /\ at \in Pending
  /\ backup' = [backup EXCEPT ![at] = files[at]]
  /\ Goto("backup", at + 1)
  /\ UNCHANGED <<files, lock, records, plan, done, stuck, history>>

Prepare ==
  /\ pc = "backup" /\ at = N + 1
  /\ records' = Append(records, [status |-> "prepared", plan |-> plan, backup |-> backup])
  /\ Goto("check", 1)
  /\ UNCHANGED <<files, lock, locals, history>>

\* Files that need no migration are passed over.
Skip ==
  /\ pc \in {"backup", "check"} /\ at \in Files \ Pending
  /\ Goto(pc, at + 1)
  /\ UNCHANGED <<files, lock, records, locals, history>>

-----------------------------------------------------------------------------
(* The commits *)

\* Mutant: the live file is not compared with its backup.
CheckNothing ==
  /\ pc = "check" /\ at \in Pending
  /\ done' = IF at = Config THEN done \cup {at} ELSE done
  /\ Goto(IF at = Config THEN "recheck" ELSE "write", at)
  /\ UNCHANGED <<files, lock, records, plan, backup, stuck, history>>

\* The live file must equal its backup.  The configuration counts as touched
\* before the program that migrates it runs.
Check ==
  /\ pc = "check" /\ at \in Pending
  /\ files[at] = backup[at]
  /\ done' = IF at = Config THEN done \cup {at} ELSE done
  /\ Goto(IF at = Config THEN "recheck" ELSE "write", at)
  /\ UNCHANGED <<files, lock, records, plan, backup, stuck, history>>

\* migrate-config --transaction compares again...
Recheck ==
  /\ pc = "recheck"
  /\ files[at] = backup[at]
  /\ Goto("read", at)
  /\ UNCHANGED <<files, lock, records, locals, history>>

\* ...and reads the file again.
Read ==
  /\ pc = "read"
  /\ plan' = [plan EXCEPT ![at] = files[at]]
  /\ Goto("write", at)
  /\ UNCHANGED <<files, lock, records, backup, done, stuck, history>>

\* What is written is the migration of what was read: by prepare-state-plan
\* before the backup, or by migrate-config just now.
Write ==
  /\ pc = "write"
  /\ files' = [files EXCEPT ![at] = Migrated(plan[at])]
  /\ Goto("verify", at)
  /\ UNCHANGED <<lock, records, locals, history>>

\* What was written is read back; of the configuration only its schema is looked at.
Written == IF at = Config THEN files[at].schema = "new" ELSE files[at] = Migrated(plan[at])

\* Mutant: a committed file is not remembered.
VerifyForgets ==
  /\ pc = "verify"
  /\ Written
  /\ Goto("check", at + 1)
  /\ UNCHANGED <<files, lock, records, locals, history>>

Verify ==
  /\ pc = "verify"
  /\ Written
  /\ done' = done \cup {at}
  /\ Goto("check", at + 1)
  /\ UNCHANGED <<files, lock, records, plan, backup, stuck, history>>

\* A refused check or an error of its own: what was committed is undone, after
\* the file that failed while it was being written is put back at once.
CommitFails ==
  /\ pc \in {"check", "recheck", "read", "write", "verify"} /\ at \in Pending
  /\ IF pc \in {"write", "verify"} /\ at # Config THEN Goto("restore", at) ELSE Goto("undo", N)
  /\ UNCHANGED <<files, lock, records, locals, history>>

-----------------------------------------------------------------------------
(* The undo *)

\* A restore can fail before or after its rename.
Restore(f) ==
  \/ files' = [files EXCEPT ![f] = backup[f]] /\ UNCHANGED stuck
  \/ files' = [files EXCEPT ![f] = backup[f]] /\ stuck' = TRUE
  \/ UNCHANGED files /\ stuck' = TRUE

RestoreFailed ==
  /\ pc = "restore"
  /\ Restore(at)
  /\ Goto("undo", N)
  /\ UNCHANGED <<lock, records, plan, backup, done, history>>

\* Mutant: the undo covers every file.
UndoEverything ==
  /\ pc = "undo" /\ at \in Files
  /\ Restore(at)
  /\ Goto("undo", at - 1)
  /\ UNCHANGED <<lock, records, plan, backup, done, history>>

Undo ==
  /\ pc = "undo" /\ at \in Files
  /\ IF at \in done THEN Restore(at) ELSE UNCHANGED <<files, stuck>>
  /\ Goto("undo", at - 1)
  /\ UNCHANGED <<lock, records, plan, backup, done, history>>

-----------------------------------------------------------------------------
(* The end *)

SetStatus(s) == records' = [records EXCEPT ![Len(records)].status = s]

Commit ==
  /\ pc = "check" /\ at = N + 1
  /\ SetStatus("committed")
  /\ Goto("release", 1)
  /\ UNCHANGED <<files, lock, locals, history>>

Rollback ==
  /\ pc = "undo" /\ at = 0
  /\ SetStatus(IF stuck THEN "rollback-failed" ELSE "rolled-back")
  /\ Goto("release", 1)
  /\ UNCHANGED <<files, lock, locals, history>>

\* Errors before the first commit, and failures to write the record, end the
\* transaction where it is.
Abort ==
  /\ \/ pc \in {"plan", "backup"}
     \/ pc = "check" /\ at = N + 1
     \/ pc = "undo" /\ at = 0
  /\ Goto("release", 1)
  /\ UNCHANGED <<files, lock, records, locals, history>>

Release ==
  /\ pc = "release"
  /\ lock' = FALSE
  /\ Goto("idle", 1)
  /\ UNCHANGED <<files, records, locals, history>>

\* A stop leaves operation.lock behind...
Crash ==
  /\ pc # "idle"
  /\ Goto("idle", 1)
  /\ UNCHANGED <<files, lock, records, locals, history>>

\* ...until somebody removes it.
RemoveLock ==
  /\ pc = "idle" /\ lock
  /\ lock' = FALSE
  /\ UNCHANGED <<files, records, pc, at, locals, history>>

-----------------------------------------------------------------------------
\* The transaction has compared this file for the last time.
Unwatched(f) ==
  \/ f \in done /\ pc # "idle"
  \/ f = at /\ pc \in {"read", "write", "verify", "restore"}

\* Somebody without the lock writes a file.
OtherWrite(f) ==
  /\ ver[f] < MaxWrites
  /\ ver' = [ver EXCEPT ![f] = @ + 1]
  /\ \E s \in {"old", "new"} : files' = [files EXCEPT ![f] = [v |-> ver'[f], schema |-> s]]
  /\ raced' = IF Unwatched(f) THEN raced \cup {f} ELSE raced \ {f}
  /\ UNCHANGED <<lock, records, pc, at, locals>>

Migrate ==
  \/ Begin \/ PlanFile \/ PlanDone \/ BackupFile \/ Prepare \/ Skip
  \/ Check \/ Recheck \/ Read \/ Write \/ Verify \/ CommitFails
  \/ RestoreFailed \/ Undo \/ Commit \/ Rollback \/ Abort \/ Release

Next == Migrate \/ Crash \/ RemoveLock \/ \E f \in Files : OtherWrite(f)

Spec == Init /\ [][Next]_vars
-----------------------------------------------------------------------------
Contents == [Files -> Content \cup {None}]
Phases == {"idle", "plan", "backup", "check", "recheck", "read", "write", "verify",
           "restore", "undo", "release"}
Statuses == {"prepared", "committed", "rolled-back", "rollback-failed"}

\* Every variable keeps its type: a backup exists only of what was planned, and
\* only planned files are committed or restored.
TypeOK ==
  /\ files \in [Files -> Content]
  /\ lock \in BOOLEAN /\ stuck \in BOOLEAN
  /\ records \in Seq([status : Statuses, plan : Contents, backup : Contents])
  /\ pc \in Phases /\ at \in 0..(N + 1)
  /\ plan \in Contents /\ backup \in Contents
  /\ done \subseteq Files /\ raced \subseteq Files
  /\ ver \in [Files -> Nat]

\* The record of the last transaction, the files nobody wrote since it read
\* them, and what they held.
Last == records[Len(records)]
Quiet(f) == Len(records) > 0 /\ Last.plan[f] # None /\ ver[f] = Last.plan[f].v
Old(f) == Last.backup[f]

\* All or nothing: once a transaction has ended or was stopped, its record tells
\* the truth about every file nobody else wrote: all migrated, all as before, or
\* each one of both with its backup named, when the record stayed "prepared" or
\* a rollback failed.
Outcome ==
  pc = "idle" /\ Len(records) > 0 =>
    \A f \in Files : Quiet(f) =>
      /\ files[f] \in {Old(f), Migrated(Old(f))}
      /\ Last.status = "committed" => files[f] = Migrated(Old(f))
      /\ Last.status = "rolled-back" => files[f] = Old(f)

Saved(f) == {records[i].backup[f].v : i \in {j \in 1..Len(records) : records[j].backup[f] # None}}
\* Whatever fails or stops, the last version somebody wrote is live or in a backup
\* a record names, unless it was written after the last comparison of its file.
NothingLost == \A f \in Files \ raced : ver[f] = files[f].v \/ ver[f] \in Saved(f)
=============================================================================
