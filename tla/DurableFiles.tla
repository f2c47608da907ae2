---------------------------- MODULE DurableFiles ----------------------------
(***************************************************************************)
(* What a loss of power leaves of the files of cloudwins                   *)
(* (tools/cloudwins/src/main.rs): atomic_json, copy_new and install write  *)
(* a temporary file, flush it, give it its name by a rename or a hard      *)
(* link, and flush the directory.  Until that last step the name may, or   *)
(* may not, survive a loss of power, and names of different directories    *)
(* survive independently of each other.                                    *)
(*                                                                         *)
(* The same goes for directories: create_dir_all makes them, and their     *)
(* names last once the directory they are in is flushed.  Only runs/<id>   *)
(* is, when its journal is written, which keeps the name of its backups/;  *)
(* runs/<id> itself, and a directory inside another one of the workspace   *)
(* or of the backups, is never settled by the program.  The state          *)
(* directory, made by an earlier command, is taken as settled.             *)
(*                                                                         *)
(* CloudWins has the two commands as others see them; here is one process  *)
(* at a time (the target lock) and the order of its writes.  Every file is *)
(* flushed on its own: those that share a directory are flushed together,  *)
(* which only leaves less to lose.                                         *)
(***************************************************************************)
EXTENDS Naturals, Sequences, FiniteSets

CONSTANTS Paths,     \* managed paths of the target workspace
          Nested,    \* those two or more directories down, with no other file there
          Contents,  \* contents of a file
          Absent,    \* no file
          Torn,      \* a file whose bytes did not all reach the disk
          MaxRuns,   \* bound: applies
          MaxStops   \* bound: stops of the process, and losses of power

Runs == 1..MaxRuns
Phases == {"Prepared", "Applying", "Applied", "RollingBack", "RolledBack"}

ASSUME ValuesAssumption == /\ Absent \notin Contents /\ Torn \notin Contents /\ Absent # Torn
                           /\ {Absent, Torn} \cap ([phase : Phases] \cup [run : Runs]) = {}
ASSUME NestedAssumption == Nested \subseteq Paths
ASSUME BoundsAssumption == MaxRuns \in Nat /\ MaxStops \in Nat

\* Files, by the role they play.
Target(p) == <<"target", p>>
Backup(r, p) == <<"backup", r, p>>
Journal(r) == <<"journal", r>>
Baseline == <<"baseline">>
File == {Target(p) : p \in Paths} \cup {Backup(r, p) : r \in Runs, p \in Paths}
          \cup {Journal(r) : r \in Runs} \cup {Baseline}

\* Directories that the program makes.
RunDir(r) == <<"run", r>>
BackupDir(r) == <<"backups", r>>
BackupFolder(r, p) == <<"backup folder", r, p>>
TargetFolder(p) == <<"target folder", p>>
Directory == {RunDir(r) : r \in Runs} \cup {BackupDir(r) : r \in Runs}
               \cup {BackupFolder(r, p) : r \in Runs, p \in Nested} \cup {TargetFolder(p) : p \in Nested}

\* A directory and those it is in, and the directories a file is in.
If(test, S) == IF test THEN S ELSE {}
Around(d) ==
  {d} \cup If(d[1] \in {"backups", "backup folder"}, {RunDir(d[2])})
      \cup If(d[1] = "backup folder", {BackupDir(d[2])})
Homes(f) ==
  If(f[1] \in {"journal", "backup"}, {RunDir(f[2])}) \cup If(f[1] = "backup", {BackupDir(f[2])})
    \cup If(f[1] = "backup" /\ f[3] \in Nested, {BackupFolder(f[2], f[3])})
    \cup If(f[1] = "target" /\ f[2] \in Nested, {TargetFolder(f[2])})

VARIABLES live,      \* what a process reads at a name
          disk,      \* what a loss of power may leave there, if it leaves the directory
          dirs,      \* directories there are
          fresh,     \* those whose names a loss of power may take
          plan,      \* the runs so far: contents before and after, the baseline found
          pc, run,   \* control state of the command, and its run
          todo,      \* paths it still has to handle
          op,        \* the file being written
          stops,     \* stops and losses of power so far
          installed, \* history: runs that changed a payload file
          loose,     \* history: a process was stopped with a name not yet flushed
          spoilt     \* history: newest run that lost its directory, or was there when
                     \* the workspace lost one

vars == <<live, disk, dirs, fresh, plan, pc, run, todo, op, stops, installed, loose, spoilt>>

NoOp == [at |-> "none", file |-> Baseline, value |-> Absent, torn |-> FALSE]

\* Entries of a plan that are not `same`.
Changes(r) == {p \in Paths : plan[r].before[p] # plan[r].after[p]}
Known == 1..Len(plan)
HasJournal(r) == live[Journal(r)] \notin {Absent, Torn}
Phase(r) == live[Journal(r)].phase

Init ==
  /\ \E t \in [Paths -> Contents \cup {Absent}] :
       live = [f \in File |-> IF \E p \in Paths : f = Target(p) THEN t[f[2]] ELSE Absent]
  /\ disk = [f \in File |-> {live[f]}]
  /\ \E empty \in SUBSET Nested :
       dirs = {TargetFolder(p) : p \in empty \cup {p \in Nested : live[Target(p)] # Absent}}
  /\ fresh = {}
  /\ plan = <<>> /\ pc = "idle" /\ run = 0 /\ todo = {} /\ op = NoOp
  /\ stops = 0 /\ installed = {} /\ loose = FALSE /\ spoilt = 0

-----------------------------------------------------------------------------
(* Writing one file *)

Make(ds) == dirs' = dirs \cup ds /\ fresh' = fresh \cup (ds \ dirs)

\* The directory of f is made if it is not there, and a temporary file in it is
\* filled with value.
Put(f, value) ==
  /\ op.at = "none"
  /\ op' = [at |-> "written", file |-> f, value |-> value, torn |-> TRUE]
  /\ Make(Homes(f))
  /\ UNCHANGED <<live, disk, stops, installed, loose, spoilt>>

\* Mistake: the bytes are not flushed before the file gets its name.
FlushLater ==
  /\ op.at = "written"
  /\ op' = [op EXCEPT !.at = "flushed"]
  /\ UNCHANGED <<live, disk, dirs, fresh, plan, pc, run, todo, stops, installed, loose, spoilt>>

\* sync_all.
Flush ==
  /\ op.at = "written"
  /\ op' = [op EXCEPT !.at = "flushed", !.torn = FALSE]
  /\ UNCHANGED <<live, disk, dirs, fresh, plan, pc, run, todo, stops, installed, loose, spoilt>>

\* rename or hard_link.
Name ==
  /\ op.at = "flushed"
  /\ live' = [live EXCEPT ![op.file] = op.value]
  /\ disk' = [disk EXCEPT ![op.file] = @ \cup {op.value} \cup (IF op.torn THEN {Torn} ELSE {})]
  /\ op' = [op EXCEPT !.at = "named"]
  /\ installed' = IF op.file[1] = "target" THEN installed \cup {run} ELSE installed
  /\ UNCHANGED <<dirs, fresh, plan, pc, run, todo, stops, loose, spoilt>>

\* remove_file, of a target file or of the baseline.
Unlink(f) ==
  /\ op.at = "none"
  /\ live' = [live EXCEPT ![f] = Absent]
  /\ disk' = [disk EXCEPT ![f] = @ \cup {Absent}]
  /\ op' = [NoOp EXCEPT !.at = "named", !.file = f]
  /\ UNCHANGED <<dirs, fresh, stops, installed, loose, spoilt>>

\* Mistake: a name counts as written once it is there.
SyncNothing ==
  /\ op.at = "named"
  /\ op' = NoOp
  /\ UNCHANGED <<live, disk, dirs, fresh, plan, pc, run, todo, stops, installed, loose, spoilt>>

\* sync_parent: the names in the directory of the file.
SyncParent ==
  /\ op.at = "named"
  /\ disk' = [disk EXCEPT ![op.file] = {live[op.file]}]
  /\ fresh' = IF op.file[1] = "journal" THEN fresh \ {BackupDir(op.file[2])} ELSE fresh
  /\ op' = NoOp
  /\ UNCHANGED <<live, dirs, plan, pc, run, todo, stops, installed, loose, spoilt>>

SetPhase(phase) == Put(Journal(run), [phase |-> phase])

-----------------------------------------------------------------------------
(* apply *)

\* A plan is reviewed, no run is unfinished, the storage can link and rename.
ApplyBegin(after) ==
  LET before == [p \in Paths |-> live[Target(p)]]
  IN  /\ pc = "idle" /\ Len(plan) < MaxRuns
      /\ \A r \in Known : live[Journal(r)] # Torn
      /\ \A r \in Known : HasJournal(r) => Phase(r) \in {"Applied", "RolledBack"}
      /\ \A p \in Paths : before[p] # Torn /\ (after[p] = Absent => before[p] = Absent)
      /\ \E p \in Paths : after[p] # Absent
      /\ plan' = Append(plan, [before |-> before, after |-> after, prev |-> live[Baseline]])
      /\ run' = Len(plan) + 1
      /\ todo' = {p \in Paths : before[p] # after[p]}
      /\ Make({RunDir(run')})
      /\ pc' = "stage"
      /\ UNCHANGED <<live, disk, op, stops, installed, loose, spoilt>>

\* The new bytes are staged and the old ones backed up, all of them, before
\* the journal is written.  A staged copy is used by this process only.
BackUp(p) ==
  /\ pc = "stage" /\ p \in todo
  /\ todo' = todo \ {p}
  /\ IF plan[run].before[p] = Absent
       THEN op.at = "none" /\ UNCHANGED <<live, disk, dirs, fresh, op, stops, installed, loose, spoilt>>
       ELSE live[Target(p)] = plan[run].before[p] /\ Put(Backup(run, p), live[Target(p)])
  /\ UNCHANGED <<plan, pc, run>>

\* Mistake: the journal is written before the backups.
ApplyPrepareEarly ==
  /\ pc = "stage"
  /\ SetPhase("Prepared")
  /\ pc' = "start"
  /\ UNCHANGED <<plan, run, todo>>

ApplyPrepare ==
  /\ pc = "stage" /\ todo = {}
  /\ SetPhase("Prepared")
  /\ pc' = "start"
  /\ UNCHANGED <<plan, run, todo>>

ApplyStart ==
  /\ pc = "start"
  /\ SetPhase("Applying")
  /\ todo' = Changes(run) /\ pc' = "install"
  /\ UNCHANGED <<plan, run>>

Install(p) ==
  /\ pc = "install" /\ p \in todo
  /\ live[Target(p)] = plan[run].before[p]
  /\ Put(Target(p), plan[run].after[p])
  /\ todo' = todo \ {p} /\ pc' = "record"
  /\ UNCHANGED <<plan, run>>

\* The journal is written again with one more completed path.
ApplyRecord ==
  /\ pc = "record"
  /\ SetPhase("Applying")
  /\ pc' = "install"
  /\ UNCHANGED <<plan, run, todo>>

ApplyBaseline ==
  /\ pc = "install" /\ todo = {}
  /\ \A p \in Paths : live[Target(p)] = plan[run].after[p]
  /\ Put(Baseline, [run |-> run])
  /\ pc' = "finish"
  /\ UNCHANGED <<plan, run, todo>>

ApplyFinish ==
  /\ pc = "finish"
  /\ SetPhase("Applied")
  /\ pc' = "report"
  /\ UNCHANGED <<plan, run, todo>>

-----------------------------------------------------------------------------
(* rollback *)

RollbackBegin(r) ==
  /\ pc = "idle"
  /\ \A s \in Known : live[Journal(s)] # Torn
  /\ HasJournal(r) /\ Phase(r) # "RolledBack"
  /\ \A s \in Known : s > r /\ HasJournal(s) => Phase(s) = "RolledBack"
  /\ \A p \in Changes(r) :
       /\ live[Target(p)] \in {plan[r].before[p], plan[r].after[p]}
       /\ plan[r].before[p] # Absent => live[Backup(r, p)] = plan[r].before[p]
  /\ Put(Journal(r), [phase |-> "RollingBack"])
  /\ run' = r /\ todo' = Changes(r) /\ pc' = "restore"
  /\ UNCHANGED plan

\* A path that is as it was is left alone.
RestoreSkip(p) ==
  /\ pc = "restore" /\ op.at = "none" /\ p \in todo
  /\ live[Target(p)] = plan[run].before[p]
  /\ todo' = todo \ {p}
  /\ UNCHANGED <<live, disk, dirs, fresh, plan, pc, run, op, stops, installed, loose, spoilt>>

Restore(p) ==
  /\ pc = "restore" /\ p \in todo
  /\ plan[run].before[p] # Absent
  /\ live[Target(p)] = plan[run].after[p]
  /\ Put(Target(p), live[Backup(run, p)])
  /\ todo' = todo \ {p}
  /\ UNCHANGED <<plan, pc, run>>

RestoreRemove(p) ==
  /\ pc = "restore" /\ p \in todo
  /\ plan[run].before[p] = Absent
  /\ live[Target(p)] = plan[run].after[p]
  /\ Unlink(Target(p))
  /\ todo' = todo \ {p}
  /\ UNCHANGED <<plan, pc, run>>

RollbackBaseline ==
  /\ pc = "restore" /\ todo = {}
  /\ IF plan[run].prev # Absent THEN Put(Baseline, plan[run].prev)
     ELSE IF live[Baseline] # Absent THEN Unlink(Baseline)
     ELSE op.at = "none" /\ UNCHANGED <<live, disk, dirs, fresh, op, stops, installed, loose, spoilt>>
  /\ pc' = "rolled"
  /\ UNCHANGED <<plan, run, todo>>

\* Mistake: the journal is closed before the baseline is restored.
RollbackFinishEarly ==
  /\ pc \in {"restore", "rolled"} /\ todo = {}
  /\ SetPhase("RolledBack")
  /\ pc' = "report"
  /\ UNCHANGED <<plan, run, todo>>

RollbackFinish ==
  /\ pc = "rolled"
  /\ SetPhase("RolledBack")
  /\ pc' = "report"
  /\ UNCHANGED <<plan, run, todo>>

\* The command says what it did.
Report ==
  /\ pc = "report" /\ op.at = "none"
  /\ pc' = "idle"
  /\ UNCHANGED <<live, disk, dirs, fresh, plan, run, todo, op, stops, installed, loose, spoilt>>

-----------------------------------------------------------------------------
(* The process and the machine stop *)

Halt == op' = NoOp /\ pc' = "idle" /\ todo' = {} /\ stops < MaxStops /\ stops' = stops + 1

\* An error or a kill: names stay as they are, flushed or not.  The
\* next command takes them as it finds them: a repeated rollback skips a path
\* that is restored already, and does not flush it.
Stop ==
  /\ pc # "idle" /\ Halt
  /\ loose' = (loose \/ op.at = "named")
  /\ UNCHANGED <<live, disk, dirs, fresh, plan, run, installed, spoilt>>

\* Whatever was not flushed is, or is not, there afterwards: names of files, and the
\* directories of cut with all that is in them.
Unsettled == {f \in File : disk[f] # {live[f]}}
Spoilt(cut) ==
  IF \E p \in Nested : TargetFolder(p) \in cut THEN {Len(plan)}
  ELSE {s \in {spoilt} \cup {r \in Known : RunDir(r) \in cut} :
          s >= spoilt /\ \A r \in Known : RunDir(r) \in cut => s >= r}
PowerLoss ==
  /\ Halt
  /\ \E cut \in SUBSET fresh, kept \in [Unsettled -> UNION {disk[f] : f \in Unsettled}] :
       /\ \A f \in Unsettled : kept[f] \in disk[f]
       /\ live' = [f \in File |-> IF Homes(f) \cap cut # {} THEN Absent
                                  ELSE IF f \in Unsettled THEN kept[f] ELSE live[f]]
       /\ dirs' = {d \in dirs : Around(d) \cap cut = {}}
       /\ spoilt' \in Spoilt(cut)
  /\ disk' = [f \in File |-> {live'[f]}]
  /\ fresh' = {}
  /\ UNCHANGED <<plan, run, installed, loose>>

Next ==
  \/ Flush \/ Name \/ SyncParent \/ Stop \/ PowerLoss \/ Report
  \/ \E after \in [Paths -> Contents \cup {Absent}] : ApplyBegin(after)
  \/ \E p \in Paths : BackUp(p) \/ Install(p)
  \/ ApplyPrepare \/ ApplyStart \/ ApplyRecord \/ ApplyBaseline \/ ApplyFinish
  \/ \E r \in Known : RollbackBegin(r)
  \/ \E p \in Paths : RestoreSkip(p) \/ Restore(p) \/ RestoreRemove(p)
  \/ RollbackBaseline \/ RollbackFinish

Spec == Init /\ [][Next]_vars
-----------------------------------------------------------------------------
(* Properties *)

Journals == {Absent} \cup [phase : Phases]
Baselines == {Absent} \cup [run : Runs]

\* Whatever a loss of power does, no record or file is ever left in pieces.
TypeOK ==
  /\ DOMAIN live = File /\ DOMAIN disk = File
  /\ \A f \in File : live[f] \in disk[f]
  /\ \A p \in Paths : disk[Target(p)] \subseteq Contents \cup {Absent}
  /\ \A r \in Runs, p \in Paths : disk[Backup(r, p)] \subseteq Contents \cup {Absent}
  /\ \A r \in Runs : disk[Journal(r)] \subseteq Journals
  /\ disk[Baseline] \subseteq Baselines
  /\ dirs \subseteq Directory /\ fresh \subseteq dirs
  /\ Len(plan) <= MaxRuns /\ run \in 0..Len(plan) /\ spoilt \in 0..Len(plan)
  /\ todo \subseteq Paths /\ stops \in 0..MaxStops /\ installed \subseteq Known

\* Once a run has changed a payload file, no loss of power loses the journal or a backup
\* that undo the change without the whole directory of the run, or the directory that
\* the backup of a nested file is in.
WriteAhead ==
  \A r \in installed : RunDir(r) \in dirs =>
    /\ Absent \notin disk[Journal(r)]
    /\ \A p \in Changes(r) :
         plan[r].before[p] # Absent /\ (p \in Nested => BackupFolder(r, p) \in dirs) =>
           disk[Backup(r, p)] = {plan[r].before[p]}

\* What the journal of the last run applied or rolled back may say on the disk
\* is true of the disk, and what it says of a run that no lost directory spoilt: no
\* phase is there before what it reports.
PhaseIsTrue ==
  run > spoilt /\ ~loose =>
    /\ [phase |-> "Applied"] \in disk[Journal(run)] =>
         /\ disk[Baseline] = {[run |-> run]}
         /\ \A p \in Changes(run) : disk[Target(p)] = {plan[run].after[p]}
    /\ [phase |-> "RolledBack"] \in disk[Journal(run)] =>
         /\ disk[Baseline] = {plan[run].prev}
         /\ \A p \in Changes(run) : disk[Target(p)] = {plan[run].before[p]}

\* A baseline that may be on the disk names a run whose journal is there too, unless its
\* directory is lost, and is not closed.
BaselineHasRun ==
  \A b \in disk[Baseline] \ {Absent} : RunDir(b.run) \in dirs =>
    \A j \in disk[Journal(b.run)] :
      j # Absent /\ j.phase \in {"Applying", "Applied", "RollingBack"} \cup (IF loose THEN {"RolledBack"} ELSE {})

\* "A failure after this write leaves a recoverable, write-ahead journal": if the journal
\* of the last run is gone then so is what the run changed.
RunsRecoverable ==
  run \in installed /\ live[Journal(run)] = Absent =>
    \A p \in Changes(run) : live[Target(p)] = plan[run].before[p]
=============================================================================
