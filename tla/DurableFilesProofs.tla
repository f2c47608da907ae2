------------------------- MODULE DurableFilesProofs -------------------------
(***************************************************************************)
(* Proofs about DurableFiles for any paths, contents, number of runs, of   *)
(* stops and of losses of power: nothing is torn; the journal and the      *)
(* backups of a run are on the disk before the first change they undo, and *)
(* go only with their directories; a baseline names a run whose journal is *)
(* there, or whose directory is lost; what a journal reports is true of    *)
(* the files, for a run that no lost directory spoilt.                     *)
(*                                                                         *)
(* IInv orders the first three: a journal that may be on the disk has all  *)
(* its backups there (JournalLast), and a payload file is only ever being  *)
(* written by a run whose journal is there for good (OpOK).  BegunInv adds *)
(* that a run named by a baseline has begun on the disk.  DiskInv is about *)
(* the stack of the runs above a floor, the newest run that a lost         *)
(* directory spoilt: of every way a loss of power may leave the files, the *)
(* top run, the baselines below it and the workspace fit each other        *)
(* (Sound), no baseline names a run that is rolled back (Open), and the    *)
(* last command has left what it says (Latest).  PcInv is what the running *)
(* command has established when it takes its next step.                    *)
(***************************************************************************)
EXTENDS DurableFiles, SequenceTheorems, TLAPS

Values == Contents \cup {Absent}
PlanType == [before : [Paths -> Values], after : [Paths -> Values], prev : Baselines]

\* The backups of a run are whole where their directories are there.
BackedUp(r) ==
  \A p \in Changes(r) : plan[r].before[p] # Absent /\ Homes(Backup(r, p)) \subseteq dirs =>
    disk[Backup(r, p)] = {plan[r].before[p]}

\* All directories of a run are there.
Housed(r) ==
  /\ RunDir(r) \in dirs
  /\ \A p \in Changes(r) : plan[r].before[p] # Absent => Homes(Backup(r, p)) \subseteq dirs

\* A run that may change payload files.
Ready(r) ==
  /\ BackedUp(r)
  /\ RunDir(r) \in dirs =>
       /\ Absent \notin disk[Journal(r)] /\ BackupDir(r) \notin fresh
       /\ \A p \in Changes(r) : plan[r].before[p] # Absent => BackupDir(r) \in dirs

\* No command beyond its staging without a run and its backups.
Working == pc \notin {"idle", "stage"}

OpType ==
  op \in [at : {"none", "written", "flushed", "named"}, file : File,
          value : Values \cup [phase : Phases] \cup Baselines, torn : BOOLEAN]

\* What is being written where.
OpOK ==
  /\ op.at \in {"flushed", "named"} => ~op.torn
  /\ op.at = "named" => live[op.file] = op.value
  /\ op.at # "none" =>
       \/ \E p \in Paths : op.file = Target(p) /\ op.value \in Values /\ Working /\ Ready(run)
       \/ \E p \in Paths : op.file = Backup(run, p) /\ op.value = plan[run].before[p] /\ pc = "stage"
                          /\ Homes(op.file) \subseteq dirs
       \/ op.file = Journal(run) /\ op.value \in [phase : Phases] /\ Working
       \/ op.file = Baseline /\ op.value \in Baselines /\ Working

JournalLast == \A r \in Runs : disk[Journal(r)] # {Absent} => r \in Known /\ BackedUp(r)
\* What is in a directory is there with the directory.
Homed ==
  \A r \in Runs :
    /\ disk[Journal(r)] # {Absent} => RunDir(r) \in dirs
    /\ \A p \in Paths : disk[Backup(r, p)] # {Absent} => Homes(Backup(r, p)) \subseteq dirs
InstalledReady == \A r \in installed : r \in Known /\ Ready(r)

Control ==
  /\ pc = "idle" => op.at = "none"
  /\ pc = "stage" =>
       /\ run \in Known /\ disk[Journal(run)] = {Absent} /\ RunDir(run) \in dirs
       /\ \A p \in Changes(run) \ todo : plan[run].before[p] # Absent =>
            /\ Homes(Backup(run, p)) \subseteq dirs
            /\ disk[Backup(run, p)] = {plan[run].before[p]} \/ (op.at # "none" /\ op.file = Backup(run, p))
  /\ Working =>
       /\ run \in Known /\ BackedUp(run) /\ Housed(run)
       /\ (op.at = "none" \/ op.file # Journal(run)) => Ready(run)

IInv == TypeOK /\ plan \in Seq(PlanType) /\ OpType /\ OpOK /\ JournalLast /\ Homed /\ InstalledReady /\ Control

-----------------------------------------------------------------------------
(* Names and values *)

\* Files of different roles, runs or paths are different files.
LEMMA Roles ==
  /\ \A p \in Paths : Target(p) \in File /\ Target(p)[1] = "target" /\ Target(p) # Baseline
  /\ \A r \in Runs, p \in Paths : Backup(r, p) \in File /\ Backup(r, p)[1] = "backup" /\ Backup(r, p) # Baseline
  /\ \A r \in Runs : Journal(r) \in File /\ Journal(r)[1] = "journal" /\ Journal(r)[2] = r /\ Journal(r) # Baseline
  /\ Baseline \in File /\ Baseline[1] = "baseline"
  /\ \A r \in Runs, p \in Paths, q \in Paths : Target(q) # Backup(r, p)
  /\ \A r \in Runs, q \in Paths : Target(q) # Journal(r)
  /\ \A r, s \in Runs, p \in Paths : Backup(r, p) # Journal(s)
  /\ \A r, s \in Runs, p, q \in Paths : Backup(r, p) = Backup(s, q) => r = s /\ p = q
  /\ \A r, s \in Runs : Journal(r) = Journal(s) => r = s
  /\ \A p, q \in Paths : Target(p) = Target(q) => p = q
  BY DEF File, Target, Backup, Journal, Baseline

\* Directories of different roles, runs or paths are different, and who is where.
RunDirs == {RunDir(r) : r \in Runs} \cup {BackupDir(r) : r \in Runs}
             \cup {BackupFolder(r, p) : r \in Runs, p \in Nested}

LEMMA Around1 ==
  /\ \A r : Around(RunDir(r)) = {RunDir(r)} /\ Around(BackupDir(r)) = {RunDir(r), BackupDir(r)}
  /\ \A r, p : Around(BackupFolder(r, p)) = {RunDir(r), BackupDir(r), BackupFolder(r, p)}
  /\ \A p : Around(TargetFolder(p)) = {TargetFolder(p)}
<1>1. \A r : Around(RunDir(r)) = {RunDir(r)}
  BY DEF Around, RunDir, If
<1>2. \A r : Around(BackupDir(r)) = {RunDir(r), BackupDir(r)}
  BY DEF Around, BackupDir, If
<1>3. \A r, p : Around(BackupFolder(r, p)) = {RunDir(r), BackupDir(r), BackupFolder(r, p)}
  BY DEF Around, BackupFolder, If
<1>4. \A p : Around(TargetFolder(p)) = {TargetFolder(p)}
  BY DEF Around, TargetFolder, If
<1> QED
  BY <1>1, <1>2, <1>3, <1>4

LEMMA Homes1 ==
  /\ \A r : Homes(Journal(r)) = {RunDir(r)}
  /\ \A r, p : Homes(Backup(r, p)) = IF p \in Nested THEN {RunDir(r), BackupDir(r), BackupFolder(r, p)}
                                    ELSE {RunDir(r), BackupDir(r)}
  /\ \A p : Homes(Target(p)) = IF p \in Nested THEN {TargetFolder(p)} ELSE {}
  /\ Homes(Baseline) = {}
<1>1. \A r : Homes(Journal(r)) = {RunDir(r)}
  BY DEF Homes, Journal, If
<1>2. \A r, p : Homes(Backup(r, p)) = IF p \in Nested THEN {RunDir(r), BackupDir(r), BackupFolder(r, p)}
                                    ELSE {RunDir(r), BackupDir(r)}
  BY DEF Homes, Backup, If
<1>3. \A p : Homes(Target(p)) = IF p \in Nested THEN {TargetFolder(p)} ELSE {}
  BY DEF Homes, Target, If
<1>4. Homes(Baseline) = {}
  BY DEF Homes, Baseline, If
<1> QED
  BY <1>1, <1>2, <1>3, <1>4

LEMMA Places ==
  /\ \A r \in Runs : RunDir(r) \in RunDirs /\ BackupDir(r) \in RunDirs /\ RunDir(r) # BackupDir(r)
  /\ \A r \in Runs, p \in Paths : Homes(Backup(r, p)) \subseteq RunDirs
  /\ \A p \in Nested : TargetFolder(p) \notin RunDirs
  /\ RunDirs \subseteq Directory
  /\ \A f \in File : Homes(f) \subseteq Directory
  /\ \A r, s : RunDir(r) = RunDir(s) => r = s
  /\ \A r, s : BackupDir(r) = BackupDir(s) => r = s
  /\ \A r, s : RunDir(r) # BackupDir(s)
  /\ \A r, s, p : BackupFolder(r, p) # BackupDir(s) /\ BackupFolder(r, p) # RunDir(s)
  /\ \A r, s, p, q : BackupFolder(r, p) = BackupFolder(s, q) => r = s
<1>1. \A r, s, p, q : BackupFolder(r, p) = BackupFolder(s, q) => r = s
  BY DEF BackupFolder
<1>2. \A r, s, p : BackupFolder(r, p) # BackupDir(s) /\ BackupFolder(r, p) # RunDir(s)
  BY DEF BackupFolder, BackupDir, RunDir
<1>3. /\ \A r, s : RunDir(r) = RunDir(s) => r = s
      /\ \A r, s : BackupDir(r) = BackupDir(s) => r = s
      /\ \A r, s : RunDir(r) # BackupDir(s)
  BY DEF BackupDir, RunDir
<1>4. \A p, r, q : TargetFolder(p) # RunDir(r) /\ TargetFolder(p) # BackupDir(r) /\ TargetFolder(p) # BackupFolder(r, q)
  BY DEF BackupFolder, BackupDir, RunDir, TargetFolder
<1>5. RunDirs \subseteq Directory /\ \A p \in Nested : TargetFolder(p) \in Directory
  BY DEF RunDirs, Directory
<1>6. /\ \A r \in Runs : RunDir(r) \in RunDirs /\ BackupDir(r) \in RunDirs
      /\ \A r \in Runs, p \in Nested : BackupFolder(r, p) \in RunDirs
  BY DEF RunDirs
<1>7. \A p \in Nested : TargetFolder(p) \notin RunDirs
  BY <1>4 DEF RunDirs
<1>8. \A r \in Runs, p \in Paths : Homes(Backup(r, p)) \subseteq RunDirs
  BY <1>6, Homes1
<1>9. ASSUME NEW f \in File PROVE Homes(f) \subseteq Directory
  <2>1. CASE \E p \in Paths : f = Target(p)
    BY <1>5, <2>1, Homes1
  <2>2. CASE \E r \in Runs, p \in Paths : f = Backup(r, p)
    BY <1>5, <1>8, <2>2
  <2>3. CASE \E r \in Runs : f = Journal(r)
    BY <1>5, <1>6, <2>3, Homes1
  <2>4. CASE f = Baseline
    BY <2>4, Homes1
  <2> QED
    BY <2>1, <2>2, <2>3, <2>4 DEF File
<1> QED
  BY <1>1, <1>2, <1>3, <1>5, <1>6, <1>7, <1>8, <1>9

\* The directories of the runs stay as they are.
SameRuns == \A d \in RunDirs : (d \in dirs' <=> d \in dirs) /\ (d \in fresh' <=> d \in fresh)

\* Writing a file makes no directory of a run but for a backup.
LEMMA PutMakes ==
  ASSUME TypeOK, NEW f \in File, NEW v, Put(f, v)
  PROVE  /\ dirs \subseteq dirs' /\ Homes(f) \subseteq dirs' /\ dirs' \subseteq Directory /\ fresh' \subseteq dirs'
         /\ dirs' = dirs \cup Homes(f) /\ fresh' = fresh \cup (Homes(f) \ dirs)
         /\ Homes(f) \subseteq dirs => UNCHANGED <<dirs, fresh>>
         /\ (\E p \in Paths : f = Target(p)) \/ f = Baseline \/ Homes(f) \subseteq dirs => SameRuns
<1>1. dirs' = dirs \cup Homes(f) /\ fresh' = fresh \cup (Homes(f) \ dirs)
  BY DEF Put, Make
<1>2. Homes(f) \subseteq Directory /\ dirs \subseteq Directory /\ fresh \subseteq dirs
  BY Places DEF TypeOK
<1>3. Homes(f) \subseteq dirs => UNCHANGED <<dirs, fresh>>
  BY <1>1
<1>4. (\E p \in Paths : f = Target(p)) \/ f = Baseline => \A d \in RunDirs : d \notin Homes(f)
  BY Places, Homes1
<1> QED
  BY <1>1, <1>2, <1>3, <1>4 DEF SameRuns

\* What the type invariant says of a file by its role, and its converse.
FileOK(d) ==
  /\ \A p \in Paths : d[Target(p)] \subseteq Values
  /\ \A r \in Runs, p \in Paths : d[Backup(r, p)] \subseteq Values
  /\ \A r \in Runs : d[Journal(r)] \subseteq Journals
  /\ d[Baseline] \subseteq Baselines

\* Runs recorded are runs, and their plans have their types.
LEMMA KnownRuns == TypeOK /\ plan \in Seq(PlanType) =>
  /\ Known \subseteq Runs /\ Len(plan) \in Nat
  /\ \A r \in Known : plan[r] \in PlanType
<1> SUFFICES ASSUME TypeOK, plan \in Seq(PlanType)
             PROVE  Known \subseteq Runs /\ Len(plan) \in Nat /\ \A r \in Known : plan[r] \in PlanType
  OBVIOUS
<1>1. Len(plan) \in Nat /\ Len(plan) <= MaxRuns
  BY DEF TypeOK
<1>2. Known \subseteq Runs
  BY <1>1, BoundsAssumption DEF Known, Runs
<1>3. \A r \in Known : plan[r] \in PlanType
  BY ElementOfSeq DEF Known
<1> QED
  BY <1>1, <1>2, <1>3

-----------------------------------------------------------------------------
(* The inductive invariant *)

\* The invariant holds at the start.
LEMMA InitInv == Init => IInv
<1> SUFFICES ASSUME Init PROVE IInv
  OBVIOUS
<1>1. PICK t \in [Paths -> Values] :
        live = [f \in File |-> IF \E p \in Paths : f = Target(p) THEN t[f[2]] ELSE Absent]
  BY DEF Init, Values
<1>2. /\ \A p \in Paths : live[Target(p)] \in Values
      /\ \A r \in Runs, p \in Paths : live[Backup(r, p)] = Absent
      /\ \A r \in Runs : live[Journal(r)] = Absent
      /\ live[Baseline] = Absent
  <2>1. \A p \in Paths : live[Target(p)] = t[Target(p)[2]] /\ Target(p)[2] = p
    BY <1>1, Roles DEF Target
  <2> QED
    BY <1>1, <2>1, Roles
<1>3. \A f \in File : disk[f] = {live[f]}
  BY DEF Init
<1>4. DOMAIN live = File /\ DOMAIN disk = File
  BY <1>1 DEF Init
<1>5. plan = <<>> /\ Len(plan) = 0 /\ run = 0 /\ todo = {} /\ stops = 0 /\ installed = {} /\ pc = "idle" /\ op = NoOp
  BY DEF Init
<1>a. dirs \subseteq Directory /\ fresh = {} /\ spoilt = 0
  BY DEF Init, Directory
<1>6. TypeOK
  BY <1>a, <1>2, <1>3, <1>4, <1>5, Roles, BoundsAssumption DEF TypeOK, Values, Journals, Baselines
<1>7. plan \in Seq(PlanType)
  BY <1>5
<1>8. OpType /\ OpOK
  BY <1>5, Roles DEF OpType, OpOK, NoOp, Values
<1>9. JournalLast /\ Homed
  BY <1>2, <1>3, Roles DEF JournalLast, Homed
<1> QED
  BY <1>5, <1>6, <1>7, <1>8, <1>9 DEF IInv, InstalledReady, Control, Working, NoOp

\* Where neither the disk nor the plans change, nor does what is backed up.
LEMMA Frozen ==
  ASSUME UNCHANGED <<disk, plan>>, SameRuns
  PROVE  /\ Known' = Known
         /\ \A r \in Runs : /\ Changes(r)' = Changes(r) /\ (BackedUp(r)' <=> BackedUp(r))
                            /\ (Ready(r)' <=> Ready(r)) /\ (Housed(r)' <=> Housed(r))
<1>1. Known' = Known /\ \A r : Changes(r)' = Changes(r)
  BY DEF Known, Changes
<1>2. ASSUME NEW r \in Runs
      PROVE  /\ RunDir(r) \in dirs' <=> RunDir(r) \in dirs
             /\ BackupDir(r) \in dirs' <=> BackupDir(r) \in dirs
             /\ BackupDir(r) \in fresh' <=> BackupDir(r) \in fresh
             /\ \A p \in Paths : Homes(Backup(r, p)) \subseteq dirs' <=> Homes(Backup(r, p)) \subseteq dirs
  BY Places DEF SameRuns
<1>3. ASSUME NEW r \in Runs
      PROVE  /\ BackedUp(r)' <=> BackedUp(r)
             /\ Ready(r)' <=> Ready(r)
             /\ Housed(r)' <=> Housed(r)
  <2>1. Changes(r) \subseteq Paths
    BY DEF Changes
  <2>2. BackedUp(r)' <=> BackedUp(r)
    BY <1>1, <1>2, <2>1 DEF BackedUp
  <2>3. Housed(r)' <=> Housed(r)
    BY <1>1, <1>2, <2>1 DEF Housed
  <2> QED
    BY <1>1, <1>2, <2>1, <2>2, <2>3 DEF Ready
<1> QED
  BY <1>1, <1>3

\* The part of the invariant about the files themselves.
LEMMA FilesKept ==
  ASSUME IInv, UNCHANGED <<live, disk, plan, installed, spoilt>>, run' \in 0..Len(plan), todo' \subseteq Paths,
         stops' \in 0..MaxStops, SameRuns, dirs' \subseteq Directory, fresh' \subseteq dirs'
  PROVE  TypeOK' /\ (plan \in Seq(PlanType))' /\ JournalLast' /\ Homed' /\ InstalledReady'
<1>1. TypeOK'
  BY DEF IInv, TypeOK, Known
<1>2. JournalLast'
  BY Frozen DEF IInv, JournalLast
<1>3. Homed'
  BY Places DEF IInv, Homed, SameRuns
<1>4. InstalledReady'
  <2>1. Known \subseteq Runs
    BY KnownRuns DEF IInv
  <2> QED
    BY <2>1, Frozen DEF IInv, InstalledReady
<1> QED
  BY <1>1, <1>2, <1>3, <1>4 DEF IInv

\* A command that works on a run starts to write a file.
LEMMA PutStep ==
  ASSUME IInv, NEW f, NEW v, Put(f, v), UNCHANGED plan,
         NEW r \in Known, run' = r, Working', todo' \subseteq Paths, BackedUp(r), Housed(r),
         \/ f = Journal(r) /\ v \in [phase : Phases]
         \/ /\ Ready(r)
            /\ \/ \E p \in Paths : f = Target(p) /\ v \in Values
               \/ f = Baseline /\ v \in Baselines
  PROVE  IInv'
<1>1. /\ op.at = "none" /\ UNCHANGED <<live, disk, stops, installed, spoilt>>
      /\ op' = [at |-> "written", file |-> f, value |-> v, torn |-> TRUE]
  BY DEF Put
<1>2. r \in Runs /\ r \in 0..Len(plan) /\ Len(plan) \in Nat
  BY KnownRuns DEF IInv, Known
<1>3. f \in File /\ v \in Values \cup [phase : Phases] \cup Baselines
  BY <1>2, Roles
<1>4. OpType'
  BY <1>1, <1>3 DEF OpType
<1>a. SameRuns /\ dirs' \subseteq Directory /\ fresh' \subseteq dirs'
  <2>1. f = Journal(r) => Homes(f) \subseteq dirs
    BY Homes1 DEF Housed
  <2> QED
    BY <1>3, <2>1, PutMakes DEF IInv
<1>5. Known' = Known /\ (BackedUp(r)' <=> BackedUp(r)) /\ (Ready(r)' <=> Ready(r)) /\ (Housed(r)' <=> Housed(r))
  BY <1>1, <1>2, <1>a, Frozen
<1>6. op'.at = "written" /\ op'.file = f /\ op'.value = v
  BY <1>1
<1>7. OpOK'
  <2>1. CASE f = Journal(r) /\ v \in [phase : Phases]
    BY <2>1, <1>6 DEF OpOK
  <2>2. CASE /\ Ready(r)
             /\ \/ \E p \in Paths : f = Target(p) /\ v \in Values
                \/ f = Baseline /\ v \in Baselines
    <3>1. Ready(r)'
      BY <1>5, <2>2
    <3> QED
      BY <2>2, <3>1, <1>6 DEF OpOK
  <2> QED
    BY <2>1, <2>2
<1>8. Control'
  <2>1. BackedUp(r)' /\ Housed(r)' /\ r \in Known'
    BY <1>5
  <2>2. f # Journal(r) => Ready(r)'
    BY <1>5
  <2> QED
    BY <2>1, <2>2, <1>6 DEF Control, Working
<1>9. TypeOK' /\ (plan \in Seq(PlanType))' /\ JournalLast' /\ Homed' /\ InstalledReady'
  BY <1>1, <1>2, <1>a, FilesKept DEF IInv, TypeOK
<1> QED
  BY <1>4, <1>7, <1>8, <1>9 DEF IInv

\* The steps of apply and rollback that start to write a file.
LEMMA WriteStep ==
  ASSUME IInv, \/ ApplyPrepare \/ ApplyStart \/ ApplyRecord \/ ApplyBaseline \/ ApplyFinish \/ RollbackFinish
               \/ \E p \in Paths : Install(p) \/ Restore(p)
               \/ \E r \in Known : RollbackBegin(r)
  PROVE  IInv'
<1> DEFINE Goal == IInv'
<1> HIDE DEF Goal
<1> SUFFICES Goal
  BY DEF Goal
<1>a. Working /\ op.at = "none" => Ready(run)
  BY DEF IInv, Control
<1>b. run \in Known => Changes(run) \subseteq Paths /\ run \in Runs /\ plan[run] \in PlanType
  BY KnownRuns DEF IInv, Changes
<1>c. \A x \in Phases : [phase |-> x] \in [phase : Phases]
  OBVIOUS
<1>d. todo \subseteq Paths
  BY DEF IInv, TypeOK
<1>1. CASE ApplyPrepare
  <2>1. /\ pc = "stage" /\ todo = {} /\ Put(Journal(run), [phase |-> "Prepared"]) /\ pc' = "start"
        /\ UNCHANGED <<plan, run, todo>> /\ op.at = "none"
    BY <1>1 DEF ApplyPrepare, SetPhase, Put
  <2>2. run \in Known /\ BackedUp(run) /\ Housed(run)
    BY <2>1 DEF IInv, Control, BackedUp, Housed
  <2>3. Working' /\ [phase |-> "Prepared"] \in [phase : Phases]
    BY <2>1, <1>c DEF Working, Phases
  <2> QED
    BY <2>1, <2>2, <2>3, <1>d, PutStep DEF Goal
<1>2. CASE ApplyStart
  <2>1. /\ Working /\ Put(Journal(run), [phase |-> "Applying"]) /\ pc' = "install"
        /\ UNCHANGED <<plan, run>> /\ op.at = "none" /\ todo' = Changes(run)
    BY <1>2 DEF ApplyStart, SetPhase, Put, Working
  <2>2. run \in Known /\ BackedUp(run) /\ Housed(run) /\ todo' \subseteq Paths
    BY <2>1, <1>b DEF IInv, Control
  <2>3. Working' /\ [phase |-> "Applying"] \in [phase : Phases]
    BY <2>1, <1>c DEF Working, Phases
  <2> QED
    BY <2>1, <2>2, <2>3, PutStep DEF Goal
<1>3. CASE ApplyRecord
  <2>1. /\ Working /\ Put(Journal(run), [phase |-> "Applying"]) /\ pc' = "install" /\ UNCHANGED <<plan, run, todo>>
    BY <1>3 DEF ApplyRecord, SetPhase, Put, Working
  <2>2. run \in Known /\ BackedUp(run) /\ Housed(run)
    BY <2>1, <1>b DEF IInv, Control
  <2>3. Working' /\ [phase |-> "Applying"] \in [phase : Phases]
    BY <2>1, <1>c DEF Working, Phases
  <2> QED
    BY <2>1, <2>2, <2>3, <1>d, PutStep DEF Goal
<1>4. CASE ApplyBaseline
  <2>1. /\ Working /\ Put(Baseline, [run |-> run]) /\ pc' = "finish" /\ UNCHANGED <<plan, run, todo>> /\ op.at = "none"
    BY <1>4 DEF ApplyBaseline, Put, Working
  <2>2. run \in Known /\ Ready(run) /\ Housed(run) /\ [run |-> run] \in Baselines
    BY <2>1, <1>a, <1>b DEF IInv, Control, Baselines
  <2>3. Working'
    BY <2>1 DEF Working
  <2> QED
    BY <2>1, <2>2, <2>3, <1>d, PutStep DEF Goal, Ready
<1>5. CASE ApplyFinish
  <2>1. /\ Working /\ Put(Journal(run), [phase |-> "Applied"]) /\ pc' = "report" /\ UNCHANGED <<plan, run, todo>>
    BY <1>5 DEF ApplyFinish, SetPhase, Put, Working
  <2>2. run \in Known /\ BackedUp(run) /\ Housed(run)
    BY <2>1, <1>b DEF IInv, Control
  <2>3. Working' /\ [phase |-> "Applied"] \in [phase : Phases]
    BY <2>1, <1>c DEF Working, Phases
  <2> QED
    BY <2>1, <2>2, <2>3, <1>d, PutStep DEF Goal
<1>6. CASE RollbackFinish
  <2>1. /\ Working /\ Put(Journal(run), [phase |-> "RolledBack"]) /\ pc' = "report" /\ UNCHANGED <<plan, run, todo>>
    BY <1>6 DEF RollbackFinish, SetPhase, Put, Working
  <2>2. run \in Known /\ BackedUp(run) /\ Housed(run)
    BY <2>1, <1>b DEF IInv, Control
  <2>3. Working' /\ [phase |-> "RolledBack"] \in [phase : Phases]
    BY <2>1, <1>c DEF Working, Phases
  <2> QED
    BY <2>1, <2>2, <2>3, <1>d, PutStep DEF Goal
<1>7. ASSUME NEW p \in Paths, Install(p)
      PROVE  Goal
  <2>1. /\ Working /\ Put(Target(p), plan[run].after[p]) /\ pc' = "record" /\ UNCHANGED <<plan, run>>
        /\ op.at = "none" /\ todo' = todo \ {p}
    BY <1>7 DEF Install, Put, Working
  <2>2. run \in Known /\ Ready(run) /\ Housed(run) /\ plan[run].after[p] \in Values
    BY <2>1, <1>a, <1>b DEF IInv, Control, PlanType
  <2>3. Working' /\ todo' \subseteq Paths
    BY <2>1, <1>d DEF Working
  <2> QED
    BY <2>1, <2>2, <2>3, PutStep DEF Goal, Ready
<1>8. ASSUME NEW p \in Paths, Restore(p)
      PROVE  Goal
  <2>1. /\ Working /\ Put(Target(p), live[Backup(run, p)]) /\ UNCHANGED <<pc, plan, run>>
        /\ op.at = "none" /\ todo' = todo \ {p}
    BY <1>8 DEF Restore, Put, Working
  <2>2. run \in Known /\ run \in Runs /\ Ready(run) /\ Housed(run)
    BY <2>1, <1>a, <1>b DEF IInv, Control
  <2>3. live[Backup(run, p)] \in Values
    BY <2>2, Roles DEF IInv, TypeOK, Values
  <2>4. Working' /\ todo' \subseteq Paths
    BY <2>1, <1>d DEF Working
  <2> QED
    BY <2>1, <2>2, <2>3, <2>4, PutStep DEF Goal, Ready
<1>9. ASSUME NEW r \in Known, RollbackBegin(r)
      PROVE  Goal
  <2>1. /\ HasJournal(r) /\ Put(Journal(r), [phase |-> "RollingBack"]) /\ UNCHANGED plan
        /\ run' = r /\ todo' = Changes(r) /\ pc' = "restore"
        /\ \A p \in Changes(r) : plan[r].before[p] # Absent => live[Backup(r, p)] = plan[r].before[p]
    BY <1>9 DEF RollbackBegin
  <2>2. r \in Runs /\ live[Journal(r)] \in disk[Journal(r)] /\ live[Journal(r)] # Absent
    BY <2>1, KnownRuns, Roles DEF HasJournal, IInv, TypeOK
  <2>3. BackedUp(r) /\ RunDir(r) \in dirs
    BY <2>2 DEF IInv, JournalLast, Homed
  <2>5. ASSUME NEW p \in Changes(r), plan[r].before[p] # Absent
        PROVE  Homes(Backup(r, p)) \subseteq dirs
    <3>1. p \in Paths /\ Backup(r, p) \in File
      BY <2>2, Roles DEF Changes
    <3>2. disk[Backup(r, p)] # {Absent}
      BY <2>1, <2>5, <3>1 DEF IInv, TypeOK
    <3> QED
      BY <2>2, <3>1, <3>2 DEF IInv, Homed
  <2>6. Housed(r)
    BY <2>3, <2>5 DEF Housed
  <2>4. Working' /\ todo' \subseteq Paths /\ [phase |-> "RollingBack"] \in [phase : Phases]
    BY <2>1, <1>c DEF Working, Changes, Phases
  <2> QED
    BY <2>1, <2>3, <2>4, <2>6, PutStep DEF Goal
<1> QED
  BY <1>1, <1>2, <1>3, <1>4, <1>5, <1>6, <1>7, <1>8, <1>9

\* A new run: its journal cannot be on the disk yet.
LEMMA ApplyBeginStep ==
  ASSUME IInv, NEW after \in [Paths -> Contents \cup {Absent}], ApplyBegin(after)
  PROVE  IInv'
<1> DEFINE before == [p \in Paths |-> live[Target(p)]]
           new == [before |-> before, after |-> after, prev |-> live[Baseline]]
           k == Len(plan) + 1
<1>1. /\ pc = "idle" /\ Len(plan) < MaxRuns
      /\ plan' = Append(plan, new) /\ run' = k /\ pc' = "stage"
      /\ todo' = {p \in Paths : before[p] # after[p]}
      /\ UNCHANGED <<live, disk, op, stops, installed, spoilt>>
  BY DEF ApplyBegin
<1>a. dirs' = dirs \cup {RunDir(k)} /\ fresh' = fresh \cup ({RunDir(k)} \ dirs)
  BY <1>1 DEF ApplyBegin, Make
<1>2. before \in [Paths -> Values] /\ live[Baseline] \in Baselines
  BY Roles DEF IInv, TypeOK, Values
<1>3. new \in PlanType
  BY <1>2 DEF PlanType, Values
<1> HIDE DEF new
<1>4. /\ plan' \in Seq(PlanType) /\ Len(plan') = k /\ Len(plan) \in Nat
      /\ \A r \in Known : plan'[r] = plan[r]
      /\ plan'[k] = new
  BY <1>1, <1>3, AppendProperties DEF IInv, Known
<1>5. Known' = Known \cup {k} /\ k \notin Known /\ k \in Runs
  BY <1>1, <1>4, BoundsAssumption DEF Known, Runs
<1>b. ASSUME NEW r \in Known
      PROVE  /\ RunDir(r) \in dirs' <=> RunDir(r) \in dirs
             /\ BackupDir(r) \in dirs' <=> BackupDir(r) \in dirs
             /\ BackupDir(r) \in fresh' <=> BackupDir(r) \in fresh
             /\ \A p : Homes(Backup(r, p)) \subseteq dirs' <=> Homes(Backup(r, p)) \subseteq dirs
  BY <1>5, <1>a, Places, Homes1
<1>c. \A r \in Known : Changes(r)' = Changes(r)
  BY <1>4 DEF Changes
<1>6. ASSUME NEW r \in Known PROVE BackedUp(r)' <=> BackedUp(r)
  BY <1>1, <1>4, <1>b, <1>c DEF BackedUp
<1>7. ASSUME NEW r \in Known PROVE Ready(r)' <=> Ready(r)
  BY <1>1, <1>4, <1>6, <1>b, <1>c DEF Ready
<1>8. TypeOK'
  <2>1. todo' \subseteq Paths /\ Len(plan') <= MaxRuns /\ run' \in 0..Len(plan') /\ installed' \subseteq Known'
    BY <1>1, <1>4, <1>5, BoundsAssumption DEF IInv, TypeOK
  <2>2. UNCHANGED <<live, disk, stops, spoilt>> /\ TypeOK
    BY <1>1 DEF IInv
  <2>3. dirs' \subseteq Directory /\ fresh' \subseteq dirs' /\ spoilt' \in 0..Len(plan')
    BY <1>4, <1>5, <1>a, <2>2, Places DEF TypeOK
  <2> QED
    BY <2>1, <2>2, <2>3 DEF TypeOK
<1>9. JournalLast' /\ InstalledReady'
  BY <1>1, <1>5, <1>6, <1>7 DEF IInv, JournalLast, InstalledReady
<1>d. Homed'
  BY <1>1, <1>a DEF IInv, Homed
<1>10. op.at = "none" /\ op' = op
  BY <1>1 DEF IInv, Control
<1>11. OpType' /\ OpOK'
  BY <1>10 DEF IInv, OpType, OpOK
<1>12. Control'
  <2>1. disk'[Journal(k)] = {Absent}
    BY <1>1, <1>5 DEF IInv, JournalLast
  <2>2. plan'[run'].before = before /\ plan'[run'].after = after
    BY <1>1, <1>4 DEF new
  <2>3. Changes(run)' = todo'
    BY <1>1, <2>2 DEF Changes
  <2>4. pc' = "stage" /\ run' \in Known' /\ disk'[Journal(run')] = {Absent} /\ RunDir(run') \in dirs'
    BY <1>1, <1>5, <1>a, <2>1
  <2> QED
    BY <2>3, <2>4 DEF Control, Working
<1> QED
  BY <1>4, <1>8, <1>9, <1>d, <1>11, <1>12 DEF IInv

\* The run of a command is one of the runs, and while it stages it has no journal.
LEMMA RunKnown ==
  ASSUME IInv
  PROVE  /\ pc # "idle" \/ op.at # "none" => run \in Known /\ run \in Runs
         /\ run \in Known => run \in Runs /\ run \in 0..Len(plan) /\ plan[run] \in PlanType
         /\ pc = "stage" => run \notin installed
<1>1. pc # "idle" => run \in Known
  BY DEF IInv, Control, Working
<1>2. run \in Known => run \in Runs /\ run \in 0..Len(plan) /\ plan[run] \in PlanType
  BY KnownRuns DEF IInv, TypeOK
<1>3. pc = "stage" => run \notin installed
  BY DEF IInv, Control, InstalledReady, Ready
<1> QED
  BY <1>1, <1>2, <1>3 DEF IInv, Control

\* Making the directories of a backup of one run leaves the other runs alone.
LEMMA OtherRuns ==
  ASSUME UNCHANGED <<disk, plan>>, NEW s \in Runs, NEW p,
         dirs' = dirs \cup Homes(Backup(s, p)), fresh' = fresh \cup (Homes(Backup(s, p)) \ dirs)
  PROVE  \A r \in Runs \ {s} : (BackedUp(r)' <=> BackedUp(r)) /\ (Ready(r)' <=> Ready(r))
<1> SUFFICES ASSUME NEW r \in Runs \ {s} PROVE (BackedUp(r)' <=> BackedUp(r)) /\ (Ready(r)' <=> Ready(r))
  OBVIOUS
<1>1. RunDir(r) \notin Homes(Backup(s, p)) /\ BackupDir(r) \notin Homes(Backup(s, p)) /\ \A q : BackupFolder(r, q) \notin Homes(Backup(s, p))
  BY Places, Homes1
<1>2. /\ RunDir(r) \in dirs' <=> RunDir(r) \in dirs
      /\ BackupDir(r) \in dirs' <=> BackupDir(r) \in dirs
      /\ BackupDir(r) \in fresh' <=> BackupDir(r) \in fresh
      /\ \A q : Homes(Backup(r, q)) \subseteq dirs' <=> Homes(Backup(r, q)) \subseteq dirs
  BY <1>1, Homes1
<1>3. Changes(r)' = Changes(r)
  BY DEF Changes
<1>4. BackedUp(r)' <=> BackedUp(r)
  BY <1>2, <1>3 DEF BackedUp
<1> QED
  BY <1>2, <1>3, <1>4 DEF Ready

\* Staging writes the backups of the new run.
LEMMA BackUpStep ==
  ASSUME IInv, NEW p \in Paths, BackUp(p)
  PROVE  IInv'
<1>1. pc = "stage" /\ p \in todo /\ todo' = todo \ {p} /\ op.at = "none"
      /\ UNCHANGED <<plan, pc, run, live, disk, stops, installed, spoilt>>
  BY DEF BackUp, Put
<1>2. run \in Known /\ run \in Runs /\ run \in 0..Len(plan) /\ plan[run] \in PlanType /\ run \notin installed
  BY <1>1, RunKnown
<1>4. Known' = Known /\ Changes(run)' = Changes(run)
  BY <1>1 DEF Known, Changes
<1>5. \A q \in Changes(run) \ todo : plan[run].before[q] # Absent =>
        Homes(Backup(run, q)) \subseteq dirs /\ disk[Backup(run, q)] = {plan[run].before[q]}
  BY <1>1 DEF IInv, Control
<1>6. disk[Journal(run)] = {Absent} /\ RunDir(run) \in dirs
  BY <1>1 DEF IInv, Control
<1>7. CASE plan[run].before[p] = Absent
  <2>1. op' = op /\ UNCHANGED <<dirs, fresh>>
    BY <1>7 DEF BackUp
  <2>2. SameRuns /\ dirs' \subseteq Directory /\ fresh' \subseteq dirs'
    BY <2>1 DEF SameRuns, IInv, TypeOK
  <2>3. TypeOK' /\ (plan \in Seq(PlanType))' /\ JournalLast' /\ Homed' /\ InstalledReady'
    BY <1>1, <1>2, <2>2, FilesKept DEF IInv, TypeOK
  <2>4. OpType' /\ OpOK'
    BY <1>1, <2>1 DEF IInv, OpType, OpOK
  <2>5. \A q \in Changes(run) \ todo' : plan[run].before[q] # Absent =>
          Homes(Backup(run, q)) \subseteq dirs /\ disk[Backup(run, q)] = {plan[run].before[q]}
    BY <1>1, <1>5, <1>7
  <2>6. Control'
    BY <1>1, <1>2, <1>4, <1>6, <2>1, <2>5 DEF Control, Working
  <2> QED
    BY <2>3, <2>4, <2>6 DEF IInv
<1>8. CASE plan[run].before[p] # Absent
  <2>1. Put(Backup(run, p), live[Target(p)]) /\ Backup(run, p) \in File
    BY <1>2, <1>8, Roles DEF BackUp
  <2>2. op'.at = "written" /\ op'.file = Backup(run, p) /\ op'.value = live[Target(p)]
    BY <2>1 DEF Put
  <2>3. live[Target(p)] \in Values
    BY Roles DEF IInv, TypeOK, Values
  <2>4. OpType'
    BY <2>1, <2>3 DEF Put, OpType
  <2>5. live[Target(p)] = plan[run].before[p]
    BY <1>8 DEF BackUp
  <2>a. /\ dirs \subseteq dirs' /\ Homes(Backup(run, p)) \subseteq dirs' /\ dirs' \subseteq Directory /\ fresh' \subseteq dirs'
        /\ dirs' = dirs \cup Homes(Backup(run, p)) /\ fresh' = fresh \cup (Homes(Backup(run, p)) \ dirs)
    BY <2>1, PutMakes DEF IInv
  <2>6. OpOK'
    BY <1>1, <2>2, <2>5, <2>a DEF OpOK
  <2>b. \A r \in Runs \ {run} : (BackedUp(r)' <=> BackedUp(r)) /\ (Ready(r)' <=> Ready(r))
    BY <1>1, <1>2, <2>a, OtherRuns
  <2>7. \A q \in Changes(run) \ todo' : plan[run].before[q] # Absent =>
          /\ Homes(Backup(run, q)) \subseteq dirs'
          /\ disk[Backup(run, q)] = {plan[run].before[q]} \/ op'.file = Backup(run, q)
    BY <1>1, <1>5, <2>2, <2>a
  <2>8. Control'
    BY <1>1, <1>2, <1>4, <1>6, <2>2, <2>7, <2>a DEF Control, Working
  <2>9. TypeOK' /\ plan' \in Seq(PlanType)
    BY <1>1, <1>2, <1>4, <2>a DEF IInv, TypeOK
  <2>10. JournalLast'
    BY <1>1, <1>4, <1>6, <2>b DEF IInv, JournalLast
  <2>11. Homed'
    BY <1>1, <2>a DEF IInv, Homed
  <2>12. InstalledReady'
    <3>1. Known \subseteq Runs
      BY KnownRuns DEF IInv
    <3> QED
      BY <1>1, <1>2, <1>4, <2>b, <3>1 DEF IInv, InstalledReady
  <2> QED
    BY <2>4, <2>6, <2>8, <2>9, <2>10, <2>11, <2>12 DEF IInv
<1> QED
  BY <1>7, <1>8

\* A flushed temporary file is whole.
LEMMA FlushStep == IInv /\ Flush => IInv'
<1> SUFFICES ASSUME IInv, Flush PROVE IInv'
  OBVIOUS
<1>1. /\ op.at = "written" /\ op'.at = "flushed" /\ ~op'.torn /\ op'.file = op.file /\ op'.value = op.value
      /\ UNCHANGED <<live, disk, dirs, fresh, plan, pc, run, todo, stops, installed, spoilt>>
  BY DEF Flush, IInv, OpType
<1>2. OpType'
  BY DEF Flush, IInv, OpType
<1>a. SameRuns /\ dirs' \subseteq Directory /\ fresh' \subseteq dirs'
  BY <1>1 DEF SameRuns, IInv, TypeOK
<1>3. TypeOK' /\ (plan \in Seq(PlanType))' /\ JournalLast' /\ Homed' /\ InstalledReady'
  BY <1>1, <1>a, FilesKept DEF IInv, TypeOK
<1>b. run \in Known /\ run \in Runs
  BY <1>1, RunKnown
<1>4. OpOK'
  BY <1>1, <1>a, <1>b, Frozen DEF IInv, OpOK, Working
<1>5. Control'
  BY <1>1, <1>a, <1>b, Frozen DEF IInv, Control, Working
<1> QED
  BY <1>2, <1>3, <1>4, <1>5 DEF IInv

\* Steps that write nothing.
LEMMA QuietStep ==
  ASSUME IInv, Stop \/ Report \/ \E p \in Paths : RestoreSkip(p)
  PROVE  IInv'
<1>1. /\ UNCHANGED <<live, disk, dirs, fresh, plan, run, installed, spoilt>> /\ todo' \subseteq Paths /\ stops' \in 0..MaxStops
      /\ \/ op' = NoOp /\ pc' = "idle"
         \/ op' = op /\ op.at = "none" /\ pc' \in {pc, "idle"} /\ pc \in {"restore", "report"}
  <2>1. CASE Stop
    BY <2>1, BoundsAssumption DEF Stop, Halt, IInv, TypeOK
  <2>2. CASE Report
    BY <2>2 DEF Report, IInv, TypeOK
  <2>3. ASSUME NEW p \in Paths, RestoreSkip(p)
        PROVE  /\ UNCHANGED <<live, disk, dirs, fresh, plan, run, installed, spoilt, op, pc>> /\ todo' \subseteq Paths
               /\ stops' \in 0..MaxStops /\ op.at = "none" /\ pc = "restore"
    BY <2>3 DEF RestoreSkip, IInv, TypeOK
  <2> QED
    BY <2>1, <2>2, <2>3
<1>a. SameRuns /\ dirs' \subseteq Directory /\ fresh' \subseteq dirs'
  BY <1>1 DEF SameRuns, IInv, TypeOK
<1>2. TypeOK' /\ (plan \in Seq(PlanType))' /\ JournalLast' /\ Homed' /\ InstalledReady'
  BY <1>1, <1>a, FilesKept DEF IInv, TypeOK
<1>3. CASE op' = NoOp /\ pc' = "idle"
  <2>1. OpType' /\ OpOK'
    BY <1>3, Roles DEF OpType, OpOK, NoOp, Values
  <2>2. Control'
    BY <1>3 DEF Control, Working, NoOp
  <2> QED
    BY <1>2, <2>1, <2>2 DEF IInv
<1>4. CASE op' = op /\ op.at = "none" /\ pc' \in {pc, "idle"} /\ pc \in {"restore", "report"}
  <2>1. OpType' /\ OpOK'
    BY <1>4 DEF IInv, OpType, OpOK
  <2>2. run \in Known /\ run \in Runs /\ Ready(run) /\ BackedUp(run) /\ Housed(run)
    BY <1>4, RunKnown DEF IInv, Control, Working
  <2>3. Ready(run)' /\ BackedUp(run)' /\ Housed(run)' /\ Known' = Known
    BY <1>1, <1>a, <2>2, Frozen
  <2>4. Control'
    BY <1>1, <1>4, <2>2, <2>3 DEF Control, Working
  <2> QED
    BY <1>2, <2>1, <2>4 DEF IInv
<1> QED
  BY <1>1, <1>3, <1>4

-----------------------------------------------------------------------------
(* Steps of the file system *)

\* v fits the role of f.
RoleOK(f, v) ==
  \/ \E p \in Paths : f = Target(p) /\ v \in Values
  \/ \E r \in Runs, p \in Paths : f = Backup(r, p) /\ v \in Values
  \/ \E r \in Runs : f = Journal(r) /\ v \in Journals
  \/ f = Baseline /\ v \in Baselines

\* Only f changes, and takes over at most v.
OneFile(f, v) ==
  /\ f \in File
  /\ DOMAIN live' = File /\ DOMAIN disk' = File
  /\ \A g \in File : g # f => live'[g] = live[g] /\ disk'[g] = disk[g]
  /\ live'[f] \in disk'[f] /\ disk'[f] \subseteq disk[f] \cup {v}

\* Changing one file keeps the types of the disk.
LEMMA OneFileTypes ==
  ASSUME IInv, NEW f, NEW v, OneFile(f, v), RoleOK(f, v), UNCHANGED <<plan, run, stops, dirs, spoilt>>,
         fresh' \subseteq fresh, todo' \subseteq Paths, installed' \subseteq Known
  PROVE  TypeOK'
<1>1. \A g \in File : live'[g] \in disk'[g]
  BY DEF OneFile, IInv, TypeOK
<1>2. FileOK(disk)
  BY DEF IInv, TypeOK, FileOK, Values
<1>3. \A p \in Paths : disk'[Target(p)] \subseteq Values
  BY <1>2, Roles DEF FileOK, OneFile, RoleOK
<1>4. \A r \in Runs, p \in Paths : disk'[Backup(r, p)] \subseteq Values
  BY <1>2, Roles DEF FileOK, OneFile, RoleOK
<1>5. \A r \in Runs : disk'[Journal(r)] \subseteq Journals
  BY <1>2, Roles DEF FileOK, OneFile, RoleOK
<1>6. disk'[Baseline] \subseteq Baselines
  BY <1>2, Roles DEF FileOK, OneFile, RoleOK
<1>7. DOMAIN live' = File /\ DOMAIN disk' = File
  BY DEF OneFile
<1>8. /\ Len(plan') <= MaxRuns /\ run' \in 0..Len(plan')
      /\ stops' \in 0..MaxStops /\ installed' \subseteq Known'
      /\ dirs' \subseteq Directory /\ fresh' \subseteq dirs' /\ spoilt' \in 0..Len(plan')
  BY DEF IInv, TypeOK, Known
<1> QED
  BY <1>1, <1>3, <1>4, <1>5, <1>6, <1>7, <1>8 DEF TypeOK, Values

\* Runs whose backups and journal are other files keep them.
LEMMA Untouched ==
  ASSUME IInv, NEW f, NEW v, OneFile(f, v), UNCHANGED <<plan, dirs>>
  PROVE  /\ Known' = Known
         /\ \A r \in Known : Changes(r)' = Changes(r)
         /\ \A r \in Known : (\A p \in Paths : f # Backup(r, p)) => (BackedUp(r)' <=> BackedUp(r))
         /\ \A r \in Known : Housed(r)' <=> Housed(r)
         /\ \A r \in Runs : f # Journal(r) => disk'[Journal(r)] = disk[Journal(r)]
<1>1. Known' = Known /\ \A r \in Known : Changes(r)' = Changes(r) /\ Changes(r) \subseteq Paths /\ r \in Runs
  BY KnownRuns DEF Known, Changes, IInv
<1>2. ASSUME NEW r \in Known, \A p \in Paths : f # Backup(r, p)
      PROVE  BackedUp(r)' <=> BackedUp(r)
  <2>1. \A p \in Changes(r) : disk'[Backup(r, p)] = disk[Backup(r, p)]
    BY <1>1, <1>2, Roles DEF OneFile
  <2> QED
    BY <1>1, <2>1 DEF BackedUp
<1>4. \A r \in Known : Housed(r)' <=> Housed(r)
  BY <1>1 DEF Housed
<1>3. \A r \in Runs : f # Journal(r) => disk'[Journal(r)] = disk[Journal(r)]
  BY Roles DEF OneFile
<1> QED
  BY <1>1, <1>2, <1>3, <1>4

\* No more may be there than was, but for one file in a directory that is there.
LEMMA HomedKept ==
  ASSUME IInv, NEW f, NEW v, OneFile(f, v), UNCHANGED dirs, Homes(f) \subseteq dirs \/ v = Absent
  PROVE  Homed'
<1> SUFFICES ASSUME NEW g \in File, disk'[g] # {Absent},
                    disk[g] # {Absent} => Homes(g) \subseteq dirs
             PROVE  Homes(g) \subseteq dirs
  BY Roles, Homes1 DEF Homed, IInv
<1>1. CASE g = f
  <2>1. v = Absent => disk[f] # {Absent}
    BY <1>1 DEF OneFile
  <2> QED
    BY <1>1, <2>1
<1>2. CASE g # f
  BY <1>2 DEF OneFile
<1> QED
  BY <1>1, <1>2

\* A change of a payload file or of the baseline, by a run whose journal is there.
LEMMA PayloadStep ==
  ASSUME IInv, NEW f, NEW v, OneFile(f, v), RoleOK(f, v),
         (\E p \in Paths : f = Target(p)) \/ f = Baseline,
         UNCHANGED <<dirs, fresh, plan, run, stops, spoilt>>, todo' \subseteq Paths,
         installed' \subseteq installed \cup {run},
         Working, Working', OpType', Ready(run),
         \/ op'.at = "none"
         \/ op'.at = "named" /\ op'.file = f /\ op'.value = v /\ ~op'.torn /\ live'[f] = v
  PROVE  IInv'
<1>1. run \in Known /\ run \in Runs /\ BackedUp(run) /\ Housed(run) /\ Known \subseteq Runs
  BY KnownRuns DEF IInv, Control
<1>2. \A r \in Runs : f # Journal(r) /\ \A p \in Paths : f # Backup(r, p)
  BY Roles
<1>3. /\ Known' = Known
      /\ \A r \in Known : Changes(r)' = Changes(r) /\ (BackedUp(r)' <=> BackedUp(r)) /\ (Housed(r)' <=> Housed(r))
      /\ \A r \in Runs : disk'[Journal(r)] = disk[Journal(r)]
  BY <1>1, <1>2, Untouched
<1>4. \A r \in Known : Ready(r)' <=> Ready(r)
  BY <1>1, <1>3 DEF Ready
<1>5. JournalLast'
  BY <1>1, <1>3 DEF IInv, JournalLast
<1>6. InstalledReady'
  BY <1>1, <1>3, <1>4 DEF IInv, InstalledReady
<1>7. Homed'
  <2>1. \A r \in Runs, p \in Paths : disk'[Backup(r, p)] = disk[Backup(r, p)]
    BY <1>2, Roles DEF OneFile
  <2> QED
    BY <1>3, <2>1 DEF IInv, Homed
<1>8. OpOK'
  <2>1. op'.at # "none" =>
          \/ \E p \in Paths : op'.file = Target(p) /\ op'.value \in Values /\ Working' /\ Ready(run)'
          \/ op'.file = Baseline /\ op'.value \in Baselines /\ Working'
    BY <1>1, <1>4, Roles DEF RoleOK
  <2> QED
    BY <2>1 DEF OpOK
<1>9. Control'
  BY <1>1, <1>3, <1>4 DEF Control, Working
<1>10. TypeOK'
  <2>1. installed' \subseteq Known
    BY <1>1 DEF IInv, TypeOK
  <2> QED
    BY <2>1, OneFileTypes
<1> QED
  BY <1>5, <1>6, <1>7, <1>8, <1>9, <1>10 DEF IInv

\* A backup gets or keeps its content while the journal is not on the disk yet.
LEMMA BackupFileStep ==
  ASSUME IInv, NEW p \in Paths, NEW v, OneFile(Backup(run, p), v), v = plan[run].before[p], v \in Values,
         pc = "stage", UNCHANGED <<dirs, fresh, plan, pc, run, todo, stops, installed, spoilt>>, OpType',
         \/ op'.at = "named" /\ op'.file = Backup(run, p) /\ op'.value = v /\ ~op'.torn /\ live'[Backup(run, p)] = v
         \/ op'.at = "none" /\ disk'[Backup(run, p)] = {v},
         op.file = Backup(run, p), Homes(Backup(run, p)) \subseteq dirs
  PROVE  IInv'
<1>1. run \in Known /\ run \in Runs /\ Known \subseteq Runs /\ disk[Journal(run)] = {Absent}
      /\ run \notin installed /\ RunDir(run) \in dirs
  BY KnownRuns, RunKnown DEF IInv, Control
<1> DEFINE f == Backup(run, p)
<1>2. /\ \A r \in Runs : f # Journal(r)
      /\ \A r \in Runs \ {run}, q \in Paths : f # Backup(r, q)
      /\ \A q \in Paths : q # p => f # Backup(run, q)
  BY <1>1, Roles
<1> HIDE DEF f
<1>3. OneFile(f, v) /\ RoleOK(f, v)
  BY <1>1 DEF f, RoleOK
<1>4. TypeOK'
  <2>1. todo' \subseteq Paths /\ installed' \subseteq Known
    BY DEF IInv, TypeOK
  <2> QED
    BY <1>3, <2>1, OneFileTypes
<1>5. \A r \in Runs : disk'[Journal(r)] = disk[Journal(r)]
  BY <1>2, <1>3, Untouched
<1>6. Known' = Known /\ \A r \in Known : Changes(r)' = Changes(r) /\ (r # run => (BackedUp(r)' <=> BackedUp(r)))
  BY <1>1, <1>2, <1>3, Untouched
<1>7. JournalLast'
  BY <1>1, <1>5, <1>6 DEF IInv, JournalLast
<1>8. InstalledReady'
  BY <1>1, <1>5, <1>6 DEF IInv, InstalledReady, Ready
<1>a. Homed'
  BY <1>3, HomedKept DEF f
<1>9. OpOK'
  BY <1>3 DEF OpOK, f
<1>10. Control'
  <2>1. \A q \in Changes(run) \ todo : q # p /\ plan[run].before[q] # Absent =>
          Homes(Backup(run, q)) \subseteq dirs /\ disk'[Backup(run, q)] = {plan[run].before[q]}
    <3> SUFFICES ASSUME NEW q \in Changes(run) \ todo, q # p, plan[run].before[q] # Absent
                 PROVE  Homes(Backup(run, q)) \subseteq dirs /\ disk'[Backup(run, q)] = {plan[run].before[q]}
      OBVIOUS
    <3>1. q \in Paths /\ Backup(run, q) \in File /\ Backup(run, q) # f
      BY <1>1, <1>2, Roles DEF Changes
    <3>2. Homes(Backup(run, q)) \subseteq dirs /\ disk[Backup(run, q)] = {plan[run].before[q]}
      BY <3>1 DEF IInv, Control, f
    <3> QED
      BY <1>3, <3>1, <3>2 DEF OneFile
  <2>2. Changes(run)' = Changes(run)
    BY DEF Changes
  <2>3. \A q \in Changes(run)' \ todo' : plan'[run'].before[q] # Absent =>
          /\ Homes(Backup(run', q)) \subseteq dirs'
          /\ disk'[Backup(run', q)] = {plan'[run'].before[q]} \/ (op'.at # "none" /\ op'.file = Backup(run', q))
    BY <2>1, <2>2
  <2>4. pc' = "stage" /\ run' \in Known' /\ disk'[Journal(run')] = {Absent} /\ RunDir(run') \in dirs'
    BY <1>1, <1>5, <1>6
  <2> QED
    BY <2>3, <2>4 DEF Control, Working
<1> QED
  BY <1>4, <1>7, <1>8, <1>a, <1>9, <1>10 DEF IInv

\* A journal gets or keeps a record while the backups are there.
LEMMA JournalFileStep ==
  ASSUME IInv, NEW v \in [phase : Phases], OneFile(Journal(run), v), Working,
         UNCHANGED <<dirs, plan, pc, run, todo, stops, installed, spoilt>>, OpType', fresh' \subseteq fresh,
         \/ op'.at = "named" /\ op'.file = Journal(run) /\ op'.value = v /\ ~op'.torn /\ live'[Journal(run)] = v
         \/ op'.at = "none" /\ disk'[Journal(run)] = {v} /\ BackupDir(run) \notin fresh'
  PROVE  IInv'
<1>1. run \in Known /\ run \in Runs /\ Known \subseteq Runs /\ BackedUp(run) /\ Housed(run)
  BY KnownRuns DEF IInv, Control
<1> DEFINE f == Journal(run)
<1>2. /\ \A r \in Runs \ {run} : f # Journal(r)
      /\ \A r \in Runs, q \in Paths : f # Backup(r, q)
  BY <1>1, Roles
<1> HIDE DEF f
<1>3. OneFile(f, v) /\ RoleOK(f, v) /\ v # Absent
  BY <1>1, ValuesAssumption DEF f, RoleOK, Journals
<1>4. TypeOK'
  <2>1. todo' \subseteq Paths /\ installed' \subseteq Known
    BY DEF IInv, TypeOK
  <2> QED
    BY <1>3, <2>1, OneFileTypes
<1>5. /\ Known' = Known
      /\ \A r \in Known : Changes(r)' = Changes(r) /\ (BackedUp(r)' <=> BackedUp(r)) /\ (Housed(r)' <=> Housed(r))
  BY <1>1, <1>2, <1>3, Untouched
<1>6. \A r \in Runs \ {run} : disk'[Journal(r)] = disk[Journal(r)]
  BY <1>2, <1>3, Untouched
<1>7. Absent \notin disk[f] => Absent \notin disk'[f]
  BY <1>3 DEF OneFile
<1>8. JournalLast'
  BY <1>1, <1>5, <1>6 DEF IInv, JournalLast
<1>9. InstalledReady'
  BY <1>1, <1>5, <1>6, <1>7 DEF IInv, InstalledReady, Ready, f
<1>a. Homed'
  <2>1. Homes(f) \subseteq dirs
    BY <1>1, Homes1 DEF Housed, f
  <2> QED
    BY <1>3, <2>1, HomedKept
<1>10. OpOK'
  BY <1>3 DEF OpOK, Working
<1>11. Control'
  <2>3. \A p \in Changes(run) : plan[run].before[p] # Absent => BackupDir(run) \in dirs
    BY <1>1, Homes1 DEF Housed
  <2>1. op'.at = "none" => Ready(run)'
    BY <1>1, <1>3, <1>5, <2>3 DEF Ready
  <2>2. op'.at # "none" => op'.file = Journal(run)
    OBVIOUS
  <2> QED
    BY <1>1, <1>5, <2>1, <2>2 DEF Control, Working
<1> QED
  BY <1>4, <1>8, <1>9, <1>a, <1>10, <1>11 DEF IInv

\* A rename leaves what the journal needs.
LEMMA NameStep == IInv /\ Name => IInv'
<1> SUFFICES ASSUME IInv, Name PROVE IInv'
  OBVIOUS
<1> DEFINE f == op.file
           v == op.value
<1>1. /\ op.at = "flushed" /\ ~op.torn
      /\ live' = [live EXCEPT ![f] = v] /\ disk' = [disk EXCEPT ![f] = disk[f] \cup {v}]
      /\ UNCHANGED <<dirs, fresh, plan, pc, run, todo, stops, spoilt>>
  <2>1. op.at = "flushed" /\ ~op.torn
    BY DEF Name, IInv, OpOK
  <2>2. disk' = [disk EXCEPT ![f] = disk[f] \cup {v} \cup (IF op.torn THEN {Torn} ELSE {})]
    BY DEF Name
  <2>3. disk[f] \cup {v} \cup (IF op.torn THEN {Torn} ELSE {}) = disk[f] \cup {v}
    BY <2>1
  <2> QED
    BY <2>1, <2>2, <2>3 DEF Name
<1>2. op'.at = "named" /\ op'.file = f /\ op'.value = v /\ ~op'.torn /\ OpType' /\ f \in File
  BY <1>1 DEF Name, IInv, OpType
<1> HIDE DEF f, v
<1>3. OneFile(f, v) /\ live'[f] = v
  BY <1>1, <1>2 DEF OneFile, IInv, TypeOK
<1>4. todo' \subseteq Paths
  BY <1>1 DEF IInv, TypeOK
<1>5. ASSUME NEW p \in Paths, f = Target(p), v \in Values, Working, Ready(run)
      PROVE  IInv'
  <2>1. installed' \subseteq installed \cup {run} /\ Working' /\ RoleOK(f, v)
    BY <1>1, <1>5 DEF Name, Working, RoleOK
  <2> QED
    BY <1>1, <1>2, <1>3, <1>4, <1>5, <2>1, PayloadStep
<1>6. ASSUME f = Baseline, v \in Baselines, Working
      PROVE  IInv'
  <2>1. installed' = installed /\ Working' /\ RoleOK(f, v)
    BY <1>1, <1>6, Roles DEF Name, Working, RoleOK, f
  <2>2. run \in Known /\ run \in Runs
    BY <1>6, KnownRuns DEF IInv, Control
  <2>3. Ready(run)
    BY <1>6, <2>2, Roles DEF IInv, Control, f
  <2> QED
    BY <1>1, <1>2, <1>3, <1>4, <1>6, <2>1, <2>3, PayloadStep
<1>7. ASSUME f = Journal(run), v \in [phase : Phases], Working
      PROVE  IInv'
  <2>1. run \in Runs
    BY <1>7, KnownRuns DEF IInv, Control
  <2>2. installed' = installed
    BY <1>7, <2>1, Roles DEF Name, f
  <2> QED
    BY <1>1, <1>2, <1>3, <1>7, <2>2, JournalFileStep
<1>8. ASSUME NEW p \in Paths, f = Backup(run, p), v = plan[run].before[p], pc = "stage", Homes(f) \subseteq dirs
      PROVE  IInv'
  <2>1. run \in Known /\ run \in Runs /\ plan[run] \in PlanType
    BY <1>8, KnownRuns DEF IInv, Control
  <2>2. installed' = installed /\ v \in Values
    BY <1>8, <2>1, Roles DEF Name, f, PlanType
  <2>3. op.file = Backup(run, p)
    BY <1>8 DEF f
  <2> QED
    BY <1>1, <1>2, <1>3, <1>8, <2>2, <2>3, BackupFileStep
<1> QED
  BY <1>1, <1>5, <1>6, <1>7, <1>8 DEF IInv, OpOK, f, v

\* A directory flush leaves what the journal needs.
LEMMA SyncStep == IInv /\ SyncParent => IInv'
<1> SUFFICES ASSUME IInv, SyncParent PROVE IInv'
  OBVIOUS
<1> DEFINE f == op.file
           v == op.value
<1>1. /\ op.at = "named" /\ live' = live /\ live[f] = v
      /\ disk' = [disk EXCEPT ![f] = {v}]
      /\ UNCHANGED <<dirs, plan, pc, run, todo, stops, installed, spoilt>>
      /\ fresh' = IF f[1] = "journal" THEN fresh \ {BackupDir(f[2])} ELSE fresh
  BY DEF SyncParent, IInv, OpOK
<1>2. op'.at = "none" /\ OpType' /\ f \in File
  BY Roles DEF SyncParent, IInv, OpType, NoOp, Values
<1> HIDE DEF f, v
<1>3. OneFile(f, v) /\ disk'[f] = {v}
  BY <1>1, <1>2 DEF OneFile, IInv, TypeOK
<1>4. Control /\ OpOK /\ todo' \subseteq Paths
  BY <1>1 DEF IInv, TypeOK
<1>5. ASSUME (\E p \in Paths : f = Target(p)) \/ f = Baseline, RoleOK(f, v), Working
      PROVE  IInv'
  <2>1. run \in Known /\ run \in Runs
    BY <1>4, <1>5, KnownRuns DEF IInv, Control
  <2>2. f # Journal(run)
    BY <1>5, <2>1, Roles
  <2>3. Ready(run)
    BY <1>4, <1>5, <2>2 DEF Control, f
  <2>4. Working' /\ fresh' = fresh
    BY <1>1, <1>5, Roles DEF Working
  <2> QED
    BY <1>1, <1>2, <1>3, <1>4, <1>5, <2>3, <2>4, PayloadStep
<1>6. ASSUME f = Journal(run), v \in [phase : Phases], Working
      PROVE  IInv'
  <2>1. run \in Runs
    BY <1>6, KnownRuns DEF IInv, Control
  <2>2. fresh' = fresh \ {BackupDir(run)}
    BY <1>1, <1>6, <2>1, Roles
  <2> QED
    BY <1>1, <1>2, <1>3, <1>6, <2>2, JournalFileStep
<1>7. ASSUME NEW p \in Paths, f = Backup(run, p), v = plan[run].before[p], pc = "stage", Homes(f) \subseteq dirs
      PROVE  IInv'
  <2>1. run \in Known /\ run \in Runs /\ plan[run] \in PlanType
    BY <1>7, KnownRuns DEF IInv, Control
  <2>2. v \in Values /\ fresh' = fresh
    BY <1>1, <1>7, <2>1, Roles DEF PlanType
  <2>3. op.file = Backup(run, p)
    BY <1>7 DEF f
  <2> QED
    BY <1>1, <1>2, <1>3, <1>7, <2>2, <2>3, BackupFileStep
<1> QED
  BY <1>1, <1>4, <1>5, <1>6, <1>7 DEF OpOK, f, v, RoleOK

\* remove_file, by a rollback.
LEMMA UnlinkStep ==
  ASSUME IInv, NEW f, Unlink(f), RoleOK(f, Absent), (\E p \in Paths : f = Target(p)) \/ f = Baseline,
         Working, Working', UNCHANGED <<plan, run>>, todo' \subseteq Paths
  PROVE  IInv'
<1>1. /\ op.at = "none" /\ UNCHANGED <<dirs, fresh, stops, installed, spoilt>>
      /\ live' = [live EXCEPT ![f] = Absent] /\ disk' = [disk EXCEPT ![f] = disk[f] \cup {Absent}]
      /\ op' = [NoOp EXCEPT !.at = "named", !.file = f]
  BY DEF Unlink
<1>2. f \in File
  BY Roles
<1>3. op' = [at |-> "named", file |-> f, value |-> Absent, torn |-> FALSE]
  BY <1>1 DEF NoOp
<1>4. OpType' /\ op'.at = "named" /\ op'.file = f /\ op'.value = Absent /\ ~op'.torn
  BY <1>2, <1>3 DEF OpType, Values
<1>5. OneFile(f, Absent) /\ live'[f] = Absent
  BY <1>1, <1>2 DEF OneFile, IInv, TypeOK
<1>6. run \in Known /\ Ready(run)
  BY <1>1 DEF IInv, Control
<1> QED
  BY <1>1, <1>4, <1>5, <1>6, PayloadStep

\* A removal by a rollback is covered by the record it undoes.
LEMMA RemoveStep == ASSUME IInv, NEW p \in Paths, RestoreRemove(p) PROVE IInv'
<1>1. /\ pc = "restore" /\ Unlink(Target(p)) /\ UNCHANGED <<plan, pc, run>> /\ todo' = todo \ {p}
  BY DEF RestoreRemove
<1>2. Working /\ Working' /\ todo' \subseteq Paths
  BY <1>1 DEF Working, IInv, TypeOK
<1>3. RoleOK(Target(p), Absent)
  BY DEF RoleOK, Values
<1> QED
  BY <1>1, <1>2, <1>3, UnlinkStep

\* The last step of a rollback keeps the order of journal and files.
LEMMA RollbackBaselineStep == IInv /\ RollbackBaseline => IInv'
<1> SUFFICES ASSUME IInv, RollbackBaseline PROVE IInv'
  OBVIOUS
<1>1. /\ pc = "restore" /\ pc' = "rolled" /\ UNCHANGED <<plan, run, todo>> /\ op.at = "none"
  BY DEF RollbackBaseline, Put, Unlink
<1>2. Working /\ Working' /\ todo' \subseteq Paths
  BY <1>1 DEF Working, IInv, TypeOK
<1>3. run \in Known /\ run \in Runs /\ Ready(run) /\ BackedUp(run) /\ Housed(run) /\ plan[run] \in PlanType
  BY <1>1, <1>2, KnownRuns DEF IInv, Control
<1>4. CASE Put(Baseline, plan[run].prev)
  <2>1. plan[run].prev \in Baselines
    BY <1>3 DEF PlanType
  <2> QED
    BY <1>1, <1>2, <1>3, <1>4, <2>1, PutStep
<1>5. CASE Unlink(Baseline)
  <2>1. RoleOK(Baseline, Absent)
    BY DEF RoleOK, Baselines
  <2> QED
    BY <1>1, <1>2, <1>5, <2>1, UnlinkStep
<1>6. CASE UNCHANGED <<live, disk, dirs, fresh, op, stops, installed, loose, spoilt>>
  <2>a. SameRuns /\ dirs' \subseteq Directory /\ fresh' \subseteq dirs'
    BY <1>6 DEF SameRuns, IInv, TypeOK
  <2>1. TypeOK' /\ (plan \in Seq(PlanType))' /\ JournalLast' /\ Homed' /\ InstalledReady'
    BY <1>1, <1>2, <1>6, <2>a, FilesKept DEF IInv, TypeOK
  <2>2. OpType' /\ OpOK'
    BY <1>1, <1>6 DEF IInv, OpType, OpOK
  <2>4. Ready(run)' /\ BackedUp(run)' /\ Housed(run)' /\ Known' = Known
    BY <1>1, <1>3, <1>6, <2>a, Frozen
  <2>3. Control'
    BY <1>1, <1>2, <1>3, <1>6, <2>4 DEF Control
  <2> QED
    BY <2>1, <2>2, <2>3 DEF IInv
<1> QED
  BY <1>4, <1>5, <1>6 DEF RollbackBaseline

\* A loss of power leaves of every file something that was said to be possible.
LEMMA PowerLossStep == IInv /\ PowerLoss => IInv'
<1> SUFFICES ASSUME IInv, PowerLoss PROVE IInv'
  OBVIOUS
<1>1. PICK cut \in SUBSET fresh, kept \in [Unsettled -> UNION {disk[f] : f \in Unsettled}] :
        /\ \A f \in Unsettled : kept[f] \in disk[f]
        /\ live' = [f \in File |-> IF Homes(f) \cap cut # {} THEN Absent
                                   ELSE IF f \in Unsettled THEN kept[f] ELSE live[f]]
        /\ dirs' = {d \in dirs : Around(d) \cap cut = {}}
        /\ spoilt' \in Spoilt(cut)
  BY DEF PowerLoss
<1>2. /\ DOMAIN live' = File
      /\ \A f \in File : IF Homes(f) \cap cut # {} THEN live'[f] = Absent ELSE live'[f] \in disk[f]
  BY <1>1 DEF IInv, TypeOK
<1>3. DOMAIN disk' = File /\ (\A f \in File : disk'[f] = {live'[f]}) /\ fresh' = {}
  BY DEF PowerLoss
<1>4. /\ op' = NoOp /\ pc' = "idle" /\ todo' = {} /\ UNCHANGED <<plan, run, installed>>
      /\ stops' \in 0..MaxStops
  BY BoundsAssumption DEF PowerLoss, Halt, IInv, TypeOK
<1>5. Known' = Known /\ Known \subseteq Runs /\ \A r \in Known : Changes(r)' = Changes(r) /\ Changes(r) \subseteq Paths
  BY <1>4, KnownRuns DEF Known, Changes, IInv
<1>a. ASSUME NEW d \in dirs' PROVE d \in dirs /\ d \notin cut
  BY <1>1 DEF Around
<1>b. ASSUME NEW r, RunDir(r) \in dirs, RunDir(r) \notin cut
      PROVE  RunDir(r) \in dirs' /\ (BackupDir(r) \in dirs \ cut => BackupDir(r) \in dirs')
  BY <1>1, <1>b, Around1
<1>6. ASSUME NEW r \in Known, BackedUp(r)
      PROVE  BackedUp(r)'
  <2> SUFFICES ASSUME NEW p \in Changes(r), plan[r].before[p] # Absent, Homes(Backup(r, p)) \subseteq dirs'
               PROVE  disk'[Backup(r, p)] = {plan[r].before[p]}
    BY <1>4, <1>5 DEF BackedUp
  <2>1. Homes(Backup(r, p)) \subseteq dirs /\ Homes(Backup(r, p)) \cap cut = {}
    BY <1>a
  <2>2. disk[Backup(r, p)] = {plan[r].before[p]} /\ Backup(r, p) \in File
    BY <1>5, <1>6, <2>1, Roles DEF BackedUp
  <2> QED
    BY <1>2, <1>3, <2>1, <2>2
<1>7. ASSUME NEW r \in Runs
      PROVE  /\ disk'[Journal(r)] = {live'[Journal(r)]} /\ Journal(r) \in File
             /\ IF RunDir(r) \in cut THEN live'[Journal(r)] = Absent ELSE live'[Journal(r)] \in disk[Journal(r)]
  BY <1>2, <1>3, Roles, Homes1
<1>8. JournalLast'
  <2> SUFFICES ASSUME NEW r \in Runs, disk'[Journal(r)] # {Absent}
               PROVE  r \in Known' /\ BackedUp(r)'
    BY DEF JournalLast
  <2>1. disk[Journal(r)] # {Absent}
    BY <1>7
  <2> QED
    BY <1>5, <1>6, <2>1 DEF IInv, JournalLast
<1>c. Homed'
  <2> SUFFICES ASSUME NEW r \in Runs
               PROVE  /\ disk'[Journal(r)] # {Absent} => RunDir(r) \in dirs'
                      /\ \A p \in Paths : disk'[Backup(r, p)] # {Absent} => Homes(Backup(r, p)) \subseteq dirs'
    BY DEF Homed
  <2>1. ASSUME disk'[Journal(r)] # {Absent} PROVE RunDir(r) \in dirs'
    <3>1. disk[Journal(r)] # {Absent} /\ RunDir(r) \notin cut
      BY <1>7, <2>1
    <3> QED
      BY <1>b, <3>1 DEF IInv, Homed
  <2>2. ASSUME NEW p \in Paths, disk'[Backup(r, p)] # {Absent} PROVE Homes(Backup(r, p)) \subseteq dirs'
    <3>1. Backup(r, p) \in File
      BY Roles
    <3>2. Homes(Backup(r, p)) \cap cut = {} /\ disk[Backup(r, p)] # {Absent}
      BY <1>2, <1>3, <2>2, <3>1
    <3>3. Homes(Backup(r, p)) \subseteq dirs
      BY <3>2 DEF IInv, Homed
    <3>4. \A d \in Homes(Backup(r, p)) : Around(d) \subseteq Homes(Backup(r, p))
      BY Homes1, Around1
    <3> QED
      BY <1>1, <3>2, <3>3, <3>4
  <2> QED
    BY <2>1, <2>2
<1>9. InstalledReady'
  <2> SUFFICES ASSUME NEW r \in installed PROVE r \in Known' /\ Ready(r)'
    BY <1>4 DEF InstalledReady
  <2>1. r \in Known /\ r \in Runs /\ Ready(r)
    BY <1>5 DEF IInv, InstalledReady
  <2>2. BackedUp(r)'
    BY <1>6, <2>1 DEF Ready
  <2>3. ASSUME RunDir(r) \in dirs'
        PROVE  /\ Absent \notin disk'[Journal(r)]
               /\ \A p \in Changes(r) : plan[r].before[p] # Absent => BackupDir(r) \in dirs'
    <3>1. RunDir(r) \in dirs /\ RunDir(r) \notin cut
      BY <1>a, <2>3
    <3>2. /\ Absent \notin disk[Journal(r)] /\ BackupDir(r) \notin fresh
          /\ \A p \in Changes(r) : plan[r].before[p] # Absent => BackupDir(r) \in dirs
      BY <2>1, <3>1 DEF Ready
    <3>3. BackupDir(r) \notin cut
      BY <3>2
    <3> QED
      BY <1>7, <1>b, <2>1, <3>1, <3>2, <3>3
  <2> QED
    BY <1>3, <1>4, <1>5, <2>1, <2>2, <2>3 DEF Ready
<1>10. TypeOK'
  <2>1. /\ \A p \in Paths : disk'[Target(p)] \subseteq Contents \cup {Absent}
        /\ \A r \in Runs, p \in Paths : disk'[Backup(r, p)] \subseteq Contents \cup {Absent}
        /\ \A r \in Runs : disk'[Journal(r)] \subseteq Journals
        /\ disk'[Baseline] \subseteq Baselines
    BY <1>2, <1>3, Roles DEF IInv, TypeOK, Journals, Baselines
  <2>2. Len(plan') <= MaxRuns /\ run' \in 0..Len(plan') /\ installed' \subseteq Known'
    BY <1>4, <1>5 DEF IInv, TypeOK
  <2>3. dirs' \subseteq Directory /\ fresh' \subseteq dirs'
    BY <1>1, <1>3 DEF IInv, TypeOK
  <2>4. spoilt' \in 0..Len(plan')
    <3>1. spoilt' \in {Len(plan), spoilt} \cup Known
      BY <1>1 DEF Spoilt
    <3> QED
      BY <1>4, <3>1, KnownRuns DEF IInv, TypeOK, Known
  <2> QED
    BY <1>2, <1>3, <1>4, <2>1, <2>2, <2>3, <2>4 DEF TypeOK
<1>11. OpType' /\ OpOK' /\ Control'
  BY <1>4, Roles DEF OpType, OpOK, NoOp, Values, Control, Working
<1> QED
  BY <1>4, <1>8, <1>c, <1>9, <1>10, <1>11 DEF IInv

\* The invariant is inductive.
LEMMA StepInv == IInv /\ [Next]_vars => IInv'
<1> SUFFICES ASSUME IInv, [Next]_vars PROVE IInv'
  OBVIOUS
<1>1. CASE Next
  BY <1>1, WriteStep, ApplyBeginStep, BackUpStep, FlushStep, QuietStep, NameStep, SyncStep, RemoveStep,
     RollbackBaselineStep, PowerLossStep DEF Next
<1>2. CASE UNCHANGED vars
  <2>1. UNCHANGED <<live, disk, dirs, fresh, plan, pc, run, todo, op, stops, installed, spoilt>>
    BY <1>2 DEF vars
  <2>a. SameRuns /\ dirs' \subseteq Directory /\ fresh' \subseteq dirs'
    BY <2>1 DEF SameRuns, IInv, TypeOK
  <2>2. TypeOK' /\ (plan \in Seq(PlanType))' /\ JournalLast' /\ Homed' /\ InstalledReady'
    BY <2>1, <2>a, FilesKept DEF IInv, TypeOK
  <2>b. run \in Runs => (Ready(run)' <=> Ready(run)) /\ (BackedUp(run)' <=> BackedUp(run)) /\ (Housed(run)' <=> Housed(run))
    BY <2>1, <2>a, Frozen
  <2>c. Known' = Known /\ Changes(run)' = Changes(run)
    BY <2>1 DEF Known, Changes
  <2>3. OpType' /\ OpOK' /\ Control'
    BY <2>1, <2>b, <2>c, RunKnown DEF IInv, OpType, OpOK, Control, Working
  <2> QED
    BY <2>1, <2>2, <2>3 DEF IInv
<1> QED
  BY <1>1, <1>2

\* Hence it holds of every behaviour.
LEMMA Invariance == Spec => []IInv
  BY InitInv, StepInv, PTL DEF Spec

-----------------------------------------------------------------------------
\* Whatever the machine loses, no record and no file of cloudwins is ever found in
\* pieces: every temporary file is flushed before it is named (main.rs, atomic_json
\* and copy_temp).
THEOREM TypeCorrect == Spec => []TypeOK
  BY Invariance, PTL DEF IInv

\* The journal is written ahead: once a run has changed a payload file, its journal
\* and the backups of all its changes survive any loss of power that leaves the
\* directory of the run and, for a nested file, the one its backup is in (main.rs, apply).
THEOREM JournalAhead == Spec => []WriteAhead
<1>1. ASSUME IInv PROVE WriteAhead
  <2> SUFFICES ASSUME NEW r \in installed, RunDir(r) \in dirs
               PROVE  /\ Absent \notin disk[Journal(r)]
                      /\ \A p \in Changes(r) :
                           plan[r].before[p] # Absent /\ (p \in Nested => BackupFolder(r, p) \in dirs) =>
                             disk[Backup(r, p)] = {plan[r].before[p]}
    BY DEF WriteAhead
  <2>1. Ready(r)
    BY <1>1 DEF IInv, InstalledReady
  <2>2. ASSUME NEW p \in Changes(r), plan[r].before[p] # Absent, p \in Nested => BackupFolder(r, p) \in dirs
        PROVE  disk[Backup(r, p)] = {plan[r].before[p]}
    <3>1. Homes(Backup(r, p)) \subseteq dirs
      BY <2>1, <2>2, Homes1 DEF Ready
    <3> QED
      BY <2>1, <2>2, <3>1 DEF Ready, BackedUp
  <2> QED
    BY <2>1, <2>2 DEF Ready
<1> QED
  BY <1>1, Invariance, PTL

-----------------------------------------------------------------------------
(* What the baseline says *)

\* A journal in files d and directories e that a loss of power takes back to before the
\* first change only with the directory of the run.
Begun(d, e, r) == RunDir(r) \in e => \A j \in d[Journal(r)] : j # Absent /\ j.phase # "Prepared"

\* Baselines name runs that have begun, and plans find baselines of earlier runs.
BegunInv ==
  /\ \A b \in disk[Baseline] \ {Absent} : b.run \in Known /\ Begun(disk, dirs, b.run)
  /\ \A r \in Known : plan[r].prev # Absent => plan[r].prev.run \in 1..(r - 1) /\ Begun(disk, dirs, plan[r].prev.run)
  /\ op.at # "none" /\ op.file = Baseline /\ op.value # Absent =>
       op.value.run \in Known /\ Begun(disk, dirs, op.value.run)
  /\ pc = "start" =>
       /\ \E j \in disk[Journal(run)] : j \in {Absent, [phase |-> "Prepared"]}
       /\ op.at # "none" => op.file = Journal(run) /\ op.value = [phase |-> "Prepared"]
  /\ Working /\ pc # "start" =>
       IF op.at # "none" /\ op.file = Journal(run) THEN op.value.phase # "Prepared" ELSE Begun(disk, dirs, run)

\* Records that have been written are no absent files.
LEMMA Records ==
  /\ \A x \in Phases : [phase |-> x] # Absent /\ [phase |-> x].phase = x /\ [phase |-> x] \in [phase : Phases]
  /\ \A r \in Runs : [run |-> r] # Absent /\ [run |-> r].run = r /\ [run |-> r] \in Baselines
  /\ \A j \in Journals : j # Absent => j.phase \in Phases /\ j = [phase |-> j.phase]
  /\ \A b \in Baselines : b # Absent => b.run \in Runs /\ b = [run |-> b.run]
<1>1. \A x \in Phases : [phase |-> x] \in [phase : Phases] /\ [phase |-> x].phase = x
  OBVIOUS
<1>2. \A r \in Runs : [run |-> r] \in [run : Runs] /\ [run |-> r].run = r
  OBVIOUS
<1>3. /\ \A j \in [phase : Phases] : j # Absent /\ j.phase \in Phases /\ j = [phase |-> j.phase]
      /\ \A b \in [run : Runs] : b # Absent /\ b.run \in Runs /\ b = [run |-> b.run]
  BY ValuesAssumption
<1> QED
  BY <1>1, <1>2, <1>3 DEF Journals, Baselines

\* Writing one file keeps the runs begun, unless it is a run's first record.
LEMMA BegunKept ==
  ASSUME IInv, NEW f, NEW v, OneFile(f, v), UNCHANGED dirs,
         \A r \in Runs : f = Journal(r) /\ (\A j \in disk[f] : j # Absent /\ j.phase # "Prepared") =>
           v # Absent /\ v.phase # "Prepared"
  PROVE  \A r \in Runs : Begun(disk, dirs, r) => Begun(disk', dirs', r)
<1> SUFFICES ASSUME NEW r \in Runs, Begun(disk, dirs, r), RunDir(r) \in dirs
             PROVE  \A j \in disk'[Journal(r)] : j # Absent /\ j.phase # "Prepared"
  BY DEF Begun
<1>1. CASE f = Journal(r)
  BY <1>1 DEF Begun, OneFile
<1>2. CASE f # Journal(r)
  BY <1>2, Roles DEF Begun, OneFile
<1> QED
  BY <1>1, <1>2

\* The runs that baselines name.
LEMMA NamedRuns ==
  ASSUME IInv, BegunInv
  PROVE  /\ \A b \in disk[Baseline] : b # Absent => b.run \in Runs /\ b.run \in Known
         /\ \A r \in Known : r \in Runs /\ (plan[r].prev # Absent => plan[r].prev.run \in Runs /\ plan[r].prev.run \in Known)
         /\ Working => run \in Known
         /\ op.file = Baseline /\ op.at # "none" /\ op.value # Absent => op.value.run \in Runs /\ op.value.run \in Known
<1>1. Known \subseteq Runs /\ Len(plan) \in Nat
  BY KnownRuns DEF IInv
<1>2. ASSUME NEW r \in Known, plan[r].prev # Absent PROVE plan[r].prev.run \in Known
  <2>1. plan[r].prev.run \in 1..(r - 1)
    BY <1>2 DEF BegunInv
  <2> QED
    BY <1>1, <2>1 DEF Known
<1>3. Working => run \in Known
  BY DEF IInv, Control
<1> QED
  BY <1>1, <1>2, <1>3 DEF BegunInv

\* Writing a file of a run that has its directory makes no directory of a run.
LEMMA PutRunDirs ==
  ASSUME NEW f \in File, NEW v, Put(f, v),
         \A r \in Runs : f = Journal(r) \/ (\E p \in Paths : f = Backup(r, p)) => RunDir(r) \in dirs
  PROVE  \A r \in Runs : RunDir(r) \in dirs' <=> RunDir(r) \in dirs
<1>1. dirs' = dirs \cup Homes(f)
  BY DEF Put, Make
<1>2. ASSUME NEW r \in Runs, RunDir(r) \in Homes(f)
      PROVE  f = Journal(r) \/ \E p \in Paths : f = Backup(r, p)
  <2>1. ASSUME NEW p \in Paths, f = Target(p) PROVE FALSE
    BY <1>2, <2>1, Homes1, Places
  <2>2. ASSUME NEW s \in Runs, NEW p \in Paths, f = Backup(s, p) PROVE s = r
    BY <1>2, <2>2, Homes1, Places
  <2>3. ASSUME NEW s \in Runs, f = Journal(s) PROVE s = r
    BY <1>2, <2>3, Homes1, Places
  <2>4. f # Baseline
    BY <1>2, Homes1
  <2> QED
    BY <2>1, <2>2, <2>3, <2>4 DEF File
<1> QED
  BY <1>1, <1>2

\* Commands write files of runs that have their directories.
LEMMA RunDirsKept ==
  ASSUME IInv,
         \/ ApplyPrepare \/ ApplyStart \/ ApplyRecord \/ ApplyBaseline \/ ApplyFinish \/ RollbackFinish
         \/ \E p \in Paths : BackUp(p) \/ Install(p) \/ Restore(p)
         \/ \E r \in Known : RollbackBegin(r)
         \/ RollbackBaseline
         \/ Flush \/ Stop \/ Report \/ \E p \in Paths : RestoreSkip(p)
  PROVE  \A r \in Known : RunDir(r) \in dirs' <=> RunDir(r) \in dirs
<1>0. Known \subseteq Runs
  BY KnownRuns DEF IInv
<1>1. pc # "idle" => run \in Runs /\ RunDir(run) \in dirs
  BY <1>0 DEF IInv, Control, Working, Housed
<1>2. ASSUME NEW r \in Runs, NEW v, Put(Journal(r), v), RunDir(r) \in dirs
      PROVE  \A s \in Known : RunDir(s) \in dirs' <=> RunDir(s) \in dirs
  <2>1. \A s \in Runs : Journal(r) = Journal(s) \/ (\E p \in Paths : Journal(r) = Backup(s, p)) => RunDir(s) \in dirs
    BY <1>2, Roles
  <2> QED
    BY <1>0, <1>2, <2>1, Roles, PutRunDirs
<1>3. ASSUME NEW f, NEW v, Put(f, v), f = Baseline \/ \E p \in Paths : f = Target(p)
      PROVE  \A s \in Known : RunDir(s) \in dirs' <=> RunDir(s) \in dirs
  <2>1. f \in File /\ \A s \in Runs : ~(f = Journal(s) \/ (\E p \in Paths : f = Backup(s, p)))
    BY <1>3, Roles
  <2> QED
    BY <1>0, <1>3, <2>1, PutRunDirs
<1>4. CASE ApplyPrepare \/ ApplyStart \/ ApplyRecord \/ ApplyFinish \/ RollbackFinish
  <2>1. pc # "idle" /\ \E x : SetPhase(x)
    BY <1>4 DEF ApplyPrepare, ApplyStart, ApplyRecord, ApplyFinish, RollbackFinish
  <2> QED
    BY <1>1, <1>2, <2>1 DEF SetPhase
<1>5. CASE ApplyBaseline
  BY <1>3, <1>5 DEF ApplyBaseline
<1>6. CASE RollbackBaseline
  <2>1. Put(Baseline, plan[run].prev) \/ dirs' = dirs
    BY <1>6 DEF RollbackBaseline, Unlink
  <2> QED
    BY <1>3, <2>1
<1>7. ASSUME NEW p \in Paths, Install(p) \/ Restore(p)
      PROVE  \A s \in Known : RunDir(s) \in dirs' <=> RunDir(s) \in dirs
  BY <1>3, <1>7 DEF Install, Restore
<1>8. ASSUME NEW p \in Paths, BackUp(p)
      PROVE  \A s \in Known : RunDir(s) \in dirs' <=> RunDir(s) \in dirs
  <2>1. Put(Backup(run, p), live[Target(p)]) \/ dirs' = dirs
    BY <1>8 DEF BackUp
  <2>2. run \in Runs /\ RunDir(run) \in dirs
    BY <1>1, <1>8 DEF BackUp
  <2>3. \A s \in Runs : Backup(run, p) = Journal(s) \/ (\E q \in Paths : Backup(run, p) = Backup(s, q)) => RunDir(s) \in dirs
    BY <2>2, Roles
  <2> QED
    BY <1>0, <2>1, <2>2, <2>3, Roles, PutRunDirs
<1>9. ASSUME NEW r \in Known, RollbackBegin(r)
      PROVE  \A s \in Known : RunDir(s) \in dirs' <=> RunDir(s) \in dirs
  <2>1. r \in Runs /\ live[Journal(r)] # Absent /\ Put(Journal(r), [phase |-> "RollingBack"])
    BY <1>0, <1>9 DEF RollbackBegin, HasJournal
  <2>2. RunDir(r) \in dirs
    BY <2>1, Roles DEF IInv, Homed, TypeOK
  <2> QED
    BY <1>2, <2>1, <2>2
<1>10. CASE Flush \/ Stop \/ Report \/ \E p \in Paths : RestoreSkip(p)
  BY <1>10 DEF Flush, Stop, Report, RestoreSkip
<1> QED
  BY <1>4, <1>5, <1>6, <1>7, <1>8, <1>9, <1>10

\* The steps that start to write a file, or none.
LEMMA BegunPut ==
  ASSUME IInv, BegunInv,
         \/ ApplyPrepare \/ ApplyStart \/ ApplyRecord \/ ApplyBaseline \/ ApplyFinish \/ RollbackFinish
         \/ \E p \in Paths : BackUp(p) \/ Install(p) \/ Restore(p)
         \/ \E r \in Known : RollbackBegin(r)
         \/ RollbackBaseline /\ plan[run].prev # Absent
         \/ Flush \/ Stop \/ Report \/ \E p \in Paths : RestoreSkip(p)
  PROVE  BegunInv'
<1>1. /\ UNCHANGED <<disk, plan>> /\ Known' = Known
      /\ \A r \in Known : Begun(disk', dirs', r) <=> Begun(disk, dirs, r)
  <2>1. UNCHANGED <<disk, plan>>
    BY DEF ApplyPrepare, ApplyStart, ApplyRecord, ApplyBaseline, ApplyFinish, RollbackFinish, BackUp, Install,
           Restore, RollbackBegin, RollbackBaseline, Flush, Stop, Report, RestoreSkip, SetPhase, Put
  <2>2. \A r \in Known : RunDir(r) \in dirs' <=> RunDir(r) \in dirs
    BY RunDirsKept
  <2> QED
    BY <2>1, <2>2 DEF Begun, Known
<1>2. /\ \A b \in disk'[Baseline] \ {Absent} : b.run \in Known' /\ Begun(disk', dirs', b.run)
      /\ \A r \in Known' : plan'[r].prev # Absent =>
           plan'[r].prev.run \in 1..(r - 1) /\ Begun(disk', dirs', plan'[r].prev.run)
  BY <1>1, NamedRuns DEF BegunInv
<1> DEFINE A == op'.at # "none" /\ op'.file = Baseline /\ op'.value # Absent =>
                  op'.value.run \in Known /\ Begun(disk, dirs, op'.value.run)
           B == pc' = "start" => /\ \E j \in disk[Journal(run')] : j \in {Absent, [phase |-> "Prepared"]}
                                 /\ op'.at # "none" => op'.file = Journal(run') /\ op'.value = [phase |-> "Prepared"]
           C == pc' \notin {"idle", "stage", "start"} =>
                  IF op'.at # "none" /\ op'.file = Journal(run') THEN op'.value.phase # "Prepared"
                  ELSE run' \in Known /\ Begun(disk, dirs, run')
<1>3. ASSUME NEW x \in Phases, SetPhase(x), run' = run, run \in Runs,
             pc' = "start" => x = "Prepared" /\ Absent \in disk[Journal(run)],
             pc' # "start" => x # "Prepared"
      PROVE  A /\ B /\ C
  <2>1. op'.at = "written" /\ op'.file = Journal(run) /\ op'.value = [phase |-> x] /\ op'.value.phase = x
    BY <1>3, Records DEF SetPhase, Put
  <2>2. op'.file # Baseline
    BY <1>3, <2>1, Roles
  <2> QED
    BY <1>3, <2>1, <2>2
<1>4. op.at = "none" /\ pc \notin {"idle", "stage", "start"} => run \in Known /\ Begun(disk, dirs, run)
  BY NamedRuns DEF BegunInv, Working
<1>w. Working => run \in Known /\ run \in Runs
  BY NamedRuns
<1>5. ASSUME NEW p \in Paths, NEW v, Put(Target(p), v), run' = run, pc \notin {"idle", "stage", "start"}, pc' # "start"
      PROVE  A /\ B /\ C
  <2>1. op.at = "none" /\ op'.file = Target(p)
    BY <1>5 DEF Put
  <2>2. op'.file # Baseline /\ op'.file # Journal(run)
    BY <1>w, <1>5, <2>1, Roles DEF Working
  <2> QED
    BY <1>4, <1>5, <2>1, <2>2 DEF Working
<1>6. ASSUME NEW v, Put(Baseline, v), run' = run, run \in Runs, pc \notin {"idle", "stage", "start"}, pc' # "start",
             v # Absent => v.run \in Known /\ Begun(disk, dirs, v.run)
      PROVE  A /\ B /\ C
  <2>1. op.at = "none" /\ op'.file = Baseline /\ op'.value = v
    BY <1>6 DEF Put
  <2>2. op'.file # Journal(run)
    BY <1>6, <2>1, Roles
  <2> QED
    BY <1>4, <1>6, <2>1, <2>2 DEF Working
<1>7. ASSUME pc' = "idle", op' = NoOp PROVE A /\ B /\ C
  BY <1>7 DEF NoOp
<1>8. pc = "stage" => run \in Known /\ disk[Journal(run)] = {Absent}
  BY DEF IInv, Control
<1>9. A /\ B /\ C
  <2>1. CASE ApplyPrepare
    BY <1>3, <1>8, <2>1, NamedRuns DEF ApplyPrepare, Phases
  <2>2. CASE ApplyStart \/ ApplyRecord \/ ApplyFinish \/ RollbackFinish
    BY <1>3, <1>w, <2>2 DEF ApplyStart, ApplyRecord, ApplyFinish, RollbackFinish, Phases, Working
  <2>3. CASE ApplyBaseline
    <3>1. op.at = "none" /\ pc = "install" /\ Put(Baseline, [run |-> run]) /\ run' = run /\ pc' = "finish"
      BY <2>3 DEF ApplyBaseline, Put
    <3>2. run \in Known /\ Begun(disk, dirs, run) /\ [run |-> run].run = run /\ run \in Runs
      BY <1>4, <1>w, <3>1 DEF Working
    <3> QED
      BY <1>6, <3>1, <3>2
  <2>4. CASE RollbackBaseline /\ plan[run].prev # Absent
    <3>1. pc = "restore" /\ Put(Baseline, plan[run].prev) /\ run' = run /\ pc' = "rolled"
      BY <2>4 DEF RollbackBaseline
    <3>2. run \in Known /\ run \in Runs /\ plan[run].prev.run \in Known /\ Begun(disk, dirs, plan[run].prev.run)
      BY <1>w, <2>4, <3>1, NamedRuns DEF BegunInv, Working
    <3> QED
      BY <1>6, <3>1, <3>2
  <2>5. ASSUME NEW p \in Paths, BackUp(p) PROVE A /\ B /\ C
    <3>1. pc = "stage" /\ pc' = pc /\ run' = run /\ run \in Runs
      BY <1>8, <2>5, NamedRuns DEF BackUp
    <3>2. op'.file # Baseline \/ op'.at = "none"
      BY <2>5, <3>1, Roles DEF BackUp, Put
    <3> QED
      BY <3>1, <3>2
  <2>6. ASSUME NEW p \in Paths, Install(p) \/ Restore(p) PROVE A /\ B /\ C
    BY <1>5, <2>6 DEF Install, Restore
  <2>7. ASSUME NEW r \in Known, RollbackBegin(r) PROVE A /\ B /\ C
    <3>1. Put(Journal(r), [phase |-> "RollingBack"]) /\ run' = r /\ pc' = "restore"
      BY <2>7 DEF RollbackBegin
    <3>2. op'.at = "written" /\ op'.file = Journal(r) /\ op'.value.phase = "RollingBack" /\ r \in Runs
      BY <3>1, NamedRuns DEF Put
    <3>3. op'.file # Baseline
      BY <3>2, Roles
    <3> QED
      BY <3>1, <3>2, <3>3
  <2>8. CASE Flush
    <3>1. op.at = "written" /\ op'.at = "flushed" /\ op'.file = op.file /\ op'.value = op.value /\ UNCHANGED <<pc, run>>
      BY <2>8 DEF Flush, IInv, OpType
    <3> QED
      BY <1>w, <3>1 DEF BegunInv, Working
  <2>9. CASE Stop
    BY <1>7, <2>9 DEF Stop, Halt
  <2>10. CASE Report \/ \E p \in Paths : RestoreSkip(p)
    <3>1. UNCHANGED <<run, op>> /\ op.at = "none" /\ (pc' = "idle" \/ (pc' = pc /\ pc = "restore"))
      BY <2>10 DEF Report, RestoreSkip
    <3> QED
      BY <1>4, <3>1 DEF Working
  <2> QED
    BY <2>1, <2>2, <2>3, <2>4, <2>5, <2>6, <2>7, <2>8, <2>9, <2>10
<1>10. /\ (op'.at # "none" /\ op'.file = Baseline /\ op'.value # Absent) =>
            op'.value.run \in Known' /\ Begun(disk', dirs', op'.value.run)
       /\ pc' = "start" => \E j \in disk'[Journal(run')] : j \in {Absent, [phase |-> "Prepared"]}
       /\ Working' /\ pc' # "start" =>
            IF op'.at # "none" /\ op'.file = Journal(run') THEN op'.value.phase # "Prepared" ELSE Begun(disk', dirs', run')
  BY <1>1, <1>9 DEF Working
<1> QED
  BY <1>2, <1>9, <1>10 DEF BegunInv

\* The other steps of a file: a name, its flush, a removal, a loss of power; a new run.
LEMMA BegunStep ==
  ASSUME IInv, BegunInv, [Next]_vars
  PROVE  BegunInv'
<1>1. ASSUME NEW f, NEW v, OneFile(f, v), UNCHANGED <<dirs, plan, pc, run>>,
             op.at # "none", f = op.file, v = op.value,
             \/ op'.at = "none" /\ disk'[f] = {v}
             \/ op' = [op EXCEPT !.at = "named"] /\ disk'[f] = disk[f] \cup {v}
      PROVE  BegunInv'
  <2>0. Known' = Known
    BY <1>1 DEF Known
  <2>1. \A r \in Runs : f = Journal(r) /\ (\A j \in disk[f] : j # Absent /\ j.phase # "Prepared") =>
          v # Absent /\ v.phase # "Prepared"
    <3> SUFFICES ASSUME NEW r \in Runs, f = Journal(r), \A j \in disk[f] : j # Absent /\ j.phase # "Prepared"
                 PROVE  v # Absent /\ v.phase # "Prepared"
      OBVIOUS
    <3>1. Working /\ run \in Runs /\ f = Journal(run) /\ v \in [phase : Phases]
      <4>1. pc # "idle" /\ run \in Runs
        BY <1>1, NamedRuns DEF IInv, Control, Working
      <4>2. /\ \A p \in Paths : f # Target(p) /\ f # Backup(run, p)
            /\ f # Baseline
        BY <4>1, Roles
      <4> QED
        BY <1>1, <4>1, <4>2 DEF IInv, OpOK
    <3>2. r = run
      BY <3>1, Roles
    <3>3. pc # "start"
      BY <3>2 DEF BegunInv
    <3> QED
      BY <1>1, <3>1, <3>3, ValuesAssumption DEF BegunInv
  <2>2. \A r \in Runs : Begun(disk, dirs, r) => Begun(disk', dirs', r)
    BY <1>1, <2>1, BegunKept
  <2>3. ASSUME NEW b \in disk'[Baseline] \ {Absent} PROVE b.run \in Known' /\ Begun(disk', dirs', b.run)
    <3>1. CASE b \in disk[Baseline]
      BY <2>0, <2>2, <2>3, <3>1, NamedRuns DEF BegunInv
    <3>2. CASE b \notin disk[Baseline]
      <4>1. f = Baseline /\ b = v
        BY <1>1, <2>3, <3>2, Roles DEF OneFile
      <4> QED
        BY <1>1, <2>0, <2>2, <2>3, <4>1, NamedRuns DEF BegunInv
    <3> QED
      BY <3>1, <3>2
  <2>4. \A r \in Known' : plan'[r].prev # Absent =>
          plan'[r].prev.run \in 1..(r - 1) /\ Begun(disk', dirs', plan'[r].prev.run)
    BY <1>1, <2>0, <2>2, NamedRuns DEF BegunInv
  <2>5. op'.at # "none" => op'.file = f /\ op'.value = v
    BY <1>1 DEF IInv, OpType
  <2>6. op'.at # "none" /\ op'.file = Baseline /\ op'.value # Absent =>
          op'.value.run \in Known' /\ Begun(disk', dirs', op'.value.run)
    BY <1>1, <2>0, <2>2, <2>5, NamedRuns DEF BegunInv
  <2>7. pc' = "start" =>
          /\ \E j \in disk'[Journal(run')] : j \in {Absent, [phase |-> "Prepared"]}
          /\ op'.at # "none" => op'.file = Journal(run') /\ op'.value = [phase |-> "Prepared"]
    <3> SUFFICES ASSUME pc = "start"
                 PROVE  \E j \in disk'[Journal(run)] : j \in {Absent, [phase |-> "Prepared"]}
      BY <1>1, <2>5 DEF BegunInv
    <3>1. f = Journal(run) /\ v = [phase |-> "Prepared"]
      BY <1>1 DEF BegunInv
    <3> QED
      BY <1>1, <3>1
  <2>8. Working' /\ pc' # "start" =>
          IF op'.at # "none" /\ op'.file = Journal(run') THEN op'.value.phase # "Prepared" ELSE Begun(disk', dirs', run')
    <3> SUFFICES ASSUME Working, pc # "start"
                 PROVE  IF op'.at # "none" /\ op'.file = Journal(run) THEN op'.value.phase # "Prepared"
                        ELSE Begun(disk', dirs', run)
      BY <1>1 DEF Working
    <3>1. run \in Runs
      BY NamedRuns
    <3>2. CASE f = Journal(run)
      <4>1. v.phase # "Prepared" /\ v # Absent
        <5>1. \/ v \in [phase : Phases]
              \/ \E p \in Paths : op.file = Target(p)
              \/ \E p \in Paths : op.file = Backup(run, p)
              \/ op.file = Baseline
          BY <1>1 DEF IInv, OpOK
        <5>2. v \in [phase : Phases]
          BY <1>1, <3>1, <3>2, <5>1, Roles
        <5> QED
          BY <1>1, <3>2, <5>2, ValuesAssumption DEF BegunInv
      <4>2. CASE op'.at = "none"
        <5>1. disk'[f] = {v}
          BY <1>1, <4>2 DEF IInv, OpType
        <5> QED
          BY <3>2, <4>1, <4>2, <5>1 DEF Begun
      <4>3. CASE op'.at # "none"
        BY <2>5, <3>2, <4>1, <4>3
      <4> QED
        BY <4>2, <4>3
    <3>3. CASE f # Journal(run)
      <4>1. Begun(disk', dirs', run)
        BY <1>1, <2>2, <3>1, <3>3 DEF BegunInv
      <4> QED
        BY <2>5, <3>3, <4>1
    <3> QED
      BY <3>2, <3>3
  <2> QED
    BY <2>3, <2>4, <2>6, <2>7, <2>8 DEF BegunInv
<1>2. CASE Name
  <2>1. /\ op.at = "flushed" /\ ~op.torn /\ op' = [op EXCEPT !.at = "named"] /\ UNCHANGED <<dirs, plan, pc, run>>
        /\ disk' = [disk EXCEPT ![op.file] = disk[op.file] \cup {op.value}] /\ op.file \in File
        /\ live' = [live EXCEPT ![op.file] = op.value]
    <3>1. op.at = "flushed" /\ ~op.torn /\ op.file \in File
      BY <1>2 DEF Name, IInv, OpOK, OpType
    <3>2. disk' = [disk EXCEPT ![op.file] = disk[op.file] \cup {op.value} \cup (IF op.torn THEN {Torn} ELSE {})]
      BY <1>2 DEF Name
    <3>3. disk[op.file] \cup {op.value} \cup (IF op.torn THEN {Torn} ELSE {}) = disk[op.file] \cup {op.value}
      BY <3>1
    <3> QED
      BY <1>2, <3>1, <3>2, <3>3 DEF Name
  <2>2. OneFile(op.file, op.value) /\ disk'[op.file] = disk[op.file] \cup {op.value}
    BY <2>1 DEF OneFile, IInv, TypeOK
  <2> QED
    BY <1>1, <2>1, <2>2
<1>3. CASE SyncParent
  <2>1. /\ op.at = "named" /\ op'.at = "none" /\ UNCHANGED <<dirs, plan, pc, run, live>> /\ op.file \in File
        /\ disk' = [disk EXCEPT ![op.file] = {op.value}] /\ live[op.file] = op.value
    BY <1>3 DEF SyncParent, NoOp, IInv, OpOK, OpType
  <2>2. OneFile(op.file, op.value) /\ disk'[op.file] = {op.value}
    BY <2>1 DEF OneFile, IInv, TypeOK
  <2> QED
    BY <1>1, <2>1, <2>2
<1>4. ASSUME NEW f \in {Target(p) : p \in Paths} \cup {Baseline}, Unlink(f), pc' \in {"restore", "rolled"},
             pc = "restore", UNCHANGED <<plan, run>>
      PROVE  BegunInv'
  <2>1. /\ op.at = "none" /\ disk' = [disk EXCEPT ![f] = disk[f] \cup {Absent}]
        /\ live' = [live EXCEPT ![f] = Absent]
        /\ op' = [NoOp EXCEPT !.at = "named", !.file = f] /\ f \in File /\ dirs' = dirs
    BY <1>4, Roles DEF Unlink
  <2>2. op'.file = f /\ op'.value = Absent /\ op'.at = "named"
    BY <2>1 DEF NoOp
  <2>3. OneFile(f, Absent) /\ \A r \in Runs : f # Journal(r)
    BY <2>1, Roles DEF OneFile, IInv, TypeOK
  <2>4. \A r \in Runs : Begun(disk, dirs, r) => Begun(disk', dirs', r)
    BY <2>1, <2>3, BegunKept
  <2>0. Known' = Known
    BY <1>4 DEF Known
  <2>5. \A b \in disk'[Baseline] \ {Absent} : b.run \in Known' /\ Begun(disk', dirs', b.run)
    BY <2>0, <2>3, <2>4, NamedRuns, Roles DEF BegunInv, OneFile
  <2>6. \A r \in Known' : plan'[r].prev # Absent =>
          plan'[r].prev.run \in 1..(r - 1) /\ Begun(disk', dirs', plan'[r].prev.run)
    BY <1>4, <2>0, <2>4, NamedRuns DEF BegunInv
  <2>7. run \in Runs /\ Begun(disk', dirs', run)
    BY <1>4, <2>1, <2>4, NamedRuns DEF BegunInv, Working
  <2> QED
    BY <1>4, <2>2, <2>3, <2>5, <2>6, <2>7 DEF BegunInv
<1>5. CASE RollbackBaseline
  <2>1. pc = "restore" /\ pc' = "rolled" /\ UNCHANGED <<plan, run>>
    BY <1>5 DEF RollbackBaseline
  <2>2. CASE plan[run].prev # Absent
    BY <1>5, <2>2, BegunPut
  <2>3. CASE Unlink(Baseline)
    BY <1>4, <2>1, <2>3
  <2>4. CASE op.at = "none" /\ UNCHANGED <<live, disk, dirs, fresh, op, stops, installed, loose, spoilt>>
    BY <2>1, <2>4 DEF BegunInv, Working, Known
  <2> QED
    BY <1>5, <2>2, <2>3, <2>4 DEF RollbackBaseline
<1>6. ASSUME NEW p \in Paths, RestoreRemove(p) PROVE BegunInv'
  BY <1>4, <1>6 DEF RestoreRemove
<1>7. CASE PowerLoss
  <2>1. PICK cut \in SUBSET fresh, kept \in [Unsettled -> UNION {disk[f] : f \in Unsettled}] :
          /\ \A f \in Unsettled : kept[f] \in disk[f]
          /\ live' = [f \in File |-> IF Homes(f) \cap cut # {} THEN Absent
                                     ELSE IF f \in Unsettled THEN kept[f] ELSE live[f]]
          /\ dirs' = {d \in dirs : Around(d) \cap cut = {}}
    BY <1>7 DEF PowerLoss
  <2>2. \A f \in File : disk'[f] = {live'[f]} /\ (Homes(f) \cap cut = {} => live'[f] \in disk[f])
    BY <1>7, <2>1 DEF PowerLoss, IInv, TypeOK
  <2>3. op' = NoOp /\ pc' = "idle" /\ UNCHANGED <<plan, run>> /\ Known' = Known
    BY <1>7 DEF PowerLoss, Halt, Known
  <2>4. ASSUME NEW r \in Runs, Begun(disk, dirs, r) PROVE Begun(disk', dirs', r)
    <3> SUFFICES ASSUME RunDir(r) \in dirs' PROVE \A j \in disk'[Journal(r)] : j # Absent /\ j.phase # "Prepared"
      BY DEF Begun
    <3>1. RunDir(r) \in dirs /\ RunDir(r) \notin cut
      BY <2>1, Around1
    <3>2. Journal(r) \in File /\ Homes(Journal(r)) \cap cut = {}
      BY <3>1, Roles, Homes1
    <3> QED
      BY <2>2, <2>4, <3>1, <3>2 DEF Begun
  <2>5. ASSUME NEW b \in disk'[Baseline] \ {Absent} PROVE b.run \in Known' /\ Begun(disk', dirs', b.run)
    <3>1. b \in disk[Baseline]
      BY <2>2, <2>5, Homes1, Roles
    <3> QED
      BY <2>3, <2>4, <2>5, <3>1, NamedRuns DEF BegunInv
  <2>6. \A r \in Known' : plan'[r].prev # Absent =>
          plan'[r].prev.run \in 1..(r - 1) /\ Begun(disk', dirs', plan'[r].prev.run)
    BY <2>3, <2>4, NamedRuns DEF BegunInv
  <2> QED
    BY <2>3, <2>5, <2>6 DEF BegunInv, NoOp, Working
<1>8. ASSUME NEW after \in [Paths -> Contents \cup {Absent}], ApplyBegin(after) PROVE BegunInv'
  <2> DEFINE new == [before |-> [p \in Paths |-> live[Target(p)]], after |-> after, prev |-> live[Baseline]]
             k == Len(plan) + 1
  <2>1. /\ pc = "idle" /\ op.at = "none" /\ plan' = Append(plan, new) /\ pc' = "stage"
        /\ UNCHANGED <<live, disk, op>> /\ dirs' = dirs \cup {RunDir(k)}
    BY <1>8 DEF ApplyBegin, Make, IInv, Control
  <2>2. new.prev = live[Baseline]
    OBVIOUS
  <2>3. Len(plan) \in Nat
    BY KnownRuns DEF IInv
  <2> HIDE DEF new
  <2>4. Len(plan') = k /\ plan'[k] = new /\ \A r \in Known : plan'[r] = plan[r]
    BY <2>1, <2>3, AppendProperties DEF Known, IInv
  <2>5. Known' = Known \cup {k} /\ k \notin Known /\ Known = 1..(k - 1)
    BY <2>3, <2>4 DEF Known
  <2>6. live[Baseline] \in disk[Baseline]
    BY Roles DEF IInv, TypeOK
  <2>7. ASSUME NEW r \in Known, Begun(disk, dirs, r) PROVE Begun(disk', dirs', r)
    BY <2>1, <2>5, <2>7, Places DEF Begun
  <2>8. ASSUME NEW r \in Known', plan'[r].prev # Absent
        PROVE  plan'[r].prev.run \in 1..(r - 1) /\ Begun(disk', dirs', plan'[r].prev.run)
    <3>1. CASE r \in Known
      BY <2>4, <2>7, <2>8, <3>1, NamedRuns DEF BegunInv
    <3>2. CASE r = k
      BY <2>2, <2>4, <2>5, <2>6, <2>7, <2>8, <3>2, NamedRuns DEF BegunInv
    <3> QED
      BY <2>5, <3>1, <3>2
  <2>9. \A b \in disk'[Baseline] \ {Absent} : b.run \in Known' /\ Begun(disk', dirs', b.run)
    BY <2>1, <2>5, <2>7 DEF BegunInv
  <2> QED
    BY <2>1, <2>8, <2>9 DEF BegunInv, Working
<1>9. CASE UNCHANGED vars
  <2>1. UNCHANGED <<disk, dirs, plan, pc, run, op>>
    BY <1>9 DEF vars
  <2>2. Known' = Known
    BY <2>1 DEF Known
  <2> QED
    BY <2>1, <2>2 DEF BegunInv, Working
<1> QED
  BY <1>2, <1>3, <1>5, <1>6, <1>7, <1>8, <1>9, BegunPut DEF Next

-----------------------------------------------------------------------------
(* The stack of runs above k, in files l and plans pl *)

Says(l, r, phase) == l[Journal(r)] = [phase |-> phase]
Alive(l, k, r) == r > k /\ l[Journal(r)] # Absent /\ ~Says(l, r, "RolledBack")
Top(l, k, pl, r) == r \in 1..Len(pl) /\ Alive(l, k, r) /\ \A s \in 1..Len(pl) : s > r => ~Alive(l, k, s)

\* No baseline, or one of a run that is not looked at.
Low(k, b) == b = Absent \/ b.run <= k

\* b names the run below r, or none that is looked at when there is none.
Under(l, k, r, b) ==
  IF Low(k, b) THEN \A s \in 1..(r - 1) : ~Alive(l, k, s)
  ELSE b.run \in 1..(r - 1) /\ Alive(l, k, b.run) /\ \A s \in 1..(r - 1) : s > b.run => ~Alive(l, k, s)

\* What baseline and workspace may hold while r is the top run.
Tops(l, pl, r) ==
  /\ l[Baseline] \in {[run |-> r], pl[r].prev}
  /\ \A p \in Paths : l[Target(p)] \in {pl[r].before[p], pl[r].after[p]}
  /\ Says(l, r, "Applied") =>
       l[Baseline] = [run |-> r] /\ \A p \in Paths : l[Target(p)] = pl[r].after[p]

Sound(l, k, pl) ==
  /\ \A r \in 1..Len(pl) : Alive(l, k, r) =>
       /\ Under(l, k, r, pl[r].prev)
       /\ ~Low(k, pl[r].prev) => pl[r].before = pl[pl[r].prev.run].after
       /\ IF Top(l, k, pl, r) THEN Tops(l, pl, r) ELSE Says(l, r, "Applied")
  /\ \/ \E r \in 1..Len(pl) : Top(l, k, pl, r)
     \/ Low(k, l[Baseline]) /\ \A r \in 1..Len(pl) : ~Alive(l, k, r)

\* No baseline, there or to be restored, names a run that is rolled back.
Open(l, pl) ==
  /\ l[Baseline] # Absent => l[Baseline].run \in 1..Len(pl) /\ ~Says(l, l[Baseline].run, "RolledBack")
  /\ \A r \in 1..Len(pl) : Alive(l, 0, r) /\ pl[r].prev # Absent => ~Says(l, pl[r].prev.run, "RolledBack")

\* What the last command, on run r, leaves until the next one: r is the top run,
\* or it is rolled back and what it found is there again.
Latest(l, k, pl, r) ==
  /\ \A s \in 1..Len(pl) : s > r => ~Alive(l, 0, s)
  /\ r > k /\ Says(l, r, "RolledBack") =>
       l[Baseline] = pl[r].prev /\ \A p \in Paths : l[Target(p)] = pl[r].before[p]

Good(l, k, pl, r) == Sound(l, k, pl) /\ Open(l, pl) /\ (r # 0 => Latest(l, k, pl, r))

\* Without a loose name only the file being written may be two ways.
DiskInv ==
  ~loose =>
    /\ \A f \in File : disk[f] = {live[f]} \/ (op.at = "named" /\ op.file = f)
    /\ Good(live, spoilt, plan, run)
    /\ op.at # "none" =>
         \A v \in disk[op.file] \cup {op.value} : Good([live EXCEPT ![op.file] = v], spoilt, plan, run)

\* What a command knows of the files at each point.
Writing(f) == op.at # "none" /\ op.file = f
Sure(phase) == IF Writing(Journal(run)) THEN op.value = [phase |-> phase] ELSE Says(live, run, phase)

PcInv ==
  ~loose =>
    /\ pc = "stage" =>
         /\ run = Len(plan) /\ live[Baseline] = plan[run].prev
         /\ \A p \in Paths : live[Target(p)] = plan[run].before[p]
         /\ \A r \in Known : Alive(live, 0, r) => Says(live, r, "Applied")
    /\ pc = "start" => Sure("Prepared")
    /\ pc = "install" => Sure("Applying") /\ (op.at = "none" \/ Writing(Journal(run)))
    /\ pc = "record" => Says(live, run, "Applying") /\ ~Writing(Journal(run))
    /\ pc = "finish" =>
         /\ Says(live, run, "Applying")
         /\ \A p \in Paths : live[Target(p)] = plan[run].after[p]
         /\ IF Writing(Baseline) THEN op.value = [run |-> run]
            ELSE op.at = "none" /\ live[Baseline] = [run |-> run]
    /\ pc = "restore" =>
         /\ todo \subseteq Changes(run)
         /\ Sure("RollingBack")
         /\ \A p \in Paths \ todo : IF Writing(Target(p)) THEN op.value = plan[run].before[p]
                                    ELSE live[Target(p)] = plan[run].before[p] \/ p \notin Changes(run)
    /\ pc = "rolled" =>
         /\ Says(live, run, "RollingBack")
         /\ run > spoilt => \A p \in Paths : live[Target(p)] = plan[run].before[p]
         /\ IF Writing(Baseline) THEN op.value = plan[run].prev
            ELSE op.at = "none" /\ live[Baseline] = plan[run].prev

-----------------------------------------------------------------------------
(* How one file changes the stack *)

\* Plans have their types, their runs are runs, and they find baselines of earlier runs.
PlansOK(pl) ==
  /\ Len(pl) \in Nat
  /\ \A r \in 1..Len(pl) :
       pl[r] \in PlanType /\ r \in Runs /\ (pl[r].prev # Absent => pl[r].prev.run \in 1..(r - 1))

\* l and m agree on what Good is about, but for journal r.
AgreeBut(l, m, pl, r) ==
  /\ \A s \in 1..Len(pl) : s # r => m[Journal(s)] = l[Journal(s)]
  /\ \A p \in Paths : m[Target(p)] = l[Target(p)]
  /\ m[Baseline] = l[Baseline]

\* Different phases are different records.
LEMMA Marks ==
  /\ \A x, y \in Phases : [phase |-> x] = [phase |-> y] => x = y
  /\ \A l, r : Says(l, r, "Applied") => ~Says(l, r, "RolledBack")
  /\ \A l, k, r : \A x \in Phases \ {"RolledBack"} : Says(l, r, x) /\ r > k => Alive(l, k, r)
  /\ \A l, r : \A x \in Phases \ {"RolledBack"} : Says(l, r, x) => ~Says(l, r, "RolledBack")
  /\ \A l, k, r : Says(l, r, "RolledBack") => ~Alive(l, k, r)
<1>1. \A x, y \in Phases : [phase |-> x] = [phase |-> y] => x = y
  BY Records
<1>2. "Applied" \in Phases /\ "RolledBack" \in Phases
  BY DEF Phases
<1> QED
  BY <1>1, <1>2, Records DEF Says, Alive

\* What a file is as it was says as it did.
LEMMA SameSays ==
  ASSUME NEW l, NEW m, NEW r, m[Journal(r)] = l[Journal(r)]
  PROVE  (\A k : Alive(m, k, r) <=> Alive(l, k, r)) /\ \A x : Says(m, r, x) <=> Says(l, r, x)
  BY DEF Alive, Says

\* The runs looked at from a floor are among all of them.
LEMMA Floor ==
  ASSUME NEW l, NEW k \in Nat, NEW r \in Nat
  PROVE  /\ Alive(l, k, r) <=> r > k /\ Alive(l, 0, r)
         /\ Alive(l, k, r) => Alive(l, 0, r)
  BY DEF Alive

\* There is one top run, and it is the only one that may not be applied.
LEMMA OneTop ==
  ASSUME NEW l, NEW k, NEW pl, NEW r \in 1..Len(pl), Len(pl) \in Nat, Sound(l, k, pl), Alive(l, k, r)
  PROVE  /\ ~Says(l, r, "Applied") => Top(l, k, pl, r)
         /\ (\A s \in 1..Len(pl) : s > r => ~Alive(l, k, s)) => Top(l, k, pl, r)
         /\ Top(l, k, pl, r) => Tops(l, pl, r)
  BY DEF Sound, Top

\* What is said of a run below one looks at the journals below it only.
LEMMA SameUnder ==
  ASSUME NEW l, NEW m, NEW k, NEW pl, NEW r \in 1..Len(pl), NEW b, Len(pl) \in Nat,
         \A s \in 1..(r - 1) : Alive(m, k, s) <=> Alive(l, k, s)
  PROVE  Under(l, k, r, b) <=> Under(m, k, r, b)
  BY DEF Under

\* Files that agree on it are as good.
LEMMA GoodSame ==
  ASSUME NEW l, NEW m, NEW k, NEW pl, NEW r, PlansOK(pl), AgreeBut(l, m, pl, 0), r # 0 => r \in 1..Len(pl),
         Good(l, k, pl, r)
  PROVE  Good(m, k, pl, r)
<1>0. Len(pl) \in Nat
  BY DEF PlansOK
<1>1. \A s \in 1..Len(pl) : (\A j : Alive(m, j, s) <=> Alive(l, j, s)) /\ \A x : Says(m, s, x) <=> Says(l, s, x)
  <2> SUFFICES ASSUME NEW s \in 1..Len(pl)
               PROVE  (\A j : Alive(m, j, s) <=> Alive(l, j, s)) /\ \A x : Says(m, s, x) <=> Says(l, s, x)
    OBVIOUS
  <2>1. m[Journal(s)] = l[Journal(s)]
    BY <1>0 DEF AgreeBut
  <2> QED
    BY <2>1, SameSays
<1>2. \A s \in 1..Len(pl) : (Top(m, k, pl, s) <=> Top(l, k, pl, s)) /\ (Tops(m, pl, s) <=> Tops(l, pl, s))
  BY <1>1 DEF Top, Tops, AgreeBut
<1>3. ASSUME NEW s \in 1..Len(pl) PROVE Under(l, k, s, pl[s].prev) <=> Under(m, k, s, pl[s].prev)
  <2>1. \A q \in 1..(s - 1) : Alive(m, k, q) <=> Alive(l, k, q)
    BY <1>0, <1>1
  <2> QED
    BY <1>0, <2>1, SameUnder
<1>4. Sound(m, k, pl)
  BY <1>1, <1>2, <1>3 DEF Sound, Good, AgreeBut
<1>5. r # 0 => Latest(m, k, pl, r)
  BY <1>1 DEF Good, Latest, AgreeBut
<1>6. Open(m, pl)
  <2>1. m[Baseline] # Absent => m[Baseline].run \in 1..Len(pl) /\ ~Says(m, m[Baseline].run, "RolledBack")
    BY <1>1 DEF Good, Open, AgreeBut
  <2>2. ASSUME NEW s \in 1..Len(pl), Alive(m, 0, s), pl[s].prev # Absent PROVE ~Says(m, pl[s].prev.run, "RolledBack")
    <3>1. pl[s].prev.run \in 1..Len(pl)
      BY <2>2 DEF PlansOK
    <3> QED
      BY <1>1, <2>2, <3>1 DEF Good, Open
  <2> QED
    BY <2>1, <2>2 DEF Open
<1> QED
  BY <1>4, <1>5, <1>6 DEF Good

\* With no run left to look at there is nothing to say.
LEMMA SoundLow ==
  ASSUME NEW m, NEW k, NEW pl, Low(k, m[Baseline]), \A s \in 1..Len(pl) : ~Alive(m, k, s)
  PROVE  Sound(m, k, pl)
  BY DEF Sound

\* The top run changes: its journal, short of rolling back, its files or the baseline.
LEMMA SoundTop ==
  ASSUME NEW l, NEW m, NEW k \in Nat, NEW pl, NEW r, PlansOK(pl), Sound(l, k, pl), Top(l, k, pl, r),
         \A s \in 1..Len(pl) : s # r => m[Journal(s)] = l[Journal(s)],
         NEW x \in Phases \ {"RolledBack"}, Says(m, r, x),
         m[Baseline] \in {[run |-> r], pl[r].prev},
         \A p \in Paths : m[Target(p)] \in {pl[r].before[p], pl[r].after[p]},
         x = "Applied" => m[Baseline] = [run |-> r] /\ \A p \in Paths : m[Target(p)] = pl[r].after[p]
  PROVE  Sound(m, k, pl)
<1>1. Alive(m, k, r) /\ (Says(m, r, "Applied") => x = "Applied") /\ ~Says(m, r, "RolledBack") /\ r \in 1..Len(pl)
  <2>1. "Applied" \in Phases /\ "RolledBack" \in Phases /\ x \in Phases
    BY DEF Phases
  <2>2. r > k
    BY DEF Top, Alive
  <2> QED
    BY <2>1, <2>2, Marks DEF Says, Top
<1>2. \A s \in 1..Len(pl) : (Alive(m, k, s) <=> Alive(l, k, s)) /\ (s # r => (Says(m, s, "Applied") <=> Says(l, s, "Applied")))
  BY <1>1, SameSays DEF Top
<1>3. \A s \in 1..Len(pl) : Top(m, k, pl, s) <=> Top(l, k, pl, s)
  BY <1>2 DEF Top
<1>4. Tops(m, pl, r)
  BY <1>1 DEF Tops
<1>5. ASSUME NEW s \in 1..Len(pl) PROVE Under(l, k, s, pl[s].prev) <=> Under(m, k, s, pl[s].prev)
  <2>1. \A q \in 1..(s - 1) : Alive(m, k, q) <=> Alive(l, k, q)
    BY <1>2 DEF PlansOK
  <2> QED
    BY <2>1, SameUnder DEF PlansOK
<1>6. \A s \in 1..Len(pl) : Alive(l, k, s) /\ s # r => s < r /\ ~Top(l, k, pl, s) /\ Says(l, s, "Applied")
  BY <1>1 DEF Top, Sound, PlansOK
<1>7. ASSUME NEW s \in 1..Len(pl), Alive(m, k, s)
      PROVE  /\ Under(m, k, s, pl[s].prev)
             /\ ~Low(k, pl[s].prev) => pl[s].before = pl[pl[s].prev.run].after
             /\ IF Top(m, k, pl, s) THEN Tops(m, pl, s) ELSE Says(m, s, "Applied")
  <2>1. Under(m, k, s, pl[s].prev) /\ (~Low(k, pl[s].prev) => pl[s].before = pl[pl[s].prev.run].after)
    BY <1>2, <1>5, <1>7 DEF Sound
  <2>2. CASE s = r
    BY <1>3, <1>4, <2>1, <2>2
  <2>3. CASE s # r
    BY <1>2, <1>3, <1>6, <1>7, <2>1, <2>3
  <2> QED
    BY <2>2, <2>3
<1>8. Top(m, k, pl, r)
  BY <1>1, <1>3
<1> QED
  BY <1>1, <1>7, <1>8 DEF Sound

\* A run with nothing above it may always write its journal, its files and the baseline.
LEMMA GoodTop ==
  ASSUME NEW l, NEW m, NEW k \in Nat, NEW pl, NEW r \in 1..Len(pl), PlansOK(pl), Good(l, k, pl, r), Alive(l, 0, r),
         \A s \in 1..Len(pl) : s # r => m[Journal(s)] = l[Journal(s)],
         NEW x \in Phases \ {"RolledBack"}, Says(m, r, x),
         m[Baseline] \in {[run |-> r], pl[r].prev, l[Baseline]},
         \A p \in Paths : m[Target(p)] \in {pl[r].before[p], pl[r].after[p], l[Target(p)]},
         x = "Applied" => m[Baseline] = [run |-> r] /\ \A p \in Paths : m[Target(p)] = pl[r].after[p]
  PROVE  Good(m, k, pl, r)
<1>1. /\ Sound(l, k, pl) /\ Open(l, pl) /\ Latest(l, k, pl, r) /\ r # 0 /\ Len(pl) \in Nat
      /\ \A s \in 1..Len(pl) : s > r => ~Alive(l, 0, s) /\ ~Alive(l, k, s)
  <2>1. r # 0 /\ Len(pl) \in Nat /\ Sound(l, k, pl) /\ Open(l, pl) /\ Latest(l, k, pl, r)
    BY DEF PlansOK, Good
  <2> QED
    BY <2>1, Floor DEF Latest
<1>2. ~Says(m, r, "RolledBack")
  BY Marks
<1>3. \A s \in 1..Len(pl) : s # r => (\A j : Alive(m, j, s) <=> Alive(l, j, s)) /\ \A y : Says(m, s, y) <=> Says(l, s, y)
  BY SameSays
<1>4. Latest(m, k, pl, r)
  BY <1>1, <1>2, <1>3 DEF Latest
<1>5. [run |-> r].run = r /\ (pl[r].prev # Absent => pl[r].prev.run \in 1..(r - 1))
  BY DEF PlansOK
<1>6. Open(m, pl)
  <2>1. ASSUME m[Baseline] # Absent PROVE m[Baseline].run \in 1..Len(pl) /\ ~Says(m, m[Baseline].run, "RolledBack")
    <3>1. CASE m[Baseline] = [run |-> r]
      BY <1>2, <1>5, <3>1
    <3>2. CASE m[Baseline] = pl[r].prev
      <4>1. pl[r].prev.run \in 1..Len(pl) /\ pl[r].prev.run # r /\ ~Says(l, pl[r].prev.run, "RolledBack")
        BY <1>1, <1>5, <2>1, <3>2 DEF Open
      <4> QED
        BY <1>3, <3>2, <4>1
    <3>3. CASE m[Baseline] = l[Baseline]
      <4>1. l[Baseline].run \in 1..Len(pl) /\ ~Says(l, l[Baseline].run, "RolledBack")
        BY <1>1, <2>1, <3>3 DEF Open
      <4> QED
        BY <1>2, <1>3, <3>3, <4>1
    <3> QED
      BY <3>1, <3>2, <3>3
  <2>2. ASSUME NEW s \in 1..Len(pl), Alive(m, 0, s), pl[s].prev # Absent PROVE ~Says(m, pl[s].prev.run, "RolledBack")
    <3>1. Alive(l, 0, s) /\ pl[s].prev.run \in 1..Len(pl)
      BY <1>3, <2>2 DEF PlansOK
    <3>2. ~Says(l, pl[s].prev.run, "RolledBack")
      BY <1>1, <2>2, <3>1 DEF Open
    <3> QED
      BY <1>2, <1>3, <3>1, <3>2
  <2> QED
    BY <2>1, <2>2 DEF Open
<1>7. CASE r > k
  <2>1. Alive(l, k, r) /\ Top(l, k, pl, r) /\ Tops(l, pl, r)
    BY <1>1, <1>7, OneTop, Floor
  <2>2. /\ m[Baseline] \in {[run |-> r], pl[r].prev}
        /\ \A p \in Paths : m[Target(p)] \in {pl[r].before[p], pl[r].after[p]}
    BY <2>1 DEF Tops
  <2>3. Sound(m, k, pl)
    BY <1>1, <2>1, <2>2, SoundTop
  <2> QED
    BY <1>4, <1>6, <2>3 DEF Good
<1>8. CASE r <= k
  <2>1. \A s \in 1..Len(pl) : ~Alive(l, k, s) /\ ~Alive(m, k, s)
    <3> SUFFICES ASSUME NEW s \in 1..Len(pl), s > k PROVE ~Alive(l, k, s) /\ ~Alive(m, k, s)
      BY DEF Alive
    <3>1. s > r /\ s # r
      BY <1>1, <1>8
    <3> QED
      BY <1>1, <1>3, <3>1
  <2>2. Low(k, l[Baseline])
    BY <1>1, <2>1 DEF Sound, Top
  <2>3. Low(k, m[Baseline])
    BY <1>1, <1>5, <1>8, <2>2 DEF Low
  <2>4. Sound(m, k, pl)
    BY <2>1, <2>3, SoundLow
  <2> QED
    BY <1>4, <1>6, <2>4 DEF Good
<1> QED
  BY <1>1, <1>7, <1>8

\* The top run is rolled back: the one below is the top run again.
LEMMA SoundPop ==
  ASSUME NEW l, NEW m, NEW k \in Nat, NEW pl, NEW r, PlansOK(pl), Sound(l, k, pl), Top(l, k, pl, r),
         AgreeBut(l, m, pl, r), Says(m, r, "RolledBack"),
         l[Baseline] = pl[r].prev, \A p \in Paths : l[Target(p)] = pl[r].before[p]
  PROVE  Sound(m, k, pl)
<1>1. ~Alive(m, k, r) /\ r \in 1..Len(pl) /\ Alive(l, k, r)
  BY Marks DEF Top
<1>2. \A s \in 1..Len(pl) : s # r => (Alive(m, k, s) <=> Alive(l, k, s)) /\ (Says(m, s, "Applied") <=> Says(l, s, "Applied"))
  BY SameSays DEF AgreeBut
<1>3. \A s \in 1..Len(pl) : Alive(m, k, s) => s < r /\ Alive(l, k, s) /\ Says(m, s, "Applied")
  <2> SUFFICES ASSUME NEW s \in 1..Len(pl), Alive(m, k, s) PROVE s < r /\ Alive(l, k, s) /\ Says(m, s, "Applied")
    OBVIOUS
  <2>1. s # r /\ Alive(l, k, s) /\ s < r
    BY <1>1, <1>2 DEF Top, PlansOK
  <2>2. ~Top(l, k, pl, s)
    BY <1>1, <2>1 DEF Top
  <2> QED
    BY <1>2, <2>1, <2>2 DEF Sound
<1>6. ASSUME NEW s \in 1..Len(pl), Alive(m, k, s)
      PROVE  Under(m, k, s, pl[s].prev) /\ (~Low(k, pl[s].prev) => pl[s].before = pl[pl[s].prev.run].after)
  <2>1. s < r /\ Alive(l, k, s)
    BY <1>3, <1>6
  <2>2. \A q \in 1..(s - 1) : Alive(m, k, q) <=> Alive(l, k, q)
    BY <1>1, <1>2, <2>1 DEF PlansOK
  <2>3. Under(m, k, s, pl[s].prev)
    BY <2>1, <2>2, SameUnder DEF Sound, PlansOK
  <2> QED
    BY <2>1, <2>3 DEF Sound
<1>7. Under(l, k, r, pl[r].prev) /\ (~Low(k, pl[r].prev) => pl[r].before = pl[pl[r].prev.run].after)
  BY <1>1 DEF Sound
<1>8. CASE Low(k, pl[r].prev)
  <2>1. \A s \in 1..Len(pl) : ~Alive(m, k, s)
    BY <1>1, <1>3, <1>7, <1>8 DEF Under, PlansOK
  <2>2. Low(k, m[Baseline])
    BY <1>8 DEF AgreeBut
  <2> QED
    BY <2>1, <2>2, SoundLow
<1>9. CASE ~Low(k, pl[r].prev)
  <2> DEFINE q == pl[r].prev.run
  <2>1. /\ q \in 1..(r - 1) /\ q \in 1..Len(pl) /\ Alive(l, k, q) /\ \A s \in 1..(r - 1) : s > q => ~Alive(l, k, s)
    BY <1>1, <1>7, <1>9 DEF Under, PlansOK
  <2>2. pl[r].prev = [run |-> q]
    BY <1>1, <1>9, Records DEF PlansOK, PlanType, Low
  <2>a. pl[r].before = pl[q].after
    BY <1>7, <1>9
  <2> HIDE DEF q
  <2>3. Alive(m, k, q) /\ Says(m, q, "Applied")
    BY <1>1, <1>2, <1>3, <2>1
  <2>4. Top(m, k, pl, q)
    <3>1. ASSUME NEW s \in 1..Len(pl), s > q, Alive(m, k, s) PROVE FALSE
      <4>1. s < r /\ Alive(l, k, s)
        BY <1>3, <3>1
      <4>2. s \in 1..(r - 1)
        BY <1>1, <4>1 DEF PlansOK
      <4> QED
        BY <2>1, <3>1, <4>1, <4>2
    <3> QED
      BY <2>1, <2>3, <3>1 DEF Top
  <2>5. Tops(m, pl, q)
    <3>1. m[Baseline] = [run |-> q]
      BY <2>2 DEF AgreeBut
    <3>2. \A p \in Paths : m[Target(p)] = pl[q].after[p]
      BY <2>a DEF AgreeBut
    <3> QED
      BY <3>1, <3>2 DEF Tops
  <2>6. \A s \in 1..Len(pl) : Top(m, k, pl, s) => s = q
    BY <1>1, <1>3, <2>1, <2>3 DEF Top, PlansOK
  <2>7. \A s \in 1..Len(pl) : Alive(m, k, s) => IF Top(m, k, pl, s) THEN Tops(m, pl, s) ELSE Says(m, s, "Applied")
    BY <1>3, <2>5, <2>6
  <2> QED
    BY <1>6, <2>1, <2>4, <2>7 DEF Sound
<1> QED
  BY <1>8, <1>9

\* A run with nothing above it may be closed once it has restored what it found.
LEMMA GoodPop ==
  ASSUME NEW l, NEW m, NEW k \in Nat, NEW pl, NEW r \in 1..Len(pl), PlansOK(pl), Good(l, k, pl, r), Alive(l, 0, r),
         AgreeBut(l, m, pl, r), Says(m, r, "RolledBack"), l[Baseline] = pl[r].prev,
         r > k => \A p \in Paths : l[Target(p)] = pl[r].before[p]
  PROVE  Good(m, k, pl, r)
<1>1. /\ Sound(l, k, pl) /\ Open(l, pl) /\ Latest(l, k, pl, r) /\ r # 0 /\ Len(pl) \in Nat
      /\ \A s \in 1..Len(pl) : s > r => ~Alive(l, 0, s) /\ ~Alive(l, k, s)
  <2>1. r # 0 /\ Len(pl) \in Nat /\ Sound(l, k, pl) /\ Open(l, pl) /\ Latest(l, k, pl, r)
    BY DEF PlansOK, Good
  <2> QED
    BY <2>1, Floor DEF Latest
<1>2. \A j : ~Alive(m, j, r)
  BY Marks
<1>3. \A s \in 1..Len(pl) : s # r => (\A j : Alive(m, j, s) <=> Alive(l, j, s)) /\ \A y : Says(m, s, y) <=> Says(l, s, y)
  BY SameSays DEF AgreeBut
<1>4. m[Baseline] = pl[r].prev /\ (pl[r].prev # Absent => pl[r].prev.run \in 1..(r - 1))
  BY DEF PlansOK, AgreeBut
<1>5. Latest(m, k, pl, r)
  BY <1>1, <1>3, <1>4 DEF Latest, AgreeBut
<1>6. Open(m, pl)
  <2>1. ASSUME m[Baseline] # Absent PROVE m[Baseline].run \in 1..Len(pl) /\ ~Says(m, m[Baseline].run, "RolledBack")
    <3>1. pl[r].prev.run \in 1..Len(pl) /\ pl[r].prev.run # r /\ ~Says(l, pl[r].prev.run, "RolledBack")
      BY <1>1, <1>4, <2>1 DEF Open
    <3> QED
      BY <1>3, <1>4, <3>1
  <2>2. ASSUME NEW s \in 1..Len(pl), Alive(m, 0, s), pl[s].prev # Absent PROVE ~Says(m, pl[s].prev.run, "RolledBack")
    <3>1. Alive(l, 0, s) /\ s < r
      BY <1>1, <1>2, <1>3, <2>2
    <3>2. pl[s].prev.run \in 1..Len(pl) /\ pl[s].prev.run # r
      BY <1>1, <2>2, <3>1 DEF PlansOK
    <3>3. ~Says(l, pl[s].prev.run, "RolledBack")
      BY <1>1, <2>2, <3>1 DEF Open
    <3> QED
      BY <1>3, <3>2, <3>3
  <2> QED
    BY <2>1, <2>2 DEF Open
<1>7. CASE r > k
  <2>1. Alive(l, k, r) /\ Top(l, k, pl, r)
    BY <1>1, <1>7, OneTop, Floor
  <2>2. Sound(m, k, pl)
    BY <1>1, <1>7, <2>1, SoundPop
  <2> QED
    BY <1>5, <1>6, <2>2 DEF Good
<1>8. CASE r <= k
  <2>1. \A s \in 1..Len(pl) : ~Alive(m, k, s)
    <3> SUFFICES ASSUME NEW s \in 1..Len(pl), s > k PROVE ~Alive(m, k, s)
      BY DEF Alive
    <3>1. s > r /\ s # r
      BY <1>1, <1>8
    <3> QED
      BY <1>1, <1>3, <3>1
  <2>2. Low(k, m[Baseline])
    BY <1>1, <1>4, <1>8 DEF Low
  <2>3. Sound(m, k, pl)
    BY <2>1, <2>2, SoundLow
  <2> QED
    BY <1>5, <1>6, <2>3 DEF Good
<1> QED
  BY <1>1, <1>7, <1>8

\* A new run gets its journal, over runs that are all applied.
LEMMA SoundPush ==
  ASSUME NEW l, NEW m, NEW k \in Nat, NEW pl, NEW r, PlansOK(pl), Sound(l, k, pl), r = Len(pl), r # 0, r > k,
         ~Alive(l, k, r), AgreeBut(l, m, pl, r), Says(m, r, "Prepared"),
         l[Baseline] = pl[r].prev, \A p \in Paths : l[Target(p)] = pl[r].before[p],
         \A s \in 1..Len(pl) : Alive(l, k, s) => Says(l, s, "Applied")
  PROVE  Sound(m, k, pl)
<1>1. r \in 1..Len(pl) /\ Alive(m, k, r) /\ ~Says(m, r, "Applied") /\ ~Says(m, r, "RolledBack")
  <2>1. "Applied" \in Phases /\ "RolledBack" \in Phases /\ "Prepared" \in Phases
    BY DEF Phases
  <2> QED
    BY <2>1, Marks DEF Says, PlansOK
<1>2. \A s \in 1..Len(pl) : s # r => (Alive(m, k, s) <=> Alive(l, k, s)) /\ (Says(m, s, "Applied") <=> Says(l, s, "Applied"))
  BY SameSays DEF AgreeBut
<1>3. ASSUME NEW s \in 1..Len(pl) PROVE Under(l, k, s, pl[s].prev) <=> Under(m, k, s, pl[s].prev)
  <2>1. \A q \in 1..(s - 1) : Alive(m, k, q) <=> Alive(l, k, q)
    BY <1>2 DEF PlansOK
  <2> QED
    BY <2>1, SameUnder DEF PlansOK
<1>4. Top(m, k, pl, r) /\ \A s \in 1..Len(pl) : Top(m, k, pl, s) => s = r
  BY <1>1 DEF Top, PlansOK
<1>5. Tops(m, pl, r)
  BY <1>1 DEF Tops, AgreeBut
<1>6. Under(l, k, r, pl[r].prev) /\ (~Low(k, pl[r].prev) => pl[r].before = pl[pl[r].prev.run].after)
  <2>1. CASE Low(k, l[Baseline]) /\ \A s \in 1..Len(pl) : ~Alive(l, k, s)
    BY <2>1 DEF Under, PlansOK
  <2>2. ASSUME NEW q \in 1..Len(pl), Top(l, k, pl, q)
        PROVE  Under(l, k, r, pl[r].prev) /\ (~Low(k, pl[r].prev) => pl[r].before = pl[pl[r].prev.run].after)
    <3>1. Tops(l, pl, q) /\ Alive(l, k, q) /\ Says(l, q, "Applied")
      BY <2>2 DEF Sound, Top
    <3>2. l[Baseline] = [run |-> q] /\ \A p \in Paths : l[Target(p)] = pl[q].after[p]
      BY <3>1 DEF Tops
    <3>3. pl[r].prev # Absent /\ pl[r].prev.run = q /\ ~Low(k, pl[r].prev)
      BY <3>1, <3>2, Records DEF PlansOK, Low, Alive
    <3>4. q \in 1..(r - 1) /\ \A s \in 1..(r - 1) : s > q => ~Alive(l, k, s)
      BY <2>2 DEF Top, PlansOK
    <3>5. pl[r].before = pl[q].after
      <4>1. pl[r].before \in [Paths -> Values] /\ pl[q].after \in [Paths -> Values]
        BY <1>1 DEF PlansOK, PlanType
      <4> QED
        BY <3>2, <4>1
    <3> QED
      BY <3>1, <3>3, <3>4, <3>5 DEF Under
  <2> QED
    BY <2>1, <2>2 DEF Sound
<1>7. ASSUME NEW s \in 1..Len(pl), Alive(m, k, s)
      PROVE  /\ Under(m, k, s, pl[s].prev)
             /\ ~Low(k, pl[s].prev) => pl[s].before = pl[pl[s].prev.run].after
             /\ IF Top(m, k, pl, s) THEN Tops(m, pl, s) ELSE Says(m, s, "Applied")
  <2>1. CASE s = r
    BY <1>3, <1>4, <1>5, <1>6, <2>1
  <2>2. CASE s # r
    BY <1>2, <1>3, <1>4, <1>7, <2>2 DEF Sound
  <2> QED
    BY <2>1, <2>2
<1> QED
  BY <1>1, <1>4, <1>7 DEF Sound

LEMMA GoodPush ==
  ASSUME NEW l, NEW m, NEW k \in Nat, NEW pl, NEW r, PlansOK(pl), Good(l, k, pl, r), r = Len(pl), r # 0,
         l[Journal(r)] = Absent, AgreeBut(l, m, pl, r), Says(m, r, "Prepared"),
         l[Baseline] = pl[r].prev, \A p \in Paths : l[Target(p)] = pl[r].before[p],
         \A s \in 1..Len(pl) : Alive(l, 0, s) => Says(l, s, "Applied")
  PROVE  Good(m, k, pl, r)
<1>1. Sound(l, k, pl) /\ Open(l, pl) /\ Len(pl) \in Nat /\ r \in 1..Len(pl)
  BY DEF PlansOK, Good
<1>2. ~Says(m, r, "RolledBack") /\ \A j : ~Alive(l, j, r)
  BY Marks DEF Phases, Alive
<1>3. \A s \in 1..Len(pl) : s # r => (\A j : Alive(m, j, s) <=> Alive(l, j, s)) /\ \A y : Says(m, s, y) <=> Says(l, s, y)
  BY SameSays DEF AgreeBut
<1>4. m[Baseline] = pl[r].prev /\ (pl[r].prev # Absent => pl[r].prev.run \in 1..(r - 1))
  BY <1>1 DEF PlansOK, AgreeBut
<1>5. Latest(m, k, pl, r)
  BY <1>1, <1>2 DEF Latest
<1>6. Open(m, pl)
  <2>1. ASSUME m[Baseline] # Absent PROVE m[Baseline].run \in 1..Len(pl) /\ ~Says(m, m[Baseline].run, "RolledBack")
    <3>1. pl[r].prev.run \in 1..Len(pl) /\ pl[r].prev.run # r /\ ~Says(l, pl[r].prev.run, "RolledBack")
      BY <1>1, <1>4, <2>1 DEF Open
    <3> QED
      BY <1>3, <1>4, <3>1
  <2>2. ASSUME NEW s \in 1..Len(pl), Alive(m, 0, s), pl[s].prev # Absent PROVE ~Says(m, pl[s].prev.run, "RolledBack")
    <3>1. pl[s].prev.run \in 1..Len(pl)
      BY <2>2 DEF PlansOK
    <3>2. CASE s = r
      BY <1>4, <2>1, <2>2, <3>2
    <3>3. CASE s # r
      <4>1. ~Says(l, pl[s].prev.run, "RolledBack")
        BY <1>1, <1>3, <2>2, <3>3 DEF Open
      <4> QED
        BY <1>2, <1>3, <3>1, <4>1
    <3> QED
      BY <3>2, <3>3
  <2> QED
    BY <2>1, <2>2 DEF Open
<1>7. CASE r > k
  <2>1. \A s \in 1..Len(pl) : Alive(l, k, s) => Says(l, s, "Applied")
    BY <1>1, Floor
  <2>2. Sound(m, k, pl)
    BY <1>1, <1>2, <1>7, <2>1, SoundPush
  <2> QED
    BY <1>5, <1>6, <2>2 DEF Good
<1>8. CASE r <= k
  <2>1. \A s \in 1..Len(pl) : ~Alive(m, k, s)
    BY <1>1, <1>8 DEF Alive
  <2>2. Low(k, m[Baseline])
    BY <1>1, <1>4, <1>8 DEF Low
  <2>3. Sound(m, k, pl)
    BY <2>1, <2>2, SoundLow
  <2> QED
    BY <1>5, <1>6, <2>3 DEF Good
<1> QED
  BY <1>1, <1>7, <1>8

\* A plan is added whose run has no journal yet.
LEMMA GoodExtend ==
  ASSUME NEW l, NEW k \in Nat, NEW pl, NEW ql, NEW n, PlansOK(pl), n = Len(pl) + 1, Len(ql) = n,
         \A s \in 1..Len(pl) : ql[s] = pl[s], l[Journal(n)] = Absent, Sound(l, k, pl), Open(l, pl)
  PROVE  Good(l, k, ql, n)
<1>1. Len(pl) \in Nat /\ 1..Len(ql) = (1..Len(pl)) \cup {n} /\ n \notin 1..Len(pl)
  BY DEF PlansOK
<1>2. (\A j : ~Alive(l, j, n)) /\ ~Says(l, n, "RolledBack")
  BY Records DEF Alive, Says, Phases
<1>3. \A s \in 1..Len(pl) : (Top(l, k, ql, s) <=> Top(l, k, pl, s)) /\ (Tops(l, ql, s) <=> Tops(l, pl, s))
  BY <1>1, <1>2 DEF Top, Tops
<1>4. ASSUME NEW s \in 1..Len(ql), Alive(l, k, s)
      PROVE  /\ Under(l, k, s, ql[s].prev)
             /\ ~Low(k, ql[s].prev) => ql[s].before = ql[ql[s].prev.run].after
             /\ IF Top(l, k, ql, s) THEN Tops(l, ql, s) ELSE Says(l, s, "Applied")
  <2>1. s \in 1..Len(pl) /\ ql[s] = pl[s]
    BY <1>1, <1>2, <1>4
  <2>2. Under(l, k, s, pl[s].prev)
    BY <1>4, <2>1 DEF Sound
  <2>3. ~Low(k, pl[s].prev) => pl[s].prev.run \in 1..Len(pl)
    BY <1>1, <2>1, <2>2 DEF Under
  <2> QED
    BY <1>3, <1>4, <2>1, <2>2, <2>3 DEF Sound
<1>5. \/ \E s \in 1..Len(ql) : Top(l, k, ql, s)
      \/ Low(k, l[Baseline]) /\ \A s \in 1..Len(ql) : ~Alive(l, k, s)
  BY <1>1, <1>2, <1>3 DEF Sound
<1>6. Sound(l, k, ql)
  BY <1>4, <1>5 DEF Sound
<1>7. Latest(l, k, ql, n)
  BY <1>1, <1>2 DEF Latest
<1>8. Open(l, ql)
  BY <1>1, <1>2 DEF Open
<1> QED
  BY <1>6, <1>7, <1>8 DEF Good


\* Journals up to the floor k are lost, and whatever else with all of them.
LEMMA GoodLoss ==
  ASSUME NEW l, NEW m, NEW j \in Nat, NEW k \in Nat, NEW pl, NEW r, PlansOK(pl), r # 0 => r \in 1..Len(pl),
         j <= k, k <= Len(pl), Good(l, j, pl, r), m[Baseline] = l[Baseline],
         \A s \in 1..Len(pl) : m[Journal(s)] = l[Journal(s)] \/ (m[Journal(s)] = Absent /\ s <= k),
         k = Len(pl) \/ \A p \in Paths : m[Target(p)] = l[Target(p)]
  PROVE  Good(m, k, pl, r)
<1>1. Sound(l, j, pl) /\ Open(l, pl) /\ Len(pl) \in Nat
  BY DEF PlansOK, Good
<1>2. ASSUME NEW s \in 1..Len(pl)
      PROVE  /\ Alive(m, 0, s) => Alive(l, 0, s)
             /\ Says(m, s, "RolledBack") => Says(l, s, "RolledBack")
             /\ s > k => /\ (Alive(m, k, s) <=> Alive(l, j, s)) /\ m[Journal(s)] = l[Journal(s)]
                         /\ \A x : Says(m, s, x) <=> Says(l, s, x)
             /\ Alive(m, k, s) => s > k
  <2>1. m[Journal(s)] = l[Journal(s)] \/ (m[Journal(s)] = Absent /\ s <= k)
    BY <1>2
  <2>2. [phase |-> "RolledBack"] # Absent
    BY Records DEF Phases
  <2>3. CASE m[Journal(s)] = l[Journal(s)]
    <3>1. s > k => s > j
      BY <1>1
    <3> QED
      BY <2>3, <3>1 DEF Alive, Says
  <2>4. CASE m[Journal(s)] = Absent /\ s <= k
    BY <1>1, <2>2, <2>4 DEF Alive, Says
  <2> QED
    BY <2>1, <2>3, <2>4
<1>3. Open(m, pl)
  <2>1. m[Baseline] # Absent => m[Baseline].run \in 1..Len(pl) /\ ~Says(m, m[Baseline].run, "RolledBack")
    BY <1>1, <1>2 DEF Open
  <2>2. ASSUME NEW s \in 1..Len(pl), Alive(m, 0, s), pl[s].prev # Absent PROVE ~Says(m, pl[s].prev.run, "RolledBack")
    <3>0. pl[s].prev.run \in 1..(s - 1)
      BY <2>2 DEF PlansOK
    <3>1. pl[s].prev.run \in 1..Len(pl)
      BY <1>1, <3>0
    <3>2. ~Says(l, pl[s].prev.run, "RolledBack")
      BY <1>1, <1>2, <2>2 DEF Open
    <3> QED
      BY <1>2, <3>1, <3>2
  <2> QED
    BY <2>1, <2>2 DEF Open
<1>4. r # 0 => Latest(m, k, pl, r)
  <2> SUFFICES ASSUME r # 0 PROVE Latest(m, k, pl, r)
    OBVIOUS
  <2>1. Latest(l, j, pl, r) /\ r \in 1..Len(pl)
    BY DEF Good
  <2>2. \A s \in 1..Len(pl) : s > r => ~Alive(m, 0, s)
    BY <1>2, <2>1 DEF Latest
  <2>3. ASSUME r > k, Says(m, r, "RolledBack")
        PROVE  m[Baseline] = pl[r].prev /\ \A p \in Paths : m[Target(p)] = pl[r].before[p]
    <3>1. r > j /\ Says(l, r, "RolledBack") /\ k # Len(pl)
      BY <1>1, <1>2, <2>1, <2>3
    <3> QED
      BY <2>1, <3>1 DEF Latest
  <2> QED
    BY <2>2, <2>3 DEF Latest
<1>5. ASSUME NEW s \in 1..Len(pl), Alive(m, k, s)
      PROVE  /\ Alive(l, j, s) /\ s > k /\ k # Len(pl)
             /\ Top(m, k, pl, s) <=> Top(l, j, pl, s)
             /\ Tops(m, pl, s) <=> Tops(l, pl, s)
  <2>1. Alive(l, j, s) /\ s > k /\ k # Len(pl)
    BY <1>1, <1>2, <1>5
  <2>2. \A q \in 1..Len(pl) : q > s => (Alive(m, k, q) <=> Alive(l, j, q))
    <3> SUFFICES ASSUME NEW q \in 1..Len(pl), q > s PROVE Alive(m, k, q) <=> Alive(l, j, q)
      OBVIOUS
    <3>1. q > k
      BY <1>1, <2>1
    <3> QED
      BY <1>2, <3>1
  <2>3. Top(m, k, pl, s) <=> Top(l, j, pl, s)
    BY <1>5, <2>1, <2>2 DEF Top
  <2>4. Tops(m, pl, s) <=> Tops(l, pl, s)
    <3>1. (\A p \in Paths : m[Target(p)] = l[Target(p)]) /\ (Says(m, s, "Applied") <=> Says(l, s, "Applied"))
      BY <1>2, <2>1
    <3> QED
      BY <3>1 DEF Tops
  <2> QED
    BY <2>1, <2>3, <2>4
<1>6. ASSUME NEW s \in 1..Len(pl), Alive(m, k, s)
      PROVE  Under(m, k, s, pl[s].prev) /\ (~Low(k, pl[s].prev) => ~Low(j, pl[s].prev))
  <2>0. PICK b : b = pl[s].prev
    OBVIOUS
  <2>1. Under(l, j, s, b) /\ (b # Absent => b.run \in 1..(s - 1))
    BY <1>1, <1>5, <1>6, <2>0 DEF Sound, PlansOK
  <2>2. \A q \in 1..(s - 1) : q \in 1..Len(pl) /\ q \in Nat
    BY <1>1
  <2>3. CASE Low(k, b)
    <3>1. ASSUME NEW q \in 1..(s - 1), Alive(m, k, q) PROVE FALSE
      <4>1. q > k /\ Alive(l, j, q)
        BY <1>2, <2>2, <3>1
      <4>2. ~Low(j, b)
        BY <2>1, <4>1 DEF Under
      <4>3. b # Absent /\ b.run <= k /\ q > b.run
        BY <2>1, <2>3, <3>1, <4>1, <4>2 DEF Low
      <4> QED
        BY <2>1, <3>1, <4>1, <4>2, <4>3 DEF Under
    <3> QED
      BY <2>0, <2>3, <3>1 DEF Under
  <2>4. CASE ~Low(k, b)
    <3>1. b # Absent /\ b.run > k /\ b.run > j /\ b.run \in Nat
      BY <2>1, <2>4 DEF Low
    <3>2. ~Low(j, b)
      BY <3>1 DEF Low
    <3>3. Alive(l, j, b.run) /\ b.run \in 1..(s - 1) /\ \A q \in 1..(s - 1) : q > b.run => ~Alive(l, j, q)
      BY <2>1, <3>2 DEF Under
    <3>4. Alive(m, k, b.run)
      BY <1>2, <2>2, <3>1, <3>3
    <3>5. ASSUME NEW q \in 1..(s - 1), q > b.run PROVE ~Alive(m, k, q)
      <4>1. q > k
        BY <3>1, <3>5
      <4> QED
        BY <1>2, <2>2, <3>3, <3>5, <4>1
    <3> QED
      BY <2>0, <2>4, <3>2, <3>3, <3>4, <3>5 DEF Under
  <2> QED
    BY <2>3, <2>4
<1>7. \/ \E s \in 1..Len(pl) : Top(m, k, pl, s)
      \/ Low(k, m[Baseline]) /\ \A s \in 1..Len(pl) : ~Alive(m, k, s)
  <2>1. CASE \E s \in 1..Len(pl) : Alive(m, k, s)
    <3>1. PICK s \in 1..Len(pl) : Top(l, j, pl, s)
      BY <1>1, <1>5, <2>1 DEF Sound
    <3>2. PICK q \in 1..Len(pl) : Alive(m, k, q)
      BY <2>1
    <3>3. q > k /\ Alive(l, j, q) /\ q <= s
      BY <1>1, <1>5, <3>1, <3>2 DEF Top
    <3>4. s > k
      BY <1>1, <3>3
    <3>5. Alive(m, k, s)
      BY <1>2, <3>1, <3>4 DEF Top
    <3> QED
      BY <1>5, <3>1, <3>5
  <2>2. CASE \A s \in 1..Len(pl) : ~Alive(m, k, s)
    <3>1. CASE Low(j, l[Baseline])
      <4>1. l[Baseline] = Absent \/ (l[Baseline].run \in Nat /\ l[Baseline].run <= j)
        BY <1>1, <3>1 DEF Low, Open
      <4> QED
        BY <2>2, <4>1 DEF Low
    <3>2. ASSUME NEW s \in 1..Len(pl), Top(l, j, pl, s) PROVE Low(k, m[Baseline])
      <4>1. Tops(l, pl, s)
        BY <1>1, <3>2, OneTop DEF Top
      <4>2. ~(s > k)
        BY <1>2, <2>2, <3>2 DEF Top
      <4>3. [run |-> s].run = s
        OBVIOUS
      <4>4. pl[s].prev # Absent => pl[s].prev.run \in 1..(s - 1)
        BY DEF PlansOK
      <4>5. CASE l[Baseline] = [run |-> s]
        BY <1>1, <4>2, <4>3, <4>5 DEF Low
      <4>6. CASE l[Baseline] = pl[s].prev
        BY <1>1, <4>2, <4>4, <4>6 DEF Low
      <4> QED
        BY <4>1, <4>5, <4>6 DEF Tops
    <3> QED
      BY <1>1, <2>2, <3>1, <3>2 DEF Sound
  <2> QED
    BY <2>1, <2>2
<1>8. ASSUME NEW s \in 1..Len(pl), Alive(m, k, s)
      PROVE  /\ Under(m, k, s, pl[s].prev)
             /\ ~Low(k, pl[s].prev) => pl[s].before = pl[pl[s].prev.run].after
             /\ IF Top(m, k, pl, s) THEN Tops(m, pl, s) ELSE Says(m, s, "Applied")
  <2>1. Alive(l, j, s) /\ s > k
    BY <1>5, <1>8
  <2>2. ~Low(j, pl[s].prev) => pl[s].before = pl[pl[s].prev.run].after
    BY <1>1, <2>1 DEF Sound
  <2>3. IF Top(l, j, pl, s) THEN Tops(l, pl, s) ELSE Says(l, s, "Applied")
    BY <1>1, <2>1 DEF Sound
  <2>4. Says(m, s, "Applied") <=> Says(l, s, "Applied")
    BY <1>2, <2>1
  <2> QED
    BY <1>5, <1>6, <1>8, <2>2, <2>3, <2>4
<1>9. Sound(m, k, pl)
  BY <1>7, <1>8 DEF Sound
<1> QED
  BY <1>3, <1>4, <1>9 DEF Good

-----------------------------------------------------------------------------
(* What a loss of power may leave is good *)

\* Plans and runs, as the lemmas about the stack take them.
LEMMA Stack ==
  ASSUME IInv, BegunInv
  PROVE  /\ PlansOK(plan) /\ Known = 1..Len(plan) /\ run \in 0..Len(plan) /\ (run # 0 => run \in 1..Len(plan))
         /\ spoilt \in Nat /\ spoilt <= Len(plan)
         /\ \A r \in Known : r \in Runs /\ Journal(r) \in File /\ live[Journal(r)] \in Journals
<1>0. Known = 1..Len(plan) /\ Len(plan) \in Nat
  BY KnownRuns DEF IInv, Known
<1>1. PlansOK(plan)
  BY <1>0, KnownRuns DEF IInv, BegunInv, PlansOK
<1>2. \A r \in Known : r \in Runs
  BY KnownRuns DEF IInv
<1>3. \A r \in Known : Journal(r) \in File /\ live[Journal(r)] \in Journals
  BY <1>2, Roles DEF IInv, TypeOK
<1> QED
  BY <1>0, <1>1, <1>2, <1>3 DEF IInv, TypeOK

\* The same files are as good.
LEMMA SameFiles ==
  ASSUME IInv, BegunInv, NEW l, NEW m, NEW r \in 0..Len(plan), \A f \in File : m[f] = l[f], Good(l, spoilt, plan, r)
  PROVE  Good(m, spoilt, plan, r)
<1>1. PlansOK(plan) /\ (r # 0 => r \in 1..Len(plan)) /\ \A s \in 1..Len(plan) : Journal(s) \in File
  BY Stack DEF PlansOK
<1>2. AgreeBut(l, m, plan, 0)
  BY <1>1, Roles DEF AgreeBut
<1> QED
  BY <1>1, <1>2, GoodSame

\* A file that is written somewhere aside changes nothing.
LEMMA Aside ==
  ASSUME IInv, BegunInv, NEW f \in File, NEW v, NEW p \in Paths, NEW r \in Runs, f = Backup(r, p),
         Good(live, spoilt, plan, run)
  PROVE  Good([live EXCEPT ![f] = v], spoilt, plan, run)
<1> DEFINE m == [live EXCEPT ![f] = v]
<1>1. \A g \in File : g # f => m[g] = live[g]
  BY DEF IInv, TypeOK
<1> HIDE DEF m
<1>2. PlansOK(plan) /\ (run # 0 => run \in 1..Len(plan)) /\ \A s \in 1..Len(plan) : s \in Runs
  BY Stack DEF PlansOK
<1>3. AgreeBut(live, m, plan, 0)
  BY <1>1, <1>2, Roles DEF AgreeBut
<1>4. Good(m, spoilt, plan, run)
  BY <1>2, <1>3, GoodSame
<1> QED
  BY <1>4 DEF m

\* Starting to write a file.
LEMMA DiskPut ==
  ASSUME IInv, BegunInv, DiskInv, ~loose, NEW f \in File, NEW v, Put(f, v), UNCHANGED plan,
         NEW r \in 0..Len(plan), run' = r, Good(live, spoilt, plan, r), Good([live EXCEPT ![f] = v], spoilt, plan, r)
  PROVE  DiskInv'
<1>1. /\ op.at = "none" /\ UNCHANGED <<live, disk, loose, spoilt>>
      /\ op'.at = "written" /\ op'.file = f /\ op'.value = v
  BY DEF Put
<1>2. \A g \in File : disk'[g] = {live'[g]}
  BY <1>1 DEF DiskInv
<1>3. \A g \in File : [live EXCEPT ![f] = live[f]][g] = live[g]
  BY DEF IInv, TypeOK
<1>4. Good([live EXCEPT ![f] = live[f]], spoilt, plan, r)
  BY <1>3, SameFiles
<1>5. ASSUME NEW u \in disk'[f] \cup {v} PROVE Good([live' EXCEPT ![f] = u], spoilt', plan', run')
  <2>1. u = live[f] \/ u = v
    BY <1>1, <1>2
  <2>2. Good([live EXCEPT ![f] = u], spoilt, plan, r)
    BY <1>4, <2>1
  <2> QED
    BY <1>1, <2>2
<1> QED
  BY <1>1, <1>2, <1>5 DEF DiskInv

\* A file is removed.
LEMMA DiskUnlink ==
  ASSUME IInv, BegunInv, DiskInv, ~loose, NEW f \in File, Unlink(f), UNCHANGED <<plan, run>>,
         Good([live EXCEPT ![f] = Absent], spoilt, plan, run)
  PROVE  DiskInv'
<1>1. /\ op.at = "none" /\ UNCHANGED <<loose, spoilt>> /\ live' = [live EXCEPT ![f] = Absent]
      /\ disk' = [disk EXCEPT ![f] = disk[f] \cup {Absent}]
      /\ op'.at = "named" /\ op'.file = f /\ op'.value = Absent
  BY DEF Unlink, NoOp
<1>2. \A g \in File : disk[g] = {live[g]}
  BY <1>1 DEF DiskInv
<1>3. disk'[f] = {live[f], Absent} /\ \A g \in File : g = f \/ disk'[g] = {live'[g]}
  BY <1>1, <1>2 DEF IInv, TypeOK
<1>4. run \in 0..Len(plan) /\ Good(live, spoilt, plan, run)
  BY Stack DEF DiskInv
<1>5. /\ \A g \in File : [live' EXCEPT ![f] = live[f]][g] = live[g]
      /\ \A g \in File : [live' EXCEPT ![f] = Absent][g] = [live EXCEPT ![f] = Absent][g]
  BY <1>1 DEF IInv, TypeOK
<1>6. Good([live' EXCEPT ![f] = live[f]], spoilt, plan, run) /\ Good([live' EXCEPT ![f] = Absent], spoilt, plan, run)
  BY <1>4, <1>5, SameFiles
<1>7. \A u \in disk'[f] \cup {Absent} : Good([live' EXCEPT ![f] = u], spoilt', plan', run')
  BY <1>1, <1>3, <1>6
<1> QED
  BY <1>1, <1>3, <1>7 DEF DiskInv

\* A file gets its name: it was one of the ways already.
LEMMA DiskName ==
  ASSUME IInv, BegunInv, DiskInv, ~loose, Name
  PROVE  DiskInv'
<1>1. PICK f \in File : f = op.file
  BY DEF IInv, OpType
<1>2. PICK v : v = op.value
  OBVIOUS
<1>3. /\ op.at = "flushed" /\ ~op.torn /\ UNCHANGED <<plan, run, loose, spoilt>> /\ live' = [live EXCEPT ![f] = v]
      /\ op'.at = "named" /\ op'.file = f /\ op'.value = v
  BY <1>1, <1>2 DEF Name, IInv, OpType, OpOK
<1>4. disk' = [disk EXCEPT ![f] = disk[f] \cup {v}]
  <2>1. disk' = [disk EXCEPT ![f] = disk[f] \cup {v} \cup (IF op.torn THEN {Torn} ELSE {})]
    BY <1>1, <1>2 DEF Name
  <2>2. disk[f] \cup {v} \cup (IF op.torn THEN {Torn} ELSE {}) = disk[f] \cup {v}
    BY <1>3
  <2> QED
    BY <2>1, <2>2
<1>5. \A g \in File : disk[g] = {live[g]}
  BY <1>3 DEF DiskInv
<1>6. disk'[f] = {live[f], v} /\ \A g \in File : g = f \/ disk'[g] = {live'[g]}
  BY <1>3, <1>4, <1>5 DEF IInv, TypeOK
<1>7. run \in 0..Len(plan) /\ \A u \in disk[f] \cup {v} : Good([live EXCEPT ![f] = u], spoilt, plan, run)
  BY <1>1, <1>2, <1>3, Stack DEF DiskInv
<1>8. Good(live', spoilt', plan', run')
  BY <1>3, <1>7
<1>9. ASSUME NEW u \in disk'[f] \cup {v} PROVE Good([live' EXCEPT ![f] = u], spoilt', plan', run')
  <2>1. \A g \in File : [live' EXCEPT ![f] = u][g] = [live EXCEPT ![f] = u][g]
    BY <1>3 DEF IInv, TypeOK
  <2>2. Good([live EXCEPT ![f] = u], spoilt, plan, run)
    BY <1>5, <1>6, <1>7
  <2>3. Good([live' EXCEPT ![f] = u], spoilt, plan, run)
    BY <1>7, <2>1, <2>2, SameFiles
  <2> QED
    BY <1>3, <2>3
<1> QED
  BY <1>3, <1>6, <1>8, <1>9 DEF DiskInv

\* What the loss of the directories in cut makes of the floor.
LEMMA Cut ==
  ASSUME IInv, NEW cut, NEW k \in Spoilt(cut)
  PROVE  /\ k \in Nat /\ spoilt <= k /\ k <= Len(plan)
         /\ \A r \in Known : RunDir(r) \in cut => r <= k
         /\ (\E p \in Nested : TargetFolder(p) \in cut) => k = Len(plan)
<1>1. Len(plan) \in Nat /\ spoilt \in 0..Len(plan) /\ Known = 1..Len(plan)
  BY KnownRuns DEF IInv, TypeOK, Known
<1>2. CASE \E p \in Nested : TargetFolder(p) \in cut
  BY <1>1, <1>2 DEF Spoilt
<1>3. CASE ~\E p \in Nested : TargetFolder(p) \in cut
  <2>1. k \in {spoilt} \cup Known /\ k >= spoilt /\ \A r \in Known : RunDir(r) \in cut => k >= r
    BY <1>3 DEF Spoilt
  <2> QED
    BY <1>1, <1>3, <2>1
<1> QED
  BY <1>2, <1>3

\* After a loss of power the files are one of the ways they could be, less the
\* directories that are lost.
LEMMA DiskPowerLoss ==
  ASSUME IInv, BegunInv, DiskInv, ~loose, PowerLoss
  PROVE  DiskInv'
<1>1. PICK cut \in SUBSET fresh, kept \in [Unsettled -> UNION {disk[f] : f \in Unsettled}] :
        /\ \A f \in Unsettled : kept[f] \in disk[f]
        /\ live' = [f \in File |-> IF Homes(f) \cap cut # {} THEN Absent
                                   ELSE IF f \in Unsettled THEN kept[f] ELSE live[f]]
        /\ spoilt' \in Spoilt(cut)
  BY DEF PowerLoss
<1> DEFINE m == [f \in File |-> IF f \in Unsettled THEN kept[f] ELSE live[f]]
<1>2. /\ \A f \in File : m[f] \in disk[f]
      /\ \A f \in File : live'[f] = IF Homes(f) \cap cut # {} THEN Absent ELSE m[f]
  BY <1>1 DEF IInv, TypeOK
<1> HIDE DEF m
<1>3. /\ op'.at = "none" /\ UNCHANGED <<plan, run, loose>> /\ \A f \in File : disk'[f] = {live'[f]}
  BY DEF PowerLoss, Halt, NoOp
<1>4. run \in 0..Len(plan) /\ Good(live, spoilt, plan, run)
  BY Stack DEF DiskInv
<1>5. Good(m, spoilt, plan, run)
  <2>1. CASE op.at = "named"
    <3>1. PICK g \in File : g = op.file
      BY DEF IInv, OpType
    <3>2. \A f \in File : m[f] = [live EXCEPT ![g] = m[g]][f]
      BY <1>2, <3>1 DEF DiskInv, IInv, TypeOK
    <3>3. Good([live EXCEPT ![g] = m[g]], spoilt, plan, run)
      BY <1>2, <2>1, <3>1 DEF DiskInv
    <3> QED
      BY <1>4, <3>2, <3>3, SameFiles
  <2>2. CASE op.at # "named"
    <3>1. \A f \in File : m[f] = live[f]
      BY <1>2, <2>2 DEF DiskInv
    <3> QED
      BY <1>4, <3>1, SameFiles
  <2> QED
    BY <2>1, <2>2
<1>6. /\ spoilt' \in Nat /\ spoilt <= spoilt' /\ spoilt' <= Len(plan)
      /\ \A r \in Known : RunDir(r) \in cut => r <= spoilt'
      /\ (\E p \in Nested : TargetFolder(p) \in cut) => spoilt' = Len(plan)
  BY <1>1, Cut
<1>7. live'[Baseline] = m[Baseline]
  BY <1>2, Roles, Homes1
<1>8. ASSUME NEW s \in 1..Len(plan)
      PROVE  live'[Journal(s)] = m[Journal(s)] \/ (live'[Journal(s)] = Absent /\ s <= spoilt')
  <2>1. s \in Known /\ Journal(s) \in File /\ Homes(Journal(s)) = {RunDir(s)}
    BY Stack, Homes1
  <2> QED
    BY <1>2, <1>6, <2>1
<1>9. spoilt' = Len(plan) \/ \A p \in Paths : live'[Target(p)] = m[Target(p)]
  <2>1. \A p \in Paths : Target(p) \in File /\ (Homes(Target(p)) = {} \/ (p \in Nested /\ Homes(Target(p)) = {TargetFolder(p)}))
    BY Roles, Homes1
  <2> QED
    BY <1>2, <1>6, <2>1
<1>10. Good(live', spoilt', plan, run)
  BY <1>5, <1>6, <1>7, <1>8, <1>9, Stack, GoodLoss
<1> QED
  BY <1>3, <1>10 DEF DiskInv

\* A run whose command works on it, past its preparation, is begun and the newest.
LEMMA WorkingRun ==
  ASSUME IInv, BegunInv, DiskInv, ~loose, Working, NEW x \in Phases \ {"RolledBack"}, Says(live, run, x)
  PROVE  /\ run \in Known /\ run \in 1..Len(plan) /\ run \in Runs /\ PlansOK(plan) /\ spoilt \in Nat
         /\ Alive(live, 0, run) /\ Good(live, spoilt, plan, run)
<1>1. run \in Known /\ run \in 1..Len(plan) /\ PlansOK(plan) /\ run > 0 /\ run \in Runs /\ spoilt \in Nat
  BY Stack DEF IInv, Control, PlansOK
<1> QED
  BY <1>1, Marks DEF DiskInv

\* Such a run writes a target file or the baseline.
LEMMA FileSound ==
  ASSUME IInv, BegunInv, DiskInv, ~loose, Working, NEW x \in Phases \ {"Applied", "RolledBack"}, Says(live, run, x),
         NEW f, NEW v,
         \/ \E p \in Paths : f = Target(p) /\ v \in {plan[run].before[p], plan[run].after[p]}
         \/ f = Baseline /\ v \in {[run |-> run], plan[run].prev}
  PROVE  f \in File /\ Good([live EXCEPT ![f] = v], spoilt, plan, run)
<1> DEFINE m == [live EXCEPT ![f] = v]
<1>1. f \in File /\ \A r \in Runs : f # Journal(r)
  BY Roles
<1>2. m[f] = v /\ \A g \in File : g # f => m[g] = live[g]
  BY <1>1 DEF IInv, TypeOK
<1> HIDE DEF m
<1>3. /\ run \in Runs /\ run \in 1..Len(plan) /\ PlansOK(plan) /\ spoilt \in Nat
      /\ Alive(live, 0, run) /\ Good(live, spoilt, plan, run)
  BY WorkingRun
<1>4. \A r \in Runs : m[Journal(r)] = live[Journal(r)]
  BY <1>1, <1>2, Roles
<1>5. \A p \in Paths : m[Target(p)] \in {plan[run].before[p], plan[run].after[p], live[Target(p)]}
  BY <1>2, Roles
<1>6. m[Baseline] \in {[run |-> run], plan[run].prev, live[Baseline]}
  BY <1>2, Roles
<1>7. Says(m, run, x) /\ x \in Phases \ {"RolledBack"} /\ x # "Applied"
  BY <1>3, <1>4 DEF Says
<1>8. \A s \in 1..Len(plan) : s # run => m[Journal(s)] = live[Journal(s)]
  BY <1>3, <1>4 DEF PlansOK
<1>9. Good(m, spoilt, plan, run)
  BY <1>3, <1>5, <1>6, <1>7, <1>8, GoodTop
<1> QED
  BY <1>1, <1>9 DEF m

\* The newest run that is not rolled back writes its journal, short of closing it.
LEMMA MarkSound ==
  ASSUME IInv, BegunInv, NEW r \in Known, NEW y \in Phases \ {"RolledBack"},
         Good(live, spoilt, plan, r), Alive(live, 0, r),
         y = "Applied" => /\ live[Baseline] = [run |-> r]
                          /\ \A p \in Paths : live[Target(p)] = plan[r].after[p]
  PROVE  Journal(r) \in File /\ Good([live EXCEPT ![Journal(r)] = [phase |-> y]], spoilt, plan, r)
<1> DEFINE m == [live EXCEPT ![Journal(r)] = [phase |-> y]]
<1>1. r \in Runs /\ r \in 1..Len(plan) /\ Journal(r) \in File /\ PlansOK(plan) /\ spoilt \in Nat
  BY Stack DEF PlansOK
<1>2. m[Journal(r)] = [phase |-> y] /\ \A g \in File : g # Journal(r) => m[g] = live[g]
  BY <1>1 DEF IInv, TypeOK
<1> HIDE DEF m
<1>3. Says(m, r, y)
  BY <1>2 DEF Says
<1>4. /\ \A s \in 1..Len(plan) : s # r => m[Journal(s)] = live[Journal(s)]
      /\ \A p \in Paths : m[Target(p)] = live[Target(p)]
      /\ m[Baseline] = live[Baseline]
  BY <1>1, <1>2, Roles DEF PlansOK
<1>5. /\ m[Baseline] \in {[run |-> r], plan[r].prev, live[Baseline]}
      /\ \A p \in Paths : m[Target(p)] \in {plan[r].before[p], plan[r].after[p], live[Target(p)]}
      /\ y = "Applied" => m[Baseline] = [run |-> r] /\ \A p \in Paths : m[Target(p)] = plan[r].after[p]
  BY <1>4
<1>6. Good(m, spoilt, plan, r)
  BY <1>1, <1>3, <1>4, <1>5, GoodTop
<1> QED
  BY <1>1, <1>6 DEF m

\* The steps that write a journal.
LEMMA DiskJournal ==
  ASSUME IInv, BegunInv, DiskInv, PcInv, ~loose,
         \/ ApplyPrepare \/ ApplyStart \/ ApplyRecord \/ ApplyFinish \/ RollbackFinish
         \/ \E r \in Known : RollbackBegin(r)
  PROVE  DiskInv'
<1>1. /\ run \in 0..Len(plan) /\ Good(live, spoilt, plan, run) /\ PlansOK(plan) /\ Known = 1..Len(plan)
      /\ spoilt \in Nat
  BY Stack DEF DiskInv
<1>2. ASSUME NEW x \in Phases \ {"RolledBack"}, NEW y \in Phases \ {"RolledBack"},
             Working, Says(live, run, x), SetPhase(y), UNCHANGED <<plan, run>>,
             y = "Applied" => /\ live[Baseline] = [run |-> run]
                              /\ \A p \in Paths : live[Target(p)] = plan[run].after[p]
      PROVE  DiskInv'
  <2>1. run \in Known /\ Alive(live, 0, run) /\ Good(live, spoilt, plan, run)
    BY <1>2, WorkingRun
  <2>2. Journal(run) \in File /\ Good([live EXCEPT ![Journal(run)] = [phase |-> y]], spoilt, plan, run)
    BY <1>2, <2>1, MarkSound
  <2> QED
    BY <1>1, <1>2, <2>2, DiskPut DEF SetPhase
<1>3. CASE ApplyPrepare
  <2> DEFINE m == [live EXCEPT ![Journal(run)] = [phase |-> "Prepared"]]
  <2>1. /\ pc = "stage" /\ run \in Known /\ run = Len(plan) /\ live[Baseline] = plan[run].prev
        /\ \A p \in Paths : live[Target(p)] = plan[run].before[p]
        /\ \A r \in Known : Alive(live, 0, r) => Says(live, r, "Applied")
    BY <1>3 DEF ApplyPrepare, PcInv, IInv, Control
  <2>2. run \in Runs /\ Journal(run) \in File /\ live[Journal(run)] = Absent
    <3>1. run \in Runs /\ Journal(run) \in File /\ disk[Journal(run)] = {Absent}
      BY <1>1, <2>1, Roles DEF PlansOK, IInv, Control
    <3> QED
      BY <3>1 DEF IInv, TypeOK
  <2>3. m[Journal(run)] = [phase |-> "Prepared"] /\ \A g \in File : g # Journal(run) => m[g] = live[g]
    BY <2>2 DEF IInv, TypeOK
  <2> HIDE DEF m
  <2>4. AgreeBut(live, m, plan, run)
    BY <1>1, <2>2, <2>3, Roles DEF AgreeBut, PlansOK
  <2>5. Says(m, run, "Prepared") /\ run # 0
    BY <1>1, <2>1, <2>3 DEF Says, PlansOK
  <2>6. \A s \in 1..Len(plan) : Alive(live, 0, s) => Says(live, s, "Applied")
    BY <1>1, <2>1
  <2>7. Good(m, spoilt, plan, run)
    BY <1>1, <2>1, <2>2, <2>4, <2>5, <2>6, GoodPush
  <2> QED
    BY <1>1, <1>3, <2>2, <2>7, DiskPut DEF ApplyPrepare, SetPhase, m
<1>4. CASE ApplyStart
  <2>1. pc = "start" /\ op.at = "none" /\ SetPhase("Applying") /\ UNCHANGED <<plan, run>>
    BY <1>4 DEF ApplyStart, SetPhase, Put
  <2>2. Working /\ Says(live, run, "Prepared")
    BY <2>1 DEF PcInv, Sure, Writing, Working
  <2> QED
    BY <1>2, <2>1, <2>2 DEF Phases
<1>5. CASE ApplyRecord
  <2>1. pc = "record" /\ SetPhase("Applying") /\ UNCHANGED <<plan, run>>
    BY <1>5 DEF ApplyRecord
  <2>2. Working /\ Says(live, run, "Applying")
    BY <2>1 DEF PcInv, Working
  <2> QED
    BY <1>2, <2>1, <2>2 DEF Phases
<1>6. CASE ApplyFinish
  <2>1. pc = "finish" /\ op.at = "none" /\ SetPhase("Applied") /\ UNCHANGED <<plan, run>>
    BY <1>6 DEF ApplyFinish, SetPhase, Put
  <2>2. /\ Working /\ Says(live, run, "Applying") /\ live[Baseline] = [run |-> run]
        /\ \A p \in Paths : live[Target(p)] = plan[run].after[p]
    BY <2>1 DEF PcInv, Working, Writing
  <2> QED
    BY <1>2, <2>1, <2>2 DEF Phases
<1>7. CASE RollbackFinish
  <2> DEFINE m == [live EXCEPT ![Journal(run)] = [phase |-> "RolledBack"]]
  <2>1. /\ pc = "rolled" /\ op.at = "none" /\ Put(Journal(run), [phase |-> "RolledBack"]) /\ UNCHANGED <<plan, run>>
    BY <1>7 DEF RollbackFinish, SetPhase, Put
  <2>2. /\ Working /\ Says(live, run, "RollingBack") /\ live[Baseline] = plan[run].prev
        /\ run > spoilt => \A p \in Paths : live[Target(p)] = plan[run].before[p]
    BY <2>1 DEF PcInv, Working, Writing
  <2>3. run \in Runs /\ run \in 1..Len(plan) /\ Alive(live, 0, run) /\ Journal(run) \in File
    BY <2>2, WorkingRun, Roles DEF Phases
  <2>4. m[Journal(run)] = [phase |-> "RolledBack"] /\ \A g \in File : g # Journal(run) => m[g] = live[g]
    BY <2>3 DEF IInv, TypeOK
  <2> HIDE DEF m
  <2>5. AgreeBut(live, m, plan, run) /\ Says(m, run, "RolledBack")
    BY <1>1, <2>3, <2>4, Roles DEF AgreeBut, PlansOK, Says
  <2>6. Good(m, spoilt, plan, run)
    BY <1>1, <2>2, <2>3, <2>5, GoodPop
  <2> QED
    BY <1>1, <2>1, <2>3, <2>6, DiskPut DEF m
<1>8. ASSUME NEW r \in Known, RollbackBegin(r)
      PROVE  DiskInv'
  <2>1. /\ HasJournal(r) /\ Phase(r) # "RolledBack" /\ UNCHANGED plan /\ run' = r
        /\ \A s \in Known : s > r /\ HasJournal(s) => Phase(s) = "RolledBack"
        /\ \A s \in Known : live[Journal(s)] # Torn
        /\ Put(Journal(r), [phase |-> "RollingBack"])
    BY <1>8 DEF RollbackBegin
  <2>2. Alive(live, 0, r) /\ r \in 1..Len(plan) /\ r \in 0..Len(plan)
    <3>1. live[Journal(r)] # Absent /\ ~Says(live, r, "RolledBack")
      BY <2>1, Records DEF HasJournal, Phase, Says, Phases
    <3> QED
      BY <1>1, <3>1 DEF Alive, PlansOK
  <2>3. \A s \in Known : s > r => ~Alive(live, 0, s)
    <3> SUFFICES ASSUME NEW s \in Known, s > r, live[Journal(s)] # Absent PROVE Says(live, s, "RolledBack")
      BY DEF Alive
    <3>1. live[Journal(s)].phase = "RolledBack"
      BY <2>1 DEF HasJournal, Phase
    <3>2. live[Journal(s)] \in Journals
      BY Stack
    <3> QED
      BY <3>1, <3>2, Records DEF Says
  <2>4. Good(live, spoilt, plan, r)
    <3>1. Latest(live, spoilt, plan, r)
      BY <1>1, <2>2, <2>3 DEF Latest, Alive
    <3> QED
      BY <1>1, <3>1 DEF Good
  <2>5. Journal(r) \in File /\ Good([live EXCEPT ![Journal(r)] = [phase |-> "RollingBack"]], spoilt, plan, r)
    <3>1. "RollingBack" \in Phases \ {"RolledBack"} /\ "RollingBack" # "Applied"
      BY DEF Phases
    <3> QED
      BY <2>2, <2>4, <3>1, MarkSound
  <2> QED
    BY <2>1, <2>2, <2>4, <2>5, DiskPut
<1> QED
  BY <1>3, <1>4, <1>5, <1>6, <1>7, <1>8

\* What is restored is what the run found.
LEMMA Restored ==
  ASSUME IInv, PcInv, ~loose, NEW p \in Paths, Restore(p)
  PROVE  live[Backup(run, p)] = plan[run].before[p]
<1>1. pc = "restore" /\ p \in Changes(run) /\ plan[run].before[p] # Absent /\ Working
  BY DEF Restore, PcInv, Working
<1>2. run \in Runs /\ disk[Backup(run, p)] = {plan[run].before[p]}
  <2>1. run \in Known /\ BackedUp(run) /\ Housed(run)
    BY <1>1 DEF IInv, Control
  <2> QED
    BY <1>1, <2>1, KnownRuns DEF IInv, BackedUp, Housed
<1> QED
  BY <1>2, Roles DEF IInv, TypeOK

\* The newest run that is not rolled back, where no lost directory spoilt it, is the top one.
LEMMA GoodTops ==
  ASSUME NEW l, NEW k \in Nat, NEW pl, NEW r \in 1..Len(pl), PlansOK(pl), Good(l, k, pl, r), Alive(l, 0, r), r > k
  PROVE  Tops(l, pl, r)
<1>1. Sound(l, k, pl) /\ Latest(l, k, pl, r) /\ r # 0 /\ Len(pl) \in Nat
  BY DEF PlansOK, Good
<1>2. Alive(l, k, r) /\ \A s \in 1..Len(pl) : s > r => ~Alive(l, k, s)
  BY <1>1, Floor DEF Latest
<1> QED
  BY <1>1, <1>2, OneTop

\* The steps that write or remove another file.
LEMMA DiskFile ==
  ASSUME IInv, BegunInv, DiskInv, PcInv, ~loose,
         \/ ApplyBaseline \/ RollbackBaseline
         \/ \E p \in Paths : BackUp(p) \/ Install(p) \/ Restore(p) \/ RestoreRemove(p)
  PROVE  DiskInv'
<1>1. run \in 0..Len(plan) /\ Good(live, spoilt, plan, run) /\ PlansOK(plan) /\ Known = 1..Len(plan)
  BY Stack DEF DiskInv
<1>2. CASE ApplyBaseline
  <2>1. pc = "install" /\ op.at = "none" /\ Put(Baseline, [run |-> run]) /\ UNCHANGED <<plan, run>>
    BY <1>2 DEF ApplyBaseline, Put
  <2>2. Working /\ Says(live, run, "Applying") /\ "Applying" \in Phases \ {"Applied", "RolledBack"}
    BY <2>1 DEF PcInv, Sure, Writing, Working, Phases
  <2>3. Baseline \in File /\ Good([live EXCEPT ![Baseline] = [run |-> run]], spoilt, plan, run)
    BY <2>2, FileSound
  <2> QED
    BY <1>1, <2>1, <2>3, DiskPut
<1>3. CASE RollbackBaseline
  <2>1. pc = "restore" /\ op.at = "none" /\ UNCHANGED <<plan, run>>
    BY <1>3 DEF RollbackBaseline, Put, Unlink
  <2>2. Working /\ Says(live, run, "RollingBack") /\ "RollingBack" \in Phases \ {"Applied", "RolledBack"}
    BY <2>1 DEF PcInv, Sure, Writing, Working, Phases
  <2>3. Baseline \in File /\ Good([live EXCEPT ![Baseline] = plan[run].prev], spoilt, plan, run)
    BY <2>2, FileSound
  <2>4. CASE Put(Baseline, plan[run].prev)
    BY <1>1, <2>1, <2>3, <2>4, DiskPut
  <2>5. CASE Unlink(Baseline) /\ plan[run].prev = Absent
    BY <2>1, <2>3, <2>5, DiskUnlink
  <2>6. CASE UNCHANGED <<live, disk, dirs, fresh, op, stops, installed, loose, spoilt>>
    BY <2>1, <2>6 DEF DiskInv
  <2> QED
    BY <1>3, <2>4, <2>5, <2>6 DEF RollbackBaseline
<1>4. ASSUME NEW p \in Paths, BackUp(p)
      PROVE  DiskInv'
  <2>1. pc = "stage" /\ UNCHANGED <<plan, run>>
    BY <1>4 DEF BackUp
  <2>2. run \in Runs /\ Backup(run, p) \in File
    BY <1>1, <2>1, Roles DEF PlansOK, IInv, Control
  <2>3. CASE Put(Backup(run, p), live[Target(p)])
    BY <1>1, <2>1, <2>2, <2>3, Aside, DiskPut
  <2>4. CASE op.at = "none" /\ UNCHANGED <<live, disk, dirs, fresh, op, stops, installed, loose, spoilt>>
    BY <2>1, <2>4 DEF DiskInv
  <2> QED
    BY <1>4, <2>3, <2>4 DEF BackUp
<1>5. ASSUME NEW p \in Paths, Install(p)
      PROVE  DiskInv'
  <2>1. pc = "install" /\ op.at = "none" /\ Put(Target(p), plan[run].after[p]) /\ UNCHANGED <<plan, run>>
    BY <1>5 DEF Install, Put
  <2>2. Working /\ Says(live, run, "Applying") /\ "Applying" \in Phases \ {"Applied", "RolledBack"}
    BY <2>1 DEF PcInv, Sure, Writing, Working, Phases
  <2>3. Target(p) \in File /\ Good([live EXCEPT ![Target(p)] = plan[run].after[p]], spoilt, plan, run)
    BY <2>2, FileSound
  <2> QED
    BY <1>1, <2>1, <2>3, DiskPut
<1>6. ASSUME NEW p \in Paths, Restore(p) \/ RestoreRemove(p)
      PROVE  DiskInv'
  <2>1. pc = "restore" /\ op.at = "none" /\ p \in todo /\ UNCHANGED <<plan, run>>
    <3>1. CASE Restore(p)
      BY <3>1 DEF Restore, Put
    <3>2. CASE RestoreRemove(p)
      <4>1. Unlink(Target(p)) /\ pc = "restore" /\ p \in todo /\ UNCHANGED <<plan, run>>
        BY <3>2 DEF RestoreRemove
      <4>2. op.at = "none"
        BY <4>1 DEF Unlink
      <4> QED
        BY <4>1, <4>2
    <3> QED
      BY <1>6, <3>1, <3>2
  <2>2. Working /\ Says(live, run, "RollingBack") /\ "RollingBack" \in Phases \ {"Applied", "RolledBack"}
    BY <2>1 DEF PcInv, Sure, Writing, Working, Phases
  <2>3. Target(p) \in File /\ Good([live EXCEPT ![Target(p)] = plan[run].before[p]], spoilt, plan, run)
    BY <2>2, FileSound
  <2>4. CASE Restore(p)
    <3>1. live[Backup(run, p)] = plan[run].before[p]
      BY <2>1, <2>2, <2>4, Restored
    <3>2. Put(Target(p), plan[run].before[p])
      BY <2>4, <3>1 DEF Restore
    <3> QED
      BY <1>1, <2>1, <2>3, <3>2, DiskPut
  <2>5. CASE RestoreRemove(p)
    <3>1. Unlink(Target(p)) /\ plan[run].before[p] = Absent
      BY <2>5 DEF RestoreRemove
    <3> QED
      BY <2>1, <2>3, <3>1, DiskUnlink
  <2> QED
    BY <1>6, <2>4, <2>5
<1> QED
  BY <1>2, <1>3, <1>4, <1>5, <1>6

\* A loose name stays loose, and a stop before a directory is flushed makes one.
LEMMA LooseKept ==
  ASSUME [Next]_vars, ~loose'
  PROVE  ~loose /\ (op.at = "named" => ~Stop)
<1>1. CASE Stop
  BY <1>1 DEF Stop
<1>2. ASSUME ~Stop PROVE loose' = loose
  <2>1. \A f, v : Put(f, v) \/ Unlink(f) => loose' = loose
    BY DEF Put, Unlink
  <2>2. CASE Flush \/ Name \/ SyncParent \/ PowerLoss \/ Report \/ UNCHANGED vars
    BY <2>2 DEF vars, Flush, Name, SyncParent, PowerLoss, Report
  <2>3. CASE \E after \in [Paths -> Contents \cup {Absent}] : ApplyBegin(after)
    BY <2>3 DEF ApplyBegin
  <2>4. CASE \E p \in Paths : BackUp(p) \/ Install(p) \/ RestoreSkip(p) \/ Restore(p) \/ RestoreRemove(p)
    BY <2>1, <2>4 DEF BackUp, Install, RestoreSkip, Restore, RestoreRemove
  <2>5. CASE ApplyPrepare \/ ApplyStart \/ ApplyRecord \/ ApplyBaseline \/ ApplyFinish
    BY <2>1, <2>5 DEF ApplyPrepare, ApplyStart, ApplyRecord, ApplyBaseline, ApplyFinish, SetPhase
  <2>6. CASE (\E r \in Known : RollbackBegin(r)) \/ RollbackBaseline \/ RollbackFinish
    BY <2>1, <2>6 DEF RollbackBegin, RollbackBaseline, RollbackFinish, SetPhase
  <2> QED
    BY <1>2, <2>2, <2>3, <2>4, <2>5, <2>6 DEF Next
<1> QED
  BY <1>1, <1>2

\* The other steps, and hence every step.
LEMMA DiskStep ==
  ASSUME IInv, BegunInv, DiskInv, PcInv, [Next]_vars
  PROVE  DiskInv'
<1> SUFFICES ASSUME ~loose' PROVE DiskInv'
  BY DEF DiskInv
<1>1. ~loose /\ (op.at = "named" => ~Stop)
  BY LooseKept
<1>2. CASE Flush
  <2>1. /\ op.at = "written" /\ op'.at = "flushed" /\ op'.file = op.file /\ op'.value = op.value
        /\ UNCHANGED <<live, disk, plan, run, loose, spoilt>>
    BY <1>2 DEF Flush, IInv, OpType
  <2> QED
    BY <2>1 DEF DiskInv
<1>3. CASE SyncParent
  <2>1. /\ op.at = "named" /\ op'.at = "none" /\ UNCHANGED <<live, plan, run, loose, spoilt>> /\ op.file \in File
        /\ disk' = [disk EXCEPT ![op.file] = {live[op.file]}]
    BY <1>3 DEF SyncParent, NoOp, IInv, OpType
  <2>2. \A f \in File : disk'[f] = {live'[f]}
    BY <1>1, <2>1 DEF DiskInv, IInv, TypeOK
  <2> QED
    BY <1>1, <2>1, <2>2 DEF DiskInv
<1>4. CASE Stop
  <2>1. op.at # "named" /\ op'.at = "none" /\ UNCHANGED <<live, disk, plan, run, spoilt>>
    BY <1>1, <1>4 DEF Stop, Halt, NoOp
  <2> QED
    BY <1>1, <2>1 DEF DiskInv
<1>5. CASE Report \/ \E p \in Paths : RestoreSkip(p)
  <2>1. UNCHANGED <<live, disk, plan, run, op, loose, spoilt>>
    BY <1>5 DEF Report, RestoreSkip
  <2> QED
    BY <2>1 DEF DiskInv
<1>6. ASSUME NEW after \in [Paths -> Contents \cup {Absent}], ApplyBegin(after)
      PROVE  DiskInv'
  <2> DEFINE new == [before |-> [p \in Paths |-> live[Target(p)]], after |-> after, prev |-> live[Baseline]]
  <2>1. PICK k : k = Len(plan) + 1
    OBVIOUS
  <2>2. /\ op.at = "none" /\ plan' = Append(plan, new) /\ run' = k /\ UNCHANGED <<live, disk, op, loose, spoilt>>
        /\ Len(plan) < MaxRuns
    BY <1>6, <2>1 DEF ApplyBegin, IInv, Control
  <2>3. PlansOK(plan) /\ Len(plan) \in Nat /\ spoilt \in Nat
    BY Stack DEF PlansOK
  <2> HIDE DEF new
  <2>4. Len(plan') = k /\ \A s \in 1..Len(plan) : plan'[s] = plan[s]
    BY <2>1, <2>2, <2>3, AppendProperties DEF IInv
  <2>5. k \in Runs /\ k \notin Known
    BY <2>1, <2>2, <2>3, BoundsAssumption DEF Runs, Known
  <2>6. live[Journal(k)] = Absent
    <3>1. Journal(k) \in File /\ disk[Journal(k)] = {Absent}
      BY <2>5, Roles DEF IInv, JournalLast
    <3> QED
      BY <3>1 DEF IInv, TypeOK
  <2>7. Good(live, spoilt, plan', k)
    BY <1>1, <2>1, <2>3, <2>4, <2>6, GoodExtend DEF DiskInv, Good
  <2> QED
    BY <1>1, <2>2, <2>7 DEF DiskInv
<1>7. CASE UNCHANGED vars
  BY <1>1, <1>7 DEF vars, DiskInv
<1> QED
  BY <1>1, <1>2, <1>3, <1>4, <1>5, <1>6, <1>7, DiskName, DiskPowerLoss, DiskJournal, DiskFile DEF Next

-----------------------------------------------------------------------------
(* What a command knows *)

\* The steps of a file that is being written.
LEMMA PcFile ==
  ASSUME IInv, BegunInv, PcInv, ~loose, Flush \/ Name \/ SyncParent
  PROVE  PcInv'
<1>1. op.at # "none" /\ op.file \in File /\ UNCHANGED <<plan, pc, run, todo, spoilt>>
  BY DEF Flush, Name, SyncParent, IInv, OpType
<1>2. \A f \in File : f # op.file => live'[f] = live[f]
  BY DEF Flush, Name, SyncParent, IInv, TypeOK
<1>3. \/ op'.at # "none" /\ op'.file = op.file /\ op'.value = op.value
      \/ op'.at = "none" /\ live'[op.file] = op.value
  <2>1. CASE Flush \/ Name
    BY <2>1 DEF Flush, Name, IInv, OpType
  <2>2. CASE SyncParent
    BY <2>2 DEF SyncParent, NoOp, IInv, OpOK
  <2> QED
    BY <2>1, <2>2
<1>4. ASSUME NEW f \in File, NEW x, IF Writing(f) THEN op.value = x ELSE live[f] = x
      PROVE  IF op'.at # "none" /\ op'.file = f THEN op'.value = x ELSE live'[f] = x
  BY <1>1, <1>2, <1>3, <1>4 DEF Writing
<1>5. \A f \in File : ~Writing(f) => live'[f] = live[f] /\ ~Writing(f)'
  BY <1>1, <1>2, <1>3 DEF Writing
<1>6. pc # "idle" => run \in Runs /\ run \in Known /\ Journal(run) \in File
  BY KnownRuns, Roles DEF IInv, Control, Working
<1>7. ASSUME NEW x, pc # "idle", Sure(x) PROVE Sure(x)'
  <2>1. IF Writing(Journal(run)) THEN op.value = [phase |-> x] ELSE live[Journal(run)] = [phase |-> x]
    BY <1>7 DEF Sure, Says
  <2>2. IF op'.at # "none" /\ op'.file = Journal(run) THEN op'.value = [phase |-> x] ELSE live'[Journal(run)] = [phase |-> x]
    BY <1>4, <1>6, <1>7, <2>1
  <2> QED
    BY <1>1, <2>2 DEF Sure, Says, Writing
<1>8. pc = "stage" =>
        /\ run = Len(plan) /\ live'[Baseline] = plan[run].prev
        /\ \A p \in Paths : live'[Target(p)] = plan[run].before[p]
        /\ \A r \in Known : Alive(live', 0, r) => Says(live', r, "Applied")
  <2> SUFFICES ASSUME pc = "stage"
               PROVE  /\ run = Len(plan) /\ live'[Baseline] = plan[run].prev
                      /\ \A p \in Paths : live'[Target(p)] = plan[run].before[p]
                      /\ \A r \in Known : Alive(live', 0, r) => Says(live', r, "Applied")
    OBVIOUS
  <2>1. PICK q \in Paths : op.file = Backup(run, q)
    BY <1>1 DEF IInv, OpOK, Working
  <2>2. /\ live'[Baseline] = live[Baseline] /\ \A p \in Paths : live'[Target(p)] = live[Target(p)]
        /\ \A r \in Known : live'[Journal(r)] = live[Journal(r)]
    BY <1>2, <1>6, <2>1, Roles, KnownRuns DEF IInv
  <2>3. \A r \in Known : Alive(live', 0, r) => Says(live', r, "Applied")
    BY <2>2 DEF PcInv, Alive, Says
  <2> QED
    BY <2>2, <2>3 DEF PcInv
<1>9. pc = "record" => Says(live', run, "Applying") /\ ~Writing(Journal(run))'
  BY <1>1, <1>5, <1>6 DEF PcInv, Says
<1>10. ASSUME NEW b, pc # "idle", IF Writing(Baseline) THEN op.value = b ELSE op.at = "none" /\ live[Baseline] = b
       PROVE  /\ IF Writing(Baseline)' THEN op'.value = b ELSE op'.at = "none" /\ live'[Baseline] = b
              /\ \A p \in Paths : live'[Target(p)] = live[Target(p)]
              /\ \A x : Says(live, run, x) => Says(live', run, x)
  <2>1. op.file = Baseline
    BY <1>1, <1>10 DEF Writing
  <2>2. /\ \A p \in Paths : live'[Target(p)] = live[Target(p)]
        /\ live'[Journal(run)] = live[Journal(run)]
    BY <1>2, <1>6, <1>10, <2>1, Roles
  <2>3. \A x : Says(live, run, x) => Says(live', run, x)
    BY <2>2 DEF Says
  <2>4. IF Writing(Baseline)' THEN op'.value = b ELSE op'.at = "none" /\ live'[Baseline] = b
    BY <1>1, <1>3, <1>10, <2>1 DEF Writing
  <2> QED
    BY <2>2, <2>3, <2>4
<1>11. pc = "finish" =>
         /\ Says(live', run, "Applying")
         /\ \A p \in Paths : live'[Target(p)] = plan[run].after[p]
         /\ IF Writing(Baseline)' THEN op'.value = [run |-> run]
            ELSE op'.at = "none" /\ live'[Baseline] = [run |-> run]
  BY <1>10 DEF PcInv
<1>12. pc = "rolled" =>
         /\ Says(live', run, "RollingBack")
         /\ run > spoilt => \A p \in Paths : live'[Target(p)] = plan[run].before[p]
         /\ IF Writing(Baseline)' THEN op'.value = plan[run].prev
            ELSE op'.at = "none" /\ live'[Baseline] = plan[run].prev
  BY <1>10 DEF PcInv
<1>13. pc = "restore" =>
         /\ todo \subseteq Changes(run)
         /\ \A p \in Paths \ todo : IF Writing(Target(p))' THEN op'.value = plan[run].before[p]
                                    ELSE live'[Target(p)] = plan[run].before[p] \/ p \notin Changes(run)
  <2> SUFFICES ASSUME pc = "restore"
               PROVE  /\ todo \subseteq Changes(run)
                      /\ \A p \in Paths \ todo : IF Writing(Target(p))' THEN op'.value = plan[run].before[p]
                            ELSE live'[Target(p)] = plan[run].before[p] \/ p \notin Changes(run)
    OBVIOUS
  <2>1. todo \subseteq Changes(run)
    BY DEF PcInv
  <2>2. ASSUME NEW p \in Paths \ todo
        PROVE  IF Writing(Target(p))' THEN op'.value = plan[run].before[p]
               ELSE live'[Target(p)] = plan[run].before[p] \/ p \notin Changes(run)
    <3>1. Target(p) \in File
      BY Roles
    <3>2. IF Writing(Target(p)) THEN op.value = plan[run].before[p]
          ELSE live[Target(p)] = plan[run].before[p] \/ p \notin Changes(run)
      BY <2>2 DEF PcInv
    <3>3. CASE Writing(Target(p))
      BY <1>1, <1>3, <3>1, <3>2, <3>3 DEF Writing
    <3>4. CASE ~Writing(Target(p))
      BY <1>5, <3>1, <3>2, <3>4
    <3> QED
      BY <3>3, <3>4
  <2> QED
    BY <2>1, <2>2
<1>14. pc = "install" => op'.at = "none" \/ Writing(Journal(run))'
  BY <1>1, <1>3 DEF PcInv, Writing
<1>15. Known' = Known /\ Changes(run)' = Changes(run)
  BY <1>1 DEF Known, Changes
<1> QED
  BY <1>1, <1>7, <1>8, <1>9, <1>11, <1>12, <1>13, <1>14, <1>15 DEF PcInv

\* The steps of apply.
LEMMA PcApply ==
  ASSUME IInv, BegunInv, DiskInv, PcInv, ~loose,
         \/ \E after \in [Paths -> Contents \cup {Absent}] : ApplyBegin(after)
         \/ \E p \in Paths : BackUp(p) \/ Install(p)
         \/ ApplyPrepare \/ ApplyStart \/ ApplyRecord \/ ApplyBaseline
  PROVE  PcInv'
<1>1. pc # "idle" => run \in Known /\ run \in Runs /\ Journal(run) \in File
  BY KnownRuns, Roles DEF IInv, Control, Working
<1>2. ASSUME NEW after \in [Paths -> Contents \cup {Absent}], ApplyBegin(after)
      PROVE  PcInv'
  <2> DEFINE new == [before |-> [p \in Paths |-> live[Target(p)]], after |-> after, prev |-> live[Baseline]]
  <2>1. PICK k : k = Len(plan) + 1
    OBVIOUS
  <2>2. /\ plan' = Append(plan, new) /\ run' = k /\ UNCHANGED live /\ pc' = "stage" /\ Len(plan) < MaxRuns
        /\ \A r \in Known : live[Journal(r)] # Torn
        /\ \A r \in Known : HasJournal(r) => Phase(r) \in {"Applied", "RolledBack"}
    BY <1>2, <2>1 DEF ApplyBegin
  <2>3. new.prev = live[Baseline] /\ \A p \in Paths : new.before[p] = live[Target(p)]
    OBVIOUS
  <2>4. PlansOK(plan) /\ Len(plan) \in Nat /\ Known = 1..Len(plan)
    BY Stack DEF PlansOK
  <2> HIDE DEF new
  <2>5. Len(plan') = k /\ plan'[k] = new
    BY <2>1, <2>2, <2>4, AppendProperties DEF IInv
  <2>6. Known' = Known \cup {k} /\ k \in Runs /\ k \notin Known
    BY <2>1, <2>2, <2>4, <2>5, BoundsAssumption DEF Known, Runs
  <2>7. ~Alive(live, 0, k)
    <3>1. Journal(k) \in File /\ disk[Journal(k)] = {Absent}
      BY <2>6, Roles DEF IInv, JournalLast
    <3> QED
      BY <3>1 DEF IInv, TypeOK, Alive
  <2>8. ASSUME NEW r \in Known, Alive(live, 0, r) PROVE Says(live, r, "Applied")
    <3>1. HasJournal(r) /\ live[Journal(r)] \in Journals /\ live[Journal(r)] # [phase |-> "RolledBack"]
      BY <2>2, <2>8, Stack DEF HasJournal, Alive, Says
    <3>2. live[Journal(r)].phase \in {"Applied", "RolledBack"} /\ live[Journal(r)] = [phase |-> live[Journal(r)].phase]
      BY <2>2, <3>1, Records DEF Phase, HasJournal
    <3> QED
      BY <3>1, <3>2 DEF Says
  <2> QED
    BY <2>2, <2>3, <2>5, <2>6, <2>7, <2>8 DEF PcInv
<1>3. ASSUME NEW p \in Paths, BackUp(p)
      PROVE  PcInv'
  <2>1. pc = "stage" /\ UNCHANGED <<live, plan, pc, run>>
    BY <1>3 DEF BackUp, Put
  <2>2. Known' = Known
    BY <2>1 DEF Known
  <2> QED
    BY <2>1, <2>2 DEF PcInv
<1>4. CASE ApplyPrepare
  <2>1. op'.at = "written" /\ op'.file = Journal(run) /\ op'.value = [phase |-> "Prepared"] /\ pc' = "start" /\ run' = run
    BY <1>4 DEF ApplyPrepare, SetPhase, Put
  <2> QED
    BY <2>1 DEF PcInv, Sure, Writing
<1>5. CASE ApplyStart \/ ApplyRecord
  <2>1. op'.at = "written" /\ op'.file = Journal(run) /\ op'.value = [phase |-> "Applying"] /\ pc' = "install" /\ run' = run
    BY <1>5 DEF ApplyStart, ApplyRecord, SetPhase, Put
  <2> QED
    BY <2>1 DEF PcInv, Sure, Writing
<1>6. ASSUME NEW p \in Paths, Install(p)
      PROVE  PcInv'
  <2>1. /\ pc = "install" /\ op.at = "none" /\ op'.file = Target(p) /\ pc' = "record" /\ UNCHANGED <<live, run>>
    BY <1>6 DEF Install, Put
  <2>2. Says(live, run, "Applying") /\ op'.file # Journal(run)
    BY <1>1, <2>1, Roles DEF PcInv, Sure, Writing
  <2> QED
    BY <2>1, <2>2 DEF PcInv, Writing
<1>7. CASE ApplyBaseline
  <2>1. /\ pc = "install" /\ op.at = "none" /\ pc' = "finish" /\ UNCHANGED <<live, run, plan>>
        /\ op'.at = "written" /\ op'.file = Baseline /\ op'.value = [run |-> run]
        /\ \A p \in Paths : live[Target(p)] = plan[run].after[p]
    BY <1>7 DEF ApplyBaseline, Put
  <2>2. Says(live, run, "Applying")
    BY <2>1 DEF PcInv, Sure, Writing
  <2> QED
    BY <2>1, <2>2 DEF PcInv, Writing
<1> QED
  BY <1>2, <1>3, <1>4, <1>5, <1>6, <1>7

\* The steps of rollback.
LEMMA PcRollback ==
  ASSUME IInv, BegunInv, DiskInv, PcInv, ~loose,
         \/ \E r \in Known : RollbackBegin(r)
         \/ \E p \in Paths : RestoreSkip(p) \/ Restore(p) \/ RestoreRemove(p)
         \/ RollbackBaseline
  PROVE  PcInv'
<1>1. pc # "idle" => run \in Known /\ run \in Runs /\ Journal(run) \in File
  BY KnownRuns, Roles DEF IInv, Control, Working
<1>2. ASSUME NEW r \in Known, RollbackBegin(r)
      PROVE  PcInv'
  <2>1. /\ pc' = "restore" /\ run' = r /\ todo' = Changes(r) /\ UNCHANGED <<live, plan>>
        /\ op'.at = "written" /\ op'.file = Journal(r) /\ op'.value = [phase |-> "RollingBack"]
    BY <1>2 DEF RollbackBegin, Put
  <2>2. Changes(r)' = Changes(r) /\ \A p \in Paths : Journal(r) # Target(p)
    BY <2>1, Roles, KnownRuns DEF Changes, IInv
  <2>3. \A p \in Paths : ~(op'.file = Target(p))
    BY <2>1, <2>2
  <2> QED
    BY <2>1, <2>2, <2>3 DEF PcInv, Sure, Writing, Changes
<1>3. ASSUME NEW p \in Paths, pc = "restore", pc' = pc, op.at = "none", UNCHANGED <<plan, run>>, todo' = todo \ {p},
             live'[Journal(run)] = live[Journal(run)],
             \A q \in Paths \ {p} : live'[Target(q)] = live[Target(q)],
             \/ op'.at = "none" /\ live'[Target(p)] = plan[run].before[p]
             \/ op'.at # "none" /\ op'.file = Target(p) /\ op'.value = plan[run].before[p]
      PROVE  PcInv'
  <2>1. Says(live', run, "RollingBack")
    BY <1>3 DEF PcInv, Sure, Writing, Says
  <2>2. ~Writing(Journal(run))'
    BY <1>1, <1>3, Roles DEF Writing
  <2>3. Changes(run)' = Changes(run) /\ todo' \subseteq Changes(run)
    BY <1>3 DEF Changes, PcInv
  <2>4. ASSUME NEW q \in Paths \ todo'
        PROVE  IF Writing(Target(q))' THEN op'.value = plan[run].before[q]
               ELSE live'[Target(q)] = plan[run].before[q] \/ q \notin Changes(run)
    <3>1. CASE q = p
      BY <1>3, <3>1 DEF Writing
    <3>2. CASE q # p
      <4>1. ~Writing(Target(q))'
        BY <1>3, <2>4, <3>2, Roles DEF Writing
      <4>2. live[Target(q)] = plan[run].before[q] \/ q \notin Changes(run)
        BY <1>3, <2>4, <3>2 DEF PcInv, Writing
      <4> QED
        BY <1>3, <2>4, <3>2, <4>1, <4>2
    <3> QED
      BY <3>1, <3>2
  <2> QED
    BY <1>3, <2>1, <2>2, <2>3, <2>4 DEF PcInv, Sure
<1>4. ASSUME NEW p \in Paths, RestoreSkip(p)
      PROVE  PcInv'
  BY <1>3, <1>4 DEF RestoreSkip
<1>5. ASSUME NEW p \in Paths, Restore(p)
      PROVE  PcInv'
  <2>1. live[Backup(run, p)] = plan[run].before[p]
    BY <1>5, Restored
  <2>2. /\ pc = "restore" /\ op.at = "none" /\ UNCHANGED <<live, plan, pc, run>> /\ todo' = todo \ {p}
        /\ op'.at = "written" /\ op'.file = Target(p) /\ op'.value = plan[run].before[p]
    BY <1>5, <2>1 DEF Restore, Put
  <2> QED
    BY <1>3, <2>2
<1>6. ASSUME NEW p \in Paths, RestoreRemove(p)
      PROVE  PcInv'
  <2>1. /\ pc = "restore" /\ op.at = "none" /\ UNCHANGED <<plan, pc, run>> /\ todo' = todo \ {p}
        /\ op'.at = "named" /\ op'.file = Target(p) /\ op'.value = Absent /\ plan[run].before[p] = Absent
        /\ live' = [live EXCEPT ![Target(p)] = Absent]
    <3>1. Unlink(Target(p)) /\ pc = "restore" /\ UNCHANGED <<plan, pc, run>> /\ todo' = todo \ {p} /\ plan[run].before[p] = Absent
      BY <1>6 DEF RestoreRemove
    <3>2. /\ op.at = "none" /\ live' = [live EXCEPT ![Target(p)] = Absent]
          /\ op'.at = "named" /\ op'.file = Target(p) /\ op'.value = Absent
      BY <3>1 DEF Unlink, NoOp
    <3> QED
      BY <3>1, <3>2
  <2>2. \A g \in File : g # Target(p) => live'[g] = live[g]
    BY <2>1 DEF IInv, TypeOK
  <2>3. live'[Journal(run)] = live[Journal(run)] /\ \A q \in Paths \ {p} : live'[Target(q)] = live[Target(q)]
    BY <1>1, <2>1, <2>2, Roles
  <2> QED
    BY <1>3, <2>1, <2>3
<1>7. CASE RollbackBaseline
  <2>1. pc = "restore" /\ op.at = "none" /\ todo = {} /\ pc' = "rolled" /\ UNCHANGED <<plan, run, spoilt>> /\ Working
    BY <1>7 DEF RollbackBaseline, Put, Unlink, Working
  <2>2. Says(live, run, "RollingBack") /\ "RollingBack" \in Phases \ {"Applied", "RolledBack"}
    BY <2>1 DEF PcInv, Sure, Writing, Phases
  <2>3. ASSUME run > spoilt PROVE \A p \in Paths : live[Target(p)] \in {plan[run].before[p], plan[run].after[p]}
    <3>1. /\ run \in 1..Len(plan) /\ PlansOK(plan) /\ spoilt \in Nat
          /\ Alive(live, 0, run) /\ Good(live, spoilt, plan, run)
      BY <2>1, <2>2, WorkingRun
    <3> QED
      BY <2>3, <3>1, GoodTops DEF Tops
  <2>4. run > spoilt => \A p \in Paths : live[Target(p)] = plan[run].before[p]
    BY <2>1, <2>3 DEF PcInv, Writing, Changes
  <2>5. CASE Unlink(Baseline) /\ plan[run].prev = Absent
    <3>1. live' = [live EXCEPT ![Baseline] = Absent] /\ op'.at = "named" /\ op'.file = Baseline /\ op'.value = Absent
      BY <2>5 DEF Unlink, NoOp
    <3>2. \A g \in File : g # Baseline => live'[g] = live[g]
      BY <3>1 DEF IInv, TypeOK
    <3>3. live'[Journal(run)] = live[Journal(run)] /\ \A p \in Paths : live'[Target(p)] = live[Target(p)]
      BY <1>1, <2>1, <3>2, Roles
    <3> QED
      BY <2>1, <2>2, <2>4, <2>5, <3>1, <3>3 DEF PcInv, Writing, Says
  <2>6. CASE Put(Baseline, plan[run].prev)
    BY <2>1, <2>2, <2>4, <2>6 DEF PcInv, Writing, Put
  <2>7. CASE plan[run].prev = Absent /\ live[Baseline] = Absent /\ UNCHANGED <<live, disk, dirs, fresh, op, stops, installed, loose, spoilt>>
    BY <2>1, <2>2, <2>4, <2>7 DEF PcInv, Writing
  <2> QED
    BY <1>7, <2>5, <2>6, <2>7 DEF RollbackBaseline
<1> QED
  BY <1>2, <1>4, <1>5, <1>6, <1>7

\* Every step keeps what the command knows.
LEMMA PcStep ==
  ASSUME IInv, BegunInv, DiskInv, PcInv, [Next]_vars
  PROVE  PcInv'
<1> SUFFICES ASSUME ~loose' PROVE PcInv'
  BY DEF PcInv
<1>1. ~loose
  BY LooseKept
<1>2. CASE Stop \/ PowerLoss \/ Report \/ ApplyFinish \/ RollbackFinish
  <2>1. pc' \in {"idle", "report"}
    BY <1>2 DEF Stop, PowerLoss, Halt, Report, ApplyFinish, RollbackFinish
  <2> QED
    BY <2>1 DEF PcInv
<1>3. CASE UNCHANGED vars
  BY <1>1, <1>3 DEF vars, PcInv, Sure, Writing, Known, Changes
<1> QED
  BY <1>1, <1>2, <1>3, PcFile, PcApply, PcRollback DEF Next

-----------------------------------------------------------------------------
\* Nothing is written, and no baseline is there, at the start.
LEMMA InitDisk == Init => BegunInv /\ DiskInv /\ PcInv
<1> SUFFICES ASSUME Init PROVE BegunInv /\ DiskInv /\ PcInv
  OBVIOUS
<1>1. PICK t \in [Paths -> Values] :
        live = [f \in File |-> IF \E p \in Paths : f = Target(p) THEN t[f[2]] ELSE Absent]
  BY DEF Init, Values
<1>2. live[Baseline] = Absent /\ disk[Baseline] = {Absent}
  BY <1>1, Roles DEF Init
<1>3. /\ plan = <<>> /\ Len(plan) = 0 /\ run = 0 /\ spoilt = 0 /\ pc = "idle" /\ op = NoOp /\ op.at = "none"
      /\ \A f \in File : disk[f] = {live[f]}
  BY DEF Init, NoOp
<1>4. Sound(live, 0, plan) /\ Open(live, plan)
  BY <1>2, <1>3 DEF Sound, Low, Open
<1> QED
  BY <1>2, <1>3, <1>4 DEF BegunInv, DiskInv, PcInv, Good, Known, Working

\* All of it holds of every behaviour.
LEMMA DiskAlways == Spec => [](IInv /\ BegunInv /\ DiskInv /\ PcInv)
<1>1. Init => IInv /\ BegunInv /\ DiskInv /\ PcInv
  BY InitInv, InitDisk
<1>2. IInv /\ BegunInv /\ DiskInv /\ PcInv /\ [Next]_vars => (IInv /\ BegunInv /\ DiskInv /\ PcInv)'
  BY StepInv, BegunStep, DiskStep, PcStep
<1> QED
  BY <1>1, <1>2, PTL DEF Spec

\* Any two files may be found any two ways together, for one of them is settled.
LEMMA TwoFiles ==
  ASSUME IInv, BegunInv, DiskInv, ~loose, NEW f \in File, NEW g \in File, f # g, NEW u \in disk[f], NEW v \in disk[g]
  PROVE  \E m : Good(m, spoilt, plan, run) /\ m[f] = u /\ m[g] = v
<1>1. CASE op.at = "named" /\ (op.file = f \/ op.file = g)
  <2>1. PICK w : w = IF op.file = f THEN u ELSE v
    OBVIOUS
  <2> DEFINE m == [live EXCEPT ![op.file] = w]
  <2>2. Good(m, spoilt, plan, run)
    BY <1>1, <2>1 DEF DiskInv
  <2>3. m[f] = u /\ m[g] = v
    BY <1>1, <2>1 DEF DiskInv, IInv, TypeOK
  <2> QED
    BY <2>2, <2>3
<1>2. CASE ~(op.at = "named" /\ (op.file = f \/ op.file = g))
  <2>1. Good(live, spoilt, plan, run) /\ live[f] = u /\ live[g] = v
    BY <1>2 DEF DiskInv
  <2> QED
    BY <2>1
<1> QED
  BY <1>1, <1>2

\* A baseline that a loss of power may leave names a run whose journal it leaves too, if
\* it leaves the directory of the run: begun and, unless a process was stopped with a name
\* not yet flushed, not closed (main.rs, apply and rollback: the baseline is written after
\* the one, before the other).
THEOREM BaselineNamesRun == Spec => []BaselineHasRun
<1>1. ASSUME IInv, BegunInv, DiskInv PROVE BaselineHasRun
  <2> SUFFICES ASSUME NEW b \in disk[Baseline] \ {Absent}, RunDir(b.run) \in dirs, NEW j \in disk[Journal(b.run)]
               PROVE  /\ j # Absent
                      /\ j.phase \in {"Applying", "Applied", "RollingBack"} \cup (IF loose THEN {"RolledBack"} ELSE {})
    BY DEF BaselineHasRun
  <2>1. b.run \in Runs /\ j # Absent /\ j.phase # "Prepared"
    BY <1>1, NamedRuns DEF BegunInv, Begun
  <2>2. Journal(b.run) \in File /\ Journal(b.run) # Baseline /\ Baseline \in File
    BY <2>1, Roles
  <2>3. j.phase \in Phases /\ j = [phase |-> j.phase]
    <3>1. j \in Journals
      BY <1>1, <2>1 DEF IInv, TypeOK
    <3> QED
      BY <2>1, <3>1, Records
  <2>4. ~loose => j.phase # "RolledBack"
    <3> SUFFICES ASSUME ~loose PROVE j.phase # "RolledBack"
      OBVIOUS
    <3>1. PICK m : Good(m, spoilt, plan, run) /\ m[Baseline] = b /\ m[Journal(b.run)] = j
      BY <1>1, <2>2, TwoFiles
    <3>2. ~Says(m, b.run, "RolledBack")
      BY <3>1 DEF Good, Open
    <3> QED
      BY <2>3, <3>1, <3>2 DEF Says
  <2> QED
    BY <2>1, <2>3, <2>4 DEF Phases
<1> QED
  BY <1>1, DiskAlways, PTL

\* A journal that says applied or rolled back, as a loss of power may leave it, is true
\* of what the loss leaves of the files and of the baseline, for a run that no lost
\* directory spoilt (main.rs: every file and the directory it is in are flushed before the
\* journal that reports them).
THEOREM PhaseTrue == Spec => []PhaseIsTrue
<1>1. ASSUME IInv, BegunInv, DiskInv PROVE PhaseIsTrue
  <2> SUFFICES ASSUME run > spoilt, ~loose
               PROVE  /\ [phase |-> "Applied"] \in disk[Journal(run)] =>
                           /\ disk[Baseline] = {[run |-> run]}
                           /\ \A p \in Changes(run) : disk[Target(p)] = {plan[run].after[p]}
                      /\ [phase |-> "RolledBack"] \in disk[Journal(run)] =>
                           /\ disk[Baseline] = {plan[run].prev}
                           /\ \A p \in Changes(run) : disk[Target(p)] = {plan[run].before[p]}
    BY DEF PhaseIsTrue
  <2>1. run \in 1..Len(plan) /\ PlansOK(plan) /\ run \in Runs /\ run # 0 /\ spoilt \in Nat
    BY <1>1, Stack DEF PlansOK
  <2>2. /\ Journal(run) \in File /\ Baseline \in File /\ Journal(run) # Baseline
        /\ \A p \in Paths : Target(p) \in File /\ Target(p) # Journal(run)
    BY <2>1, Roles
  <2>3. ASSUME NEW m, Good(m, spoilt, plan, run)
        PROVE  /\ m[Journal(run)] = [phase |-> "Applied"] =>
                    m[Baseline] = [run |-> run] /\ \A p \in Paths : m[Target(p)] = plan[run].after[p]
               /\ m[Journal(run)] = [phase |-> "RolledBack"] =>
                    m[Baseline] = plan[run].prev /\ \A p \in Paths : m[Target(p)] = plan[run].before[p]
    <3>1. Latest(m, spoilt, plan, run)
      BY <2>1, <2>3 DEF Good
    <3>2. ASSUME Says(m, run, "Applied")
          PROVE  m[Baseline] = [run |-> run] /\ \A p \in Paths : m[Target(p)] = plan[run].after[p]
      <4>1. Alive(m, 0, run)
        BY <2>1, <3>2, Marks DEF Phases
      <4>2. Tops(m, plan, run)
        BY <2>1, <2>3, <4>1, GoodTops
      <4> QED
        BY <3>2, <4>2 DEF Tops
    <3> QED
      BY <3>1, <3>2 DEF Latest, Says
  <2>4. \A f \in File : live[f] \in disk[f]
    BY <1>1 DEF IInv, TypeOK
  <2>5. Changes(run) \subseteq Paths
    BY DEF Changes
  <2>6. ASSUME [phase |-> "Applied"] \in disk[Journal(run)]
        PROVE  disk[Baseline] = {[run |-> run]} /\ \A p \in Changes(run) : disk[Target(p)] = {plan[run].after[p]}
    <3>1. disk[Baseline] = {[run |-> run]}
      <4>1. \A m : Good(m, spoilt, plan, run) /\ m[Journal(run)] = [phase |-> "Applied"] => m[Baseline] = [run |-> run]
        BY <2>3
      <4>2. \A v \in disk[Baseline] : v = [run |-> run]
        BY <1>1, <2>2, <2>6, <4>1, TwoFiles
      <4> QED
        BY <2>2, <2>4, <4>2
    <3>2. ASSUME NEW p \in Paths PROVE disk[Target(p)] = {plan[run].after[p]}
      <4>1. \A m : Good(m, spoilt, plan, run) /\ m[Journal(run)] = [phase |-> "Applied"] => m[Target(p)] = plan[run].after[p]
        BY <2>3
      <4>2. \A v \in disk[Target(p)] : v = plan[run].after[p]
        BY <1>1, <2>2, <2>6, <4>1, TwoFiles
      <4> QED
        BY <2>2, <2>4, <4>2
    <3> QED
      BY <2>5, <3>1, <3>2
  <2>7. ASSUME [phase |-> "RolledBack"] \in disk[Journal(run)]
        PROVE  disk[Baseline] = {plan[run].prev} /\ \A p \in Changes(run) : disk[Target(p)] = {plan[run].before[p]}
    <3>1. disk[Baseline] = {plan[run].prev}
      <4>1. \A m : Good(m, spoilt, plan, run) /\ m[Journal(run)] = [phase |-> "RolledBack"] => m[Baseline] = plan[run].prev
        BY <2>3
      <4>2. \A v \in disk[Baseline] : v = plan[run].prev
        BY <1>1, <2>2, <2>7, <4>1, TwoFiles
      <4> QED
        BY <2>2, <2>4, <4>2
    <3>2. ASSUME NEW p \in Paths PROVE disk[Target(p)] = {plan[run].before[p]}
      <4>1. \A m : Good(m, spoilt, plan, run) /\ m[Journal(run)] = [phase |-> "RolledBack"] => m[Target(p)] = plan[run].before[p]
        BY <2>3
      <4>2. \A v \in disk[Target(p)] : v = plan[run].before[p]
        BY <1>1, <2>2, <2>7, <4>1, TwoFiles
      <4> QED
        BY <2>2, <2>4, <4>2
    <3> QED
      BY <2>5, <3>1, <3>2
  <2> QED
    BY <2>6, <2>7
<1> QED
  BY <1>1, DiskAlways, PTL
=============================================================================
