-------------------------- MODULE StateMigrationProofs --------------------------
(***************************************************************************)
(* Proofs about StateMigration for any number of files: every variable     *)
(* keeps its type, the record of a transaction tells the truth (Outcome),  *)
(* and what others wrote is live or backed up (NothingLost).               *)
(***************************************************************************)
EXTENDS StateMigration, TLAPS

Committing == {"check", "recheck", "read", "write", "verify", "restore"}
Recorded == Committing \cup {"undo"}

\* No content is newer than the last version written.
Versions ==
  \A f \in Files :
    /\ files[f].v <= ver[f]
    /\ plan[f] # None => plan[f].v <= ver[f]
    /\ backup[f] # None => backup[f].v <= ver[f]
    /\ Len(records) > 0 /\ Last.plan[f] # None => Last.plan[f].v <= ver[f]

\* A file nobody wrote is still what the plan read, and so is its backup.
Planned ==
  pc \in {"plan", "backup"} =>
    \A f \in Pending : ver[f] = plan[f].v =>
      /\ files[f] = plan[f]
      /\ pc = "backup" /\ f < at => backup[f] = plan[f]
BackedUp ==
  pc \in {"plan", "backup"} =>
    /\ done = {}
    /\ \A f \in Pending : pc = "backup" /\ f < at => backup[f] # None

\* The running transaction and its record agree.
Agree ==
  pc \in Recorded =>
    /\ Len(records) > 0 /\ Last.status = "prepared" /\ Last.backup = backup
    /\ \A f \in Files :
         /\ plan[f] = None <=> Last.plan[f] = None
         /\ f # Config => plan[f] = Last.plan[f]
         /\ plan[f] # None => backup[f] # None
         /\ Quiet(f) => Old(f) = Last.plan[f]

\* What a file nobody wrote holds while the transaction commits...
Committed ==
  pc \in Committing =>
    /\ at \in Files \/ (pc = "check" /\ at = N + 1)
    /\ pc # "check" => plan[at] # None
    /\ pc \in {"recheck", "read"} => at = Config
    /\ \A f \in done : f <= at /\ plan[f] # None
    /\ pc \in {"recheck", "read", "write", "verify"} /\ at = Config => at \in done
    /\ pc = "restore" => at # Config
    /\ \A f \in Files : Quiet(f) =>
         /\ f < at => files[f] = Migrated(Old(f)) /\ f \in done
         /\ f > at => files[f] = Old(f)
         /\ f = at =>  /\ pc = "verify" => files[f] = Migrated(Old(f))
                       /\ pc = "restore" => files[f] \in {Old(f), Migrated(Old(f))}
                       /\ pc = "write" => plan[f] = Old(f)
                       /\ pc \in {"check", "recheck", "read", "write"} => files[f] = Old(f)

\* ...and while it restores.
Undoing ==
  pc = "undo" =>
    /\ at \in 0..N
    /\ \A f \in done : plan[f] # None
    /\ \A f \in Files : Quiet(f) =>
         /\ files[f] \in {Old(f), Migrated(Old(f))}
         /\ f \notin done \/ f > at => stuck \/ files[f] = Old(f)

\* Outcome, between the transactions and before the next one commits.
Told ==
  pc \notin Recorded /\ Len(records) > 0 =>
    \A f \in Files : Quiet(f) =>
      /\ files[f] \in {Old(f), Migrated(Old(f))}
      /\ Last.status = "committed" => files[f] = Migrated(Old(f))
      /\ Last.status = "rolled-back" => files[f] = Old(f)

\* The last version of a file the transaction no longer compares is in a backup.
Kept ==
  /\ NothingLost
  /\ \A f \in Files \ raced :
       (f \in done /\ pc # "idle") \/ (f = at /\ pc \in Committing \ {"check"}) => ver[f] \in Saved(f)

IInv == TypeOK /\ Versions /\ Planned /\ BackedUp /\ Agree /\ Committed /\ Undoing /\ Told /\ Kept

-----------------------------------------------------------------------------
(* Contents and records *)

USE CountAssumption, NoneAssumption

\* Migrating a content gives a content.
LEMMA MigratedContent ==
  \A c \in Content : Migrated(c) \in Content /\ Migrated(c).v = c.v
BY DEF Content, Migrated

\* An element of a sequence is of its set.
LEMMA SeqElement ==
  ASSUME NEW S, NEW s \in Seq(S), NEW i \in 1..Len(s)
  PROVE  s[i] \in S
OBVIOUS

\* The last record of a plan that is not empty.
LEMMA LastRecord ==
  ASSUME TypeOK, Len(records) > 0
  PROVE  /\ Last \in [status : Statuses, plan : Contents, backup : Contents]
         /\ Last.plan \in Contents /\ Last.backup \in Contents
<1>1. records \in Seq([status : Statuses, plan : Contents, backup : Contents])
  BY DEF TypeOK
<1>2. Len(records) \in 1..Len(records)
  BY <1>1
<1>3. Last \in [status : Statuses, plan : Contents, backup : Contents]
  BY <1>1, <1>2, SeqElement DEF Last
<1> QED
  BY <1>3

\* Backups that stay recorded stay saved.
LEMMA SavedStays ==
  ASSUME Len(records) \in Nat, Len(records') \in Nat, Len(records') >= Len(records),
         \A i \in 1..Len(records) : records'[i].backup = records[i].backup,
         NEW f
  PROVE  Saved(f) \subseteq Saved(f)'
BY DEF Saved

\* The last backup is saved.
LEMMA SavedLast ==
  ASSUME Len(records) \in Nat, Len(records) > 0, NEW f, Last.backup[f] # None
  PROVE  Last.backup[f].v \in Saved(f)
BY DEF Saved, Last

\* A change of status changes nothing else.
LEMMA StatusLemma ==
  ASSUME TypeOK, Len(records) > 0, NEW s \in Statuses, SetStatus(s)
  PROVE  /\ records' \in Seq([status : Statuses, plan : Contents, backup : Contents])
         /\ Len(records') = Len(records)
         /\ Last'.status = s /\ Last'.plan = Last.plan /\ Last'.backup = Last.backup
         /\ \A i \in 1..Len(records) : records'[i].backup = records[i].backup
<1> DEFINE S == [status : Statuses, plan : Contents, backup : Contents]
<1>1. records \in Seq(S)
  BY DEF TypeOK
<1>2. Len(records) \in 1..Len(records)
  BY <1>1
<1>3. Last \in S
  BY LastRecord
<1>4. [Last EXCEPT !.status = s] \in S
  BY <1>3
<1>5. records' = [records EXCEPT ![Len(records)] = [Last EXCEPT !.status = s]]
  BY DEF SetStatus, Last
<1>6. records' \in Seq(S) /\ Len(records') = Len(records)
  BY <1>1, <1>2, <1>4, <1>5
<1>7. Last' = [Last EXCEPT !.status = s]
  BY <1>1, <1>2, <1>5, <1>6 DEF Last
<1>8. \A i \in 1..Len(records) : records'[i].backup = records[i].backup
  BY <1>1, <1>2, <1>3, <1>5 DEF Last
<1> QED
  BY <1>3, <1>6, <1>7, <1>8

\* Preparing one file adds its record and nothing else.
LEMMA PrepareLemma ==
  ASSUME TypeOK, Prepare
  PROVE  /\ records' \in Seq([status : Statuses, plan : Contents, backup : Contents])
         /\ Len(records') = Len(records) + 1
         /\ Last'.status = "prepared" /\ Last'.plan = plan /\ Last'.backup = backup
         /\ \A i \in 1..Len(records) : records'[i].backup = records[i].backup
BY DEF TypeOK, Prepare, Last, locals, Statuses

\* While a transaction commits or restores a file nobody wrote is old or new.
LEMMA Mixed ==
  ASSUME IInv, pc \in Recorded, NEW f \in Files, Quiet(f)
  PROVE  files[f] \in {Old(f), Migrated(Old(f))}
<1>1. CASE pc = "undo"
  BY <1>1 DEF IInv, Undoing
<1>2. CASE pc \in Committing
  <2>1. f < at \/ f = at \/ f > at
    BY DEF IInv, TypeOK, Files
  <2>2. f = at => files[f] \in {Old(f), Migrated(Old(f))}
    BY <1>2 DEF IInv, Committed, Committing
  <2> QED
    BY <1>2, <2>1, <2>2 DEF IInv, Committed
<1> QED
  BY <1>1, <1>2 DEF Recorded

-----------------------------------------------------------------------------
(* Every step keeps the invariant *)

\* Begin keeps the invariant.
LEMMA BeginStep ==
  ASSUME IInv, Begin
  PROVE  IInv'
<1> USE DEF Begin, locals, history, Quiet, Old, Goto, Files, Config, Pending, Committing, Recorded
<1>a. Last' = Last /\ Len(records') = Len(records)
      /\ \A i \in 1..Len(records) : records'[i].backup = records[i].backup
  BY DEF Last
<1>1. TypeOK'
  <2>1. pc' \in Phases /\ at' \in 0..(N + 1)
    BY DEF IInv, TypeOK, Committed, Undoing, Phases
  <2>2. lock' \in BOOLEAN /\ stuck' \in BOOLEAN
    BY DEF IInv, TypeOK
  <2>3. files' \in [Files -> Content] /\ plan' \in Contents /\ backup' \in Contents
    BY DEF IInv, TypeOK, Contents, Agree, Committed, Undoing, Nothing
  <2>4. done' \subseteq Files /\ raced' \subseteq Files /\ ver' \in [Files -> Nat]
    BY DEF IInv, TypeOK, Committed
  <2>5. records' \in Seq([status : Statuses, plan : Contents, backup : Contents])
    BY DEF IInv, TypeOK
  <2> QED BY <2>1, <2>2, <2>3, <2>4, <2>5 DEF TypeOK
<1>2. Versions'
  BY <1>a, <1>1 DEF IInv, TypeOK, Versions, Agree, Committed, Migrated, Content, Contents, Nothing
<1>3. Planned'
  BY <1>a, <1>1 DEF IInv, TypeOK, Versions, Planned, Nothing
<1>4. BackedUp'
  BY <1>a, <1>1 DEF IInv, TypeOK, BackedUp, Nothing
<1>5. Agree'
  BY <1>a, <1>1 DEF IInv, TypeOK, Versions, Planned, BackedUp, Agree, Committed, Nothing
<1>6. Committed'
  BY <1>a, <1>1 DEF IInv, TypeOK, Versions, Agree, Committed, Planned, Nothing
<1>7. Undoing'
  BY <1>a, <1>1 DEF IInv, TypeOK, Versions, Agree, Committed, Undoing, Nothing
<1>8. Told'
  BY <1>a, <1>1 DEF IInv, TypeOK, Versions, Told, Agree, Committed, Undoing, Nothing
<1>9. Kept'
  <2>a. Len(records) \in Nat /\ Len(records') \in Nat
    BY <1>1 DEF IInv, TypeOK
  <2>1. \A f : Saved(f) \subseteq Saved(f)'
    BY <1>a, <2>a, SavedStays
  <2> QED
    BY <2>1, <1>a, <1>1 DEF IInv, TypeOK, Agree, Committed, Undoing, Kept, NothingLost
<1> QED
  BY <1>1, <1>2, <1>3, <1>4, <1>5, <1>6, <1>7, <1>8, <1>9 DEF IInv

\* PlanFile keeps the invariant.
LEMMA PlanFileStep ==
  ASSUME IInv, PlanFile
  PROVE  IInv'
<1> USE DEF PlanFile, locals, history, Quiet, Old, Goto, Files, Config, Pending, Committing, Recorded
<1>a. Last' = Last /\ Len(records') = Len(records)
      /\ \A i \in 1..Len(records) : records'[i].backup = records[i].backup
  BY DEF Last
<1>1. TypeOK'
  <2>1. pc' \in Phases /\ at' \in 0..(N + 1)
    BY DEF IInv, TypeOK, Committed, Undoing, Phases
  <2>2. lock' \in BOOLEAN /\ stuck' \in BOOLEAN
    BY DEF IInv, TypeOK
  <2>3. files' \in [Files -> Content] /\ plan' \in Contents /\ backup' \in Contents
    BY DEF IInv, TypeOK, Contents, Agree, Committed, Undoing, Nothing
  <2>4. done' \subseteq Files /\ raced' \subseteq Files /\ ver' \in [Files -> Nat]
    BY DEF IInv, TypeOK, Committed
  <2>5. records' \in Seq([status : Statuses, plan : Contents, backup : Contents])
    BY DEF IInv, TypeOK
  <2> QED BY <2>1, <2>2, <2>3, <2>4, <2>5 DEF TypeOK
<1>2. Versions'
  BY <1>a, <1>1 DEF IInv, TypeOK, Versions, Agree, Committed, Migrated, Content, Contents
<1>3. Planned'
  BY <1>a, <1>1 DEF IInv, TypeOK, Versions, Planned
<1>4. BackedUp'
  BY <1>a, <1>1 DEF IInv, TypeOK, BackedUp
<1>5. Agree'
  BY <1>a, <1>1 DEF IInv, TypeOK, Versions, Planned, BackedUp, Agree, Committed
<1>6. Committed'
  BY <1>a, <1>1 DEF IInv, TypeOK, Versions, Agree, Committed, Planned
<1>7. Undoing'
  BY <1>a, <1>1 DEF IInv, TypeOK, Versions, Agree, Committed, Undoing
<1>8. Told'
  BY <1>a, <1>1 DEF IInv, TypeOK, Versions, Told, Agree, Committed, Undoing
<1>9. Kept'
  <2>a. Len(records) \in Nat /\ Len(records') \in Nat
    BY <1>1 DEF IInv, TypeOK
  <2>1. \A f : Saved(f) \subseteq Saved(f)'
    BY <1>a, <2>a, SavedStays
  <2> QED
    BY <2>1, <1>a, <1>1 DEF IInv, TypeOK, Agree, Committed, Undoing, Kept, NothingLost
<1> QED
  BY <1>1, <1>2, <1>3, <1>4, <1>5, <1>6, <1>7, <1>8, <1>9 DEF IInv

\* PlanDone keeps the invariant.
LEMMA PlanDoneStep ==
  ASSUME IInv, PlanDone
  PROVE  IInv'
<1> USE DEF PlanDone, locals, history, Quiet, Old, Goto, Files, Config, Pending, Committing, Recorded
<1>a. Last' = Last /\ Len(records') = Len(records)
      /\ \A i \in 1..Len(records) : records'[i].backup = records[i].backup
  BY DEF Last
<1>1. TypeOK'
  <2>1. pc' \in Phases /\ at' \in 0..(N + 1)
    BY DEF IInv, TypeOK, Committed, Undoing, Phases
  <2>2. lock' \in BOOLEAN /\ stuck' \in BOOLEAN
    BY DEF IInv, TypeOK
  <2>3. files' \in [Files -> Content] /\ plan' \in Contents /\ backup' \in Contents
    BY DEF IInv, TypeOK, Contents, Agree, Committed, Undoing, Nothing
  <2>4. done' \subseteq Files /\ raced' \subseteq Files /\ ver' \in [Files -> Nat]
    BY DEF IInv, TypeOK, Committed
  <2>5. records' \in Seq([status : Statuses, plan : Contents, backup : Contents])
    BY DEF IInv, TypeOK
  <2> QED BY <2>1, <2>2, <2>3, <2>4, <2>5 DEF TypeOK
<1>2. Versions'
  BY <1>a, <1>1 DEF IInv, TypeOK, Versions, Agree, Committed, Migrated, Content, Contents
<1>3. Planned'
  BY <1>a, <1>1 DEF IInv, TypeOK, Versions, Planned
<1>4. BackedUp'
  BY <1>a, <1>1 DEF IInv, TypeOK, BackedUp
<1>5. Agree'
  BY <1>a, <1>1 DEF IInv, TypeOK, Versions, Planned, BackedUp, Agree, Committed
<1>6. Committed'
  BY <1>a, <1>1 DEF IInv, TypeOK, Versions, Agree, Committed, Planned
<1>7. Undoing'
  BY <1>a, <1>1 DEF IInv, TypeOK, Versions, Agree, Committed, Undoing
<1>8. Told'
  BY <1>a, <1>1 DEF IInv, TypeOK, Versions, Told, Agree, Committed, Undoing
<1>9. Kept'
  <2>a. Len(records) \in Nat /\ Len(records') \in Nat
    BY <1>1 DEF IInv, TypeOK
  <2>1. \A f : Saved(f) \subseteq Saved(f)'
    BY <1>a, <2>a, SavedStays
  <2> QED
    BY <2>1, <1>a, <1>1 DEF IInv, TypeOK, Agree, Committed, Undoing, Kept, NothingLost
<1> QED
  BY <1>1, <1>2, <1>3, <1>4, <1>5, <1>6, <1>7, <1>8, <1>9 DEF IInv

\* BackupFile keeps the invariant.
LEMMA BackupFileStep ==
  ASSUME IInv, BackupFile
  PROVE  IInv'
<1> USE DEF BackupFile, locals, history, Quiet, Old, Goto, Files, Config, Pending, Committing, Recorded
<1>a. Last' = Last /\ Len(records') = Len(records)
      /\ \A i \in 1..Len(records) : records'[i].backup = records[i].backup
  BY DEF Last
<1>1. TypeOK'
  <2>1. pc' \in Phases /\ at' \in 0..(N + 1)
    BY DEF IInv, TypeOK, Committed, Undoing, Phases
  <2>2. lock' \in BOOLEAN /\ stuck' \in BOOLEAN
    BY DEF IInv, TypeOK
  <2>3. files' \in [Files -> Content] /\ plan' \in Contents /\ backup' \in Contents
    BY DEF IInv, TypeOK, Contents, Agree, Committed, Undoing, Nothing
  <2>4. done' \subseteq Files /\ raced' \subseteq Files /\ ver' \in [Files -> Nat]
    BY DEF IInv, TypeOK, Committed
  <2>5. records' \in Seq([status : Statuses, plan : Contents, backup : Contents])
    BY DEF IInv, TypeOK
  <2> QED BY <2>1, <2>2, <2>3, <2>4, <2>5 DEF TypeOK
<1>2. Versions'
  BY <1>a, <1>1 DEF IInv, TypeOK, Versions, Agree, Committed, Migrated, Content, Contents
<1>3. Planned'
  <2>1. \A f \in Files : f # at => backup'[f] = backup[f]
    BY DEF IInv, TypeOK, Contents
  <2>2. backup'[at] = files[at]
    BY DEF IInv, TypeOK, Contents
  <2>3. at \in Nat /\ \A f \in Files : f < at + 1 => f < at \/ f = at
    BY DEF IInv, TypeOK
  <2> QED
    BY <2>1, <2>2, <2>3 DEF IInv, Planned
<1>4. BackedUp'
  <2>1. \A f \in Files : f # at => backup'[f] = backup[f]
    BY DEF IInv, TypeOK, Contents
  <2>2. backup'[at] # None
    BY DEF IInv, TypeOK, Contents
  <2>3. at \in Nat /\ \A f \in Files : f < at + 1 => f < at \/ f = at
    BY DEF IInv, TypeOK
  <2> QED
    BY <2>1, <2>2, <2>3 DEF IInv, BackedUp
<1>5. Agree'
  BY <1>a, <1>1 DEF IInv, TypeOK, Versions, Planned, BackedUp, Agree, Committed
<1>6. Committed'
  BY <1>a, <1>1 DEF IInv, TypeOK, Versions, Agree, Committed, Planned
<1>7. Undoing'
  BY <1>a, <1>1 DEF IInv, TypeOK, Versions, Agree, Committed, Undoing
<1>8. Told'
  BY <1>a, <1>1 DEF IInv, TypeOK, Versions, Told, Agree, Committed, Undoing
<1>9. Kept'
  <2>a. Len(records) \in Nat /\ Len(records') \in Nat
    BY <1>1 DEF IInv, TypeOK
  <2>1. \A f : Saved(f) \subseteq Saved(f)'
    BY <1>a, <2>a, SavedStays
  <2> QED
    BY <2>1, <1>a, <1>1 DEF IInv, TypeOK, Agree, Committed, Undoing, Kept, NothingLost
<1> QED
  BY <1>1, <1>2, <1>3, <1>4, <1>5, <1>6, <1>7, <1>8, <1>9 DEF IInv

\* Prepare keeps the invariant.
LEMMA PrepareStep ==
  ASSUME IInv, Prepare
  PROVE  IInv'
<1> USE DEF Prepare, locals, history, Quiet, Old, Goto, Files, Config, Pending, Committing, Recorded
<1>a. /\ records' \in Seq([status : Statuses, plan : Contents, backup : Contents])
      /\ Len(records') = Len(records) + 1
      /\ Last'.status = "prepared" /\ Last'.plan = plan /\ Last'.backup = backup
      /\ \A i \in 1..Len(records) : records'[i].backup = records[i].backup
  BY PrepareLemma DEF IInv
<1>1. TypeOK'
  <2>1. pc' \in Phases /\ at' \in 0..(N + 1)
    BY DEF IInv, TypeOK, Committed, Undoing, Phases
  <2>2. lock' \in BOOLEAN /\ stuck' \in BOOLEAN
    BY DEF IInv, TypeOK
  <2>3. files' \in [Files -> Content] /\ plan' \in Contents /\ backup' \in Contents
    BY DEF IInv, TypeOK, Contents, Agree, Committed, Undoing, Nothing
  <2>4. done' \subseteq Files /\ raced' \subseteq Files /\ ver' \in [Files -> Nat]
    BY DEF IInv, TypeOK, Committed
  <2>5. records' \in Seq([status : Statuses, plan : Contents, backup : Contents])
    BY <1>a DEF IInv, TypeOK
  <2> QED BY <2>1, <2>2, <2>3, <2>4, <2>5 DEF TypeOK
<1>2. Versions'
  BY <1>a, <1>1 DEF IInv, TypeOK, Versions, Agree, Committed, Migrated, Content, Contents
<1>3. Planned'
  BY <1>a, <1>1 DEF IInv, TypeOK, Versions, Planned
<1>4. BackedUp'
  BY <1>a, <1>1 DEF IInv, TypeOK, BackedUp
<1>5. Agree'
  BY <1>a, <1>1 DEF IInv, TypeOK, Versions, Planned, BackedUp, Agree, Committed
<1>6. Committed'
  <2>1. \A f \in Files : Quiet(f)' => files[f] = Old(f)'
    BY SMTT(30), <1>a DEF IInv, TypeOK, Planned
  <2> QED
    BY <1>a, <2>1 DEF IInv, TypeOK, BackedUp, Committed
<1>7. Undoing'
  BY <1>a, <1>1 DEF IInv, TypeOK, Versions, Agree, Committed, Undoing
<1>8. Told'
  BY <1>a, <1>1 DEF IInv, TypeOK, Versions, Told, Agree, Committed, Undoing
<1>9. Kept'
  <2>a. Len(records) \in Nat /\ Len(records') \in Nat
    BY <1>1 DEF IInv, TypeOK
  <2>1. \A f : Saved(f) \subseteq Saved(f)'
    BY <1>a, <2>a, SavedStays
  <2> QED
    BY <2>1, <1>a, <1>1 DEF IInv, TypeOK, Agree, Committed, Undoing, Kept, NothingLost
<1> QED
  BY <1>1, <1>2, <1>3, <1>4, <1>5, <1>6, <1>7, <1>8, <1>9 DEF IInv

\* Skip keeps the invariant.
LEMMA SkipStep ==
  ASSUME IInv, Skip
  PROVE  IInv'
<1> USE DEF Skip, locals, history, Quiet, Old, Goto, Files, Config, Pending, Committing, Recorded
<1>a. Last' = Last /\ Len(records') = Len(records)
      /\ \A i \in 1..Len(records) : records'[i].backup = records[i].backup
  BY DEF Last
<1>1. TypeOK'
  <2>1. pc' \in Phases /\ at' \in 0..(N + 1)
    BY DEF IInv, TypeOK, Committed, Undoing, Phases
  <2>2. lock' \in BOOLEAN /\ stuck' \in BOOLEAN
    BY DEF IInv, TypeOK
  <2>3. files' \in [Files -> Content] /\ plan' \in Contents /\ backup' \in Contents
    BY DEF IInv, TypeOK, Contents, Agree, Committed, Undoing, Nothing
  <2>4. done' \subseteq Files /\ raced' \subseteq Files /\ ver' \in [Files -> Nat]
    BY DEF IInv, TypeOK, Committed
  <2>5. records' \in Seq([status : Statuses, plan : Contents, backup : Contents])
    BY DEF IInv, TypeOK
  <2> QED BY <2>1, <2>2, <2>3, <2>4, <2>5 DEF TypeOK
<1>2. Versions'
  BY <1>a, <1>1 DEF IInv, TypeOK, Versions, Agree, Committed, Migrated, Content, Contents
<1>3. Planned'
  BY <1>a, <1>1 DEF IInv, TypeOK, Versions, Planned
<1>4. BackedUp'
  BY <1>a, <1>1 DEF IInv, TypeOK, BackedUp
<1>5. Agree'
  BY <1>a, <1>1 DEF IInv, TypeOK, Versions, Planned, BackedUp, Agree, Committed
<1>6. Committed'
  BY <1>a, <1>1 DEF IInv, TypeOK, Versions, Agree, Committed, Planned
<1>7. Undoing'
  BY <1>a, <1>1 DEF IInv, TypeOK, Versions, Agree, Committed, Undoing
<1>8. Told'
  BY <1>a, <1>1 DEF IInv, TypeOK, Versions, Told, Agree, Committed, Undoing
<1>9. Kept'
  <2>a. Len(records) \in Nat /\ Len(records') \in Nat
    BY <1>1 DEF IInv, TypeOK
  <2>1. \A f : Saved(f) \subseteq Saved(f)'
    BY <1>a, <2>a, SavedStays
  <2> QED
    BY <2>1, <1>a, <1>1 DEF IInv, TypeOK, Agree, Committed, Undoing, Kept, NothingLost
<1> QED
  BY <1>1, <1>2, <1>3, <1>4, <1>5, <1>6, <1>7, <1>8, <1>9 DEF IInv

\* Check keeps the invariant.
LEMMA CheckStep ==
  ASSUME IInv, Check
  PROVE  IInv'
<1> USE DEF Check, locals, history, Quiet, Old, Goto, Files, Config, Pending, Committing, Recorded
<1>a. Last' = Last /\ Len(records') = Len(records)
      /\ \A i \in 1..Len(records) : records'[i].backup = records[i].backup
  BY DEF Last
<1>1. TypeOK'
  <2>1. pc' \in Phases /\ at' \in 0..(N + 1)
    BY DEF IInv, TypeOK, Committed, Undoing, Phases
  <2>2. lock' \in BOOLEAN /\ stuck' \in BOOLEAN
    BY DEF IInv, TypeOK
  <2>3. files' \in [Files -> Content] /\ plan' \in Contents /\ backup' \in Contents
    BY DEF IInv, TypeOK, Contents, Agree, Committed, Undoing, Nothing
  <2>4. done' \subseteq Files /\ raced' \subseteq Files /\ ver' \in [Files -> Nat]
    BY DEF IInv, TypeOK, Committed
  <2>5. records' \in Seq([status : Statuses, plan : Contents, backup : Contents])
    BY DEF IInv, TypeOK
  <2> QED BY <2>1, <2>2, <2>3, <2>4, <2>5 DEF TypeOK
<1>2. Versions'
  BY <1>a, <1>1 DEF IInv, TypeOK, Versions, Agree, Committed, Migrated, Content, Contents
<1>3. Planned'
  BY <1>a, <1>1 DEF IInv, TypeOK, Versions, Planned
<1>4. BackedUp'
  BY <1>a, <1>1 DEF IInv, TypeOK, BackedUp
<1>5. Agree'
  BY <1>a, <1>1 DEF IInv, TypeOK, Versions, Planned, BackedUp, Agree, Committed
<1>6. Committed'
  BY <1>a, <1>1 DEF IInv, TypeOK, Versions, Agree, Committed, Planned
<1>7. Undoing'
  BY <1>a, <1>1 DEF IInv, TypeOK, Versions, Agree, Committed, Undoing
<1>8. Told'
  BY <1>a, <1>1 DEF IInv, TypeOK, Versions, Told, Agree, Committed, Undoing
<1>9. Kept'
  <2>a. Len(records) \in Nat /\ Len(records') \in Nat
    BY <1>1 DEF IInv, TypeOK
  <2>1. \A f : Saved(f) \subseteq Saved(f)'
    BY <1>a, <2>a, SavedStays
  <2>2. at \in Files /\ backup[at] # None /\ Last.backup = backup /\ Len(records) > 0
    BY DEF IInv, Agree
  <2>3. files[at].v \in Saved(at)
    BY <2>2, SavedLast DEF IInv, TypeOK
  <2>4. \A f \in Files \ raced : f = at => ver[f] \in Saved(f)
    BY <2>3 DEF IInv, Kept, NothingLost
  <2> QED
    BY <2>1, <2>4, <1>1 DEF IInv, TypeOK, Kept, NothingLost
<1> QED
  BY <1>1, <1>2, <1>3, <1>4, <1>5, <1>6, <1>7, <1>8, <1>9 DEF IInv

\* Recheck keeps the invariant.
LEMMA RecheckStep ==
  ASSUME IInv, Recheck
  PROVE  IInv'
<1> USE DEF Recheck, locals, history, Quiet, Old, Goto, Files, Config, Pending, Committing, Recorded
<1>a. Last' = Last /\ Len(records') = Len(records)
      /\ \A i \in 1..Len(records) : records'[i].backup = records[i].backup
  BY DEF Last
<1>1. TypeOK'
  <2>1. pc' \in Phases /\ at' \in 0..(N + 1)
    BY DEF IInv, TypeOK, Committed, Undoing, Phases
  <2>2. lock' \in BOOLEAN /\ stuck' \in BOOLEAN
    BY DEF IInv, TypeOK
  <2>3. files' \in [Files -> Content] /\ plan' \in Contents /\ backup' \in Contents
    BY DEF IInv, TypeOK, Contents, Agree, Committed, Undoing, Nothing
  <2>4. done' \subseteq Files /\ raced' \subseteq Files /\ ver' \in [Files -> Nat]
    BY DEF IInv, TypeOK, Committed
  <2>5. records' \in Seq([status : Statuses, plan : Contents, backup : Contents])
    BY DEF IInv, TypeOK
  <2> QED BY <2>1, <2>2, <2>3, <2>4, <2>5 DEF TypeOK
<1>2. Versions'
  BY <1>a, <1>1 DEF IInv, TypeOK, Versions, Agree, Committed, Migrated, Content, Contents
<1>3. Planned'
  BY <1>a, <1>1 DEF IInv, TypeOK, Versions, Planned
<1>4. BackedUp'
  BY <1>a, <1>1 DEF IInv, TypeOK, BackedUp
<1>5. Agree'
  BY <1>a, <1>1 DEF IInv, TypeOK, Versions, Planned, BackedUp, Agree, Committed
<1>6. Committed'
  BY <1>a, <1>1 DEF IInv, TypeOK, Versions, Agree, Committed, Planned
<1>7. Undoing'
  BY <1>a, <1>1 DEF IInv, TypeOK, Versions, Agree, Committed, Undoing
<1>8. Told'
  BY <1>a, <1>1 DEF IInv, TypeOK, Versions, Told, Agree, Committed, Undoing
<1>9. Kept'
  <2>a. Len(records) \in Nat /\ Len(records') \in Nat
    BY <1>1 DEF IInv, TypeOK
  <2>1. \A f : Saved(f) \subseteq Saved(f)'
    BY <1>a, <2>a, SavedStays
  <2> QED
    BY <2>1, <1>a, <1>1 DEF IInv, TypeOK, Agree, Committed, Undoing, Kept, NothingLost
<1> QED
  BY <1>1, <1>2, <1>3, <1>4, <1>5, <1>6, <1>7, <1>8, <1>9 DEF IInv

\* Read keeps the invariant.
LEMMA ReadStep ==
  ASSUME IInv, Read
  PROVE  IInv'
<1> USE DEF Read, locals, history, Quiet, Old, Goto, Files, Config, Pending, Committing, Recorded
<1>a. Last' = Last /\ Len(records') = Len(records)
      /\ \A i \in 1..Len(records) : records'[i].backup = records[i].backup
  BY DEF Last
<1>1. TypeOK'
  <2>1. pc' \in Phases /\ at' \in 0..(N + 1)
    BY DEF IInv, TypeOK, Committed, Undoing, Phases
  <2>2. lock' \in BOOLEAN /\ stuck' \in BOOLEAN
    BY DEF IInv, TypeOK
  <2>3. files' \in [Files -> Content] /\ plan' \in Contents /\ backup' \in Contents
    BY DEF IInv, TypeOK, Contents, Agree, Committed, Undoing, Nothing
  <2>4. done' \subseteq Files /\ raced' \subseteq Files /\ ver' \in [Files -> Nat]
    BY DEF IInv, TypeOK, Committed
  <2>5. records' \in Seq([status : Statuses, plan : Contents, backup : Contents])
    BY DEF IInv, TypeOK
  <2> QED BY <2>1, <2>2, <2>3, <2>4, <2>5 DEF TypeOK
<1>2. Versions'
  BY <1>a, <1>1 DEF IInv, TypeOK, Versions, Agree, Committed, Migrated, Content, Contents
<1>3. Planned'
  BY <1>a, <1>1 DEF IInv, TypeOK, Versions, Planned
<1>4. BackedUp'
  BY <1>a, <1>1 DEF IInv, TypeOK, BackedUp
<1>5. Agree'
  BY <1>a, <1>1 DEF IInv, TypeOK, Versions, Planned, BackedUp, Agree, Committed
<1>6. Committed'
  <2>1. at \in Files /\ at = Config /\ plan'[at] # None
    BY DEF IInv, TypeOK, Committed, Contents
  <2>2. \A f \in Files : f # at => plan'[f] = plan[f]
    BY DEF IInv, TypeOK, Contents
  <2>3. plan'[at] = files[at]
    BY <2>1 DEF IInv, TypeOK, Contents
  <2>4. \A f \in done : f \in Files /\ f <= at /\ plan'[f] # None
    BY <2>1, <2>2 DEF IInv, TypeOK, Committed
  <2> QED
    BY <1>a, <2>1, <2>3, <2>4 DEF IInv, Committed
<1>7. Undoing'
  BY <1>a, <1>1 DEF IInv, TypeOK, Versions, Agree, Committed, Undoing
<1>8. Told'
  BY <1>a, <1>1 DEF IInv, TypeOK, Versions, Told, Agree, Committed, Undoing
<1>9. Kept'
  <2>a. Len(records) \in Nat /\ Len(records') \in Nat
    BY <1>1 DEF IInv, TypeOK
  <2>1. \A f : Saved(f) \subseteq Saved(f)'
    BY <1>a, <2>a, SavedStays
  <2> QED
    BY <2>1, <1>a, <1>1 DEF IInv, TypeOK, Agree, Committed, Undoing, Kept, NothingLost
<1> QED
  BY <1>1, <1>2, <1>3, <1>4, <1>5, <1>6, <1>7, <1>8, <1>9 DEF IInv

\* Write keeps the invariant.
LEMMA WriteStep ==
  ASSUME IInv, Write
  PROVE  IInv'
<1> USE DEF Write, locals, history, Quiet, Old, Goto, Files, Config, Pending, Committing, Recorded
<1>a. Last' = Last /\ Len(records') = Len(records)
      /\ \A i \in 1..Len(records) : records'[i].backup = records[i].backup
  BY DEF Last
<1>1. TypeOK'
  <2>1. pc' \in Phases /\ at' \in 0..(N + 1)
    BY DEF IInv, TypeOK, Committed, Undoing, Phases
  <2>2. lock' \in BOOLEAN /\ stuck' \in BOOLEAN
    BY DEF IInv, TypeOK
  <2>3. files' \in [Files -> Content] /\ plan' \in Contents /\ backup' \in Contents
    BY MigratedContent DEF IInv, TypeOK, Contents, Agree, Committed, Undoing, Nothing
  <2>4. done' \subseteq Files /\ raced' \subseteq Files /\ ver' \in [Files -> Nat]
    BY DEF IInv, TypeOK, Committed
  <2>5. records' \in Seq([status : Statuses, plan : Contents, backup : Contents])
    BY DEF IInv, TypeOK
  <2> QED BY <2>1, <2>2, <2>3, <2>4, <2>5 DEF TypeOK
<1>2. Versions'
  BY <1>a, <1>1 DEF IInv, TypeOK, Versions, Agree, Committed, Migrated, Content, Contents
<1>3. Planned'
  BY <1>a, <1>1 DEF IInv, TypeOK, Versions, Planned
<1>4. BackedUp'
  BY <1>a, <1>1 DEF IInv, TypeOK, BackedUp
<1>5. Agree'
  BY <1>a, <1>1 DEF IInv, TypeOK, Versions, Planned, BackedUp, Agree, Committed
<1>6. Committed'
  BY <1>a, <1>1 DEF IInv, TypeOK, Versions, Agree, Committed, Planned
<1>7. Undoing'
  BY <1>a, <1>1 DEF IInv, TypeOK, Versions, Agree, Committed, Undoing
<1>8. Told'
  BY <1>a, <1>1 DEF IInv, TypeOK, Versions, Told, Agree, Committed, Undoing
<1>9. Kept'
  <2>a. Len(records) \in Nat /\ Len(records') \in Nat
    BY <1>1 DEF IInv, TypeOK
  <2>1. \A f : Saved(f) \subseteq Saved(f)'
    BY <1>a, <2>a, SavedStays
  <2> QED
    BY <2>1, <1>a, <1>1 DEF IInv, TypeOK, Agree, Committed, Undoing, Kept, NothingLost
<1> QED
  BY <1>1, <1>2, <1>3, <1>4, <1>5, <1>6, <1>7, <1>8, <1>9 DEF IInv

\* Verify keeps the invariant.
LEMMA VerifyStep ==
  ASSUME IInv, Verify
  PROVE  IInv'
<1> USE DEF Verify, locals, history, Quiet, Old, Goto, Files, Config, Pending, Committing, Recorded
<1>a. Last' = Last /\ Len(records') = Len(records)
      /\ \A i \in 1..Len(records) : records'[i].backup = records[i].backup
  BY DEF Last
<1>1. TypeOK'
  <2>1. pc' \in Phases /\ at' \in 0..(N + 1)
    BY DEF IInv, TypeOK, Committed, Undoing, Phases
  <2>2. lock' \in BOOLEAN /\ stuck' \in BOOLEAN
    BY DEF IInv, TypeOK
  <2>3. files' \in [Files -> Content] /\ plan' \in Contents /\ backup' \in Contents
    BY DEF IInv, TypeOK, Contents, Agree, Committed, Undoing, Nothing
  <2>4. done' \subseteq Files /\ raced' \subseteq Files /\ ver' \in [Files -> Nat]
    BY DEF IInv, TypeOK, Committed
  <2>5. records' \in Seq([status : Statuses, plan : Contents, backup : Contents])
    BY DEF IInv, TypeOK
  <2> QED BY <2>1, <2>2, <2>3, <2>4, <2>5 DEF TypeOK
<1>2. Versions'
  BY <1>a, <1>1 DEF IInv, TypeOK, Versions, Agree, Committed, Migrated, Content, Contents
<1>3. Planned'
  BY <1>a, <1>1 DEF IInv, TypeOK, Versions, Planned
<1>4. BackedUp'
  BY <1>a, <1>1 DEF IInv, TypeOK, BackedUp
<1>5. Agree'
  BY <1>a, <1>1 DEF IInv, TypeOK, Versions, Planned, BackedUp, Agree, Committed
<1>6. Committed'
  <2>1. at \in Files /\ at + 1 \in Nat /\ (at + 1 \in Files \/ at + 1 = N + 1)
    BY DEF IInv, TypeOK, Committed
  <2>2. \A f \in Files : /\ f < at + 1 => f < at \/ f = at
                         /\ f >= at + 1 => f > at
    BY <2>1
  <2>3. \A f \in done' : f <= at + 1 /\ plan[f] # None
    BY <2>1 DEF IInv, TypeOK, Committed
  <2>4. \A f \in Files : Quiet(f)' => /\ f < at + 1 => files[f] = Migrated(Old(f)) /\ f \in done'
                                      /\ f >= at + 1 => files[f] = Old(f)
    BY <1>a, <2>1, <2>2 DEF IInv, Committed
  <2> QED
    BY <1>a, <2>1, <2>3, <2>4 DEF Committed
<1>7. Undoing'
  BY <1>a, <1>1 DEF IInv, TypeOK, Versions, Agree, Committed, Undoing
<1>8. Told'
  BY <1>a, <1>1 DEF IInv, TypeOK, Versions, Told, Agree, Committed, Undoing
<1>9. Kept'
  <2>a. Len(records) \in Nat /\ Len(records') \in Nat
    BY <1>1 DEF IInv, TypeOK
  <2>1. \A f : Saved(f) \subseteq Saved(f)'
    BY <1>a, <2>a, SavedStays
  <2> QED
    BY <2>1, <1>a, <1>1 DEF IInv, TypeOK, Agree, Committed, Undoing, Kept, NothingLost
<1> QED
  BY <1>1, <1>2, <1>3, <1>4, <1>5, <1>6, <1>7, <1>8, <1>9 DEF IInv

\* CommitFails keeps the invariant.
LEMMA CommitFailsStep ==
  ASSUME IInv, CommitFails
  PROVE  IInv'
<1> USE DEF CommitFails, locals, history, Quiet, Old, Goto, Files, Config, Pending, Committing, Recorded
<1>a. Last' = Last /\ Len(records') = Len(records)
      /\ \A i \in 1..Len(records) : records'[i].backup = records[i].backup
  BY DEF Last
<1>1. TypeOK'
  <2>1. pc' \in Phases /\ at' \in 0..(N + 1)
    BY DEF IInv, TypeOK, Committed, Undoing, Phases
  <2>2. lock' \in BOOLEAN /\ stuck' \in BOOLEAN
    BY DEF IInv, TypeOK
  <2>3. files' \in [Files -> Content] /\ plan' \in Contents /\ backup' \in Contents
    BY DEF IInv, TypeOK, Contents, Agree, Committed, Undoing, Nothing
  <2>4. done' \subseteq Files /\ raced' \subseteq Files /\ ver' \in [Files -> Nat]
    BY DEF IInv, TypeOK, Committed
  <2>5. records' \in Seq([status : Statuses, plan : Contents, backup : Contents])
    BY DEF IInv, TypeOK
  <2> QED BY <2>1, <2>2, <2>3, <2>4, <2>5 DEF TypeOK
<1>2. Versions'
  BY <1>a, <1>1 DEF IInv, TypeOK, Versions, Agree, Committed, Migrated, Content, Contents
<1>3. Planned'
  BY <1>a, <1>1 DEF IInv, TypeOK, Versions, Planned
<1>4. BackedUp'
  BY <1>a, <1>1 DEF IInv, TypeOK, BackedUp
<1>5. Agree'
  BY <1>a, <1>1 DEF IInv, TypeOK, Versions, Planned, BackedUp, Agree, Committed
<1>6. Committed'
  BY <1>a, <1>1 DEF IInv, TypeOK, Versions, Agree, Committed, Planned
<1>7. Undoing'
  <2>1. SUFFICES ASSUME pc' = "undo" PROVE Undoing'
    BY DEF Undoing
  <2>2. at' = N /\ at \in Files /\ \A f \in done : plan[f] # None
    BY <2>1 DEF IInv, Committed
  <2>3. ASSUME NEW f \in Files, Quiet(f) PROVE files[f] \in {Old(f), Migrated(Old(f))}
    BY <2>3, Mixed
  <2>4. ASSUME NEW f \in Files, Quiet(f), f \notin done PROVE files[f] = Old(f)
    <3>1. f = at \/ f > at
      BY <2>2, <2>4 DEF IInv, Committed
    <3>2. f = at => pc \in {"check", "write", "verify"} /\ (at = Config => pc = "check")
      BY <2>4 DEF IInv, Committed
    <3>3. f = at => pc = "check"
      BY <2>1, <3>2
    <3> QED
      BY <2>4, <3>1, <3>3 DEF IInv, Committed
  <2> QED
    BY <1>a, <2>2, <2>3, <2>4 DEF Undoing
<1>8. Told'
  BY <1>a, <1>1 DEF IInv, TypeOK, Versions, Told, Agree, Committed, Undoing
<1>9. Kept'
  <2>a. Len(records) \in Nat /\ Len(records') \in Nat
    BY <1>1 DEF IInv, TypeOK
  <2>1. \A f : Saved(f) \subseteq Saved(f)'
    BY <1>a, <2>a, SavedStays
  <2> QED
    BY <2>1, <1>a, <1>1 DEF IInv, TypeOK, Agree, Committed, Undoing, Kept, NothingLost
<1> QED
  BY <1>1, <1>2, <1>3, <1>4, <1>5, <1>6, <1>7, <1>8, <1>9 DEF IInv

\* RestoreFailed keeps the invariant.
LEMMA RestoreFailedStep ==
  ASSUME IInv, RestoreFailed
  PROVE  IInv'
<1> USE DEF RestoreFailed, locals, history, Quiet, Old, Goto, Files, Config, Pending, Committing, Recorded
<1>a. Last' = Last /\ Len(records') = Len(records)
      /\ \A i \in 1..Len(records) : records'[i].backup = records[i].backup
  BY DEF Last
<1>1. TypeOK'
  <2>1. pc' \in Phases /\ at' \in 0..(N + 1)
    BY DEF IInv, TypeOK, Committed, Undoing, Phases
  <2>2. lock' \in BOOLEAN /\ stuck' \in BOOLEAN
    BY DEF IInv, TypeOK, Restore
  <2>3. files' \in [Files -> Content] /\ plan' \in Contents /\ backup' \in Contents
    BY DEF IInv, TypeOK, Contents, Agree, Committed, Undoing, Nothing, Restore
  <2>4. done' \subseteq Files /\ raced' \subseteq Files /\ ver' \in [Files -> Nat]
    BY DEF IInv, TypeOK, Committed
  <2>5. records' \in Seq([status : Statuses, plan : Contents, backup : Contents])
    BY DEF IInv, TypeOK
  <2> QED BY <2>1, <2>2, <2>3, <2>4, <2>5 DEF TypeOK
<1>2. Versions'
  <2>1. \A f \in Files : files'[f] = files[f] \/ (f = at /\ files'[f] = backup[f])
    BY DEF IInv, TypeOK, Restore
  <2>2. \A f \in Files : files'[f] = files[f] \/ (files'[f] = backup[f] /\ backup[f] # None)
    BY <2>1 DEF IInv, Agree, Committed, Undoing
  <2> QED
    BY <1>a, <2>2 DEF IInv, Versions
<1>3. Planned'
  BY <1>a, <1>1 DEF IInv, TypeOK, Versions, Planned, Restore
<1>4. BackedUp'
  BY <1>a, <1>1 DEF IInv, TypeOK, BackedUp, Restore
<1>5. Agree'
  BY <1>a, <1>1 DEF IInv, TypeOK, Versions, Planned, BackedUp, Agree, Committed, Restore
<1>6. Committed'
  BY <1>a, <1>1 DEF IInv, TypeOK, Versions, Agree, Committed, Planned, Restore
<1>7. Undoing'
  <2>1. at \in Files /\ \A f \in done : plan[f] # None
    BY DEF IInv, Committed
  <2>2. backup[at] = Old(at)
    BY DEF IInv, Agree
  <2>3. files'[at] = backup[at] \/ (files'[at] = files[at] /\ stuck')
    BY <2>1 DEF IInv, TypeOK, Restore
  <2>4. \A f \in Files : f # at => files'[f] = files[f]
    BY DEF IInv, TypeOK, Restore
  <2>5. \A f \in Files : Quiet(f) => files[f] \in {Old(f), Migrated(Old(f))}
    BY Mixed
  <2>6. \A f \in Files : Quiet(f) => f \in done \/ f = at \/ files[f] = Old(f)
    BY <2>1 DEF IInv, Committed
  <2> QED
    BY <1>a, <2>1, <2>2, <2>3, <2>4, <2>5, <2>6 DEF Undoing
<1>8. Told'
  BY <1>a, <1>1 DEF IInv, TypeOK, Versions, Told, Agree, Committed, Undoing, Restore
<1>9. Kept'
  <2>a. Len(records) \in Nat /\ Len(records') \in Nat
    BY <1>1 DEF IInv, TypeOK
  <2>1. \A f : Saved(f) \subseteq Saved(f)'
    BY <1>a, <2>a, SavedStays
  <2>2. \A f \in Files : files'[f] = files[f] \/ f = at
    BY DEF IInv, TypeOK, Restore
  <2> QED
    BY <2>1, <2>2 DEF IInv, Kept, NothingLost
<1> QED
  BY <1>1, <1>2, <1>3, <1>4, <1>5, <1>6, <1>7, <1>8, <1>9 DEF IInv

\* Undo keeps the invariant.
LEMMA UndoStep ==
  ASSUME IInv, Undo
  PROVE  IInv'
<1> USE DEF Undo, locals, history, Quiet, Old, Goto, Files, Config, Pending, Committing, Recorded
<1>a. Last' = Last /\ Len(records') = Len(records)
      /\ \A i \in 1..Len(records) : records'[i].backup = records[i].backup
  BY DEF Last
<1>1. TypeOK'
  <2>1. pc' \in Phases /\ at' \in 0..(N + 1)
    BY DEF IInv, TypeOK, Committed, Undoing, Phases
  <2>2. lock' \in BOOLEAN /\ stuck' \in BOOLEAN
    BY DEF IInv, TypeOK, Restore
  <2>3. files' \in [Files -> Content] /\ plan' \in Contents /\ backup' \in Contents
    BY DEF IInv, TypeOK, Contents, Agree, Committed, Undoing, Nothing, Restore
  <2>4. done' \subseteq Files /\ raced' \subseteq Files /\ ver' \in [Files -> Nat]
    BY DEF IInv, TypeOK, Committed
  <2>5. records' \in Seq([status : Statuses, plan : Contents, backup : Contents])
    BY DEF IInv, TypeOK
  <2> QED BY <2>1, <2>2, <2>3, <2>4, <2>5 DEF TypeOK
<1>2. Versions'
  <2>1. \A f \in Files : files'[f] = files[f] \/ (f = at /\ files'[f] = backup[f])
    BY DEF IInv, TypeOK, Restore
  <2>2. \A f \in Files : files'[f] = files[f] \/ (files'[f] = backup[f] /\ backup[f] # None)
    BY <2>1 DEF IInv, Agree, Committed, Undoing, Restore
  <2> QED
    BY <1>a, <2>2 DEF IInv, Versions
<1>3. Planned'
  BY <1>a, <1>1 DEF IInv, TypeOK, Versions, Planned, Restore
<1>4. BackedUp'
  BY <1>a, <1>1 DEF IInv, TypeOK, BackedUp, Restore
<1>5. Agree'
  BY <1>a, <1>1 DEF IInv, TypeOK, Versions, Planned, BackedUp, Agree, Committed, Restore
<1>6. Committed'
  BY <1>a, <1>1 DEF IInv, TypeOK, Versions, Agree, Committed, Planned, Restore
<1>7. Undoing'
  <2>1. at - 1 \in 0..N /\ \A f \in Files : f > at - 1 => f = at \/ f > at
    OBVIOUS
  <2>2. backup[at] = Old(at)
    BY DEF IInv, Agree
  <2>3. at \in done => files'[at] = backup[at] \/ (files'[at] = files[at] /\ stuck')
    BY DEF IInv, TypeOK, Restore
  <2>4. \A f \in Files : f # at \/ at \notin done => files'[f] = files[f]
    BY DEF IInv, TypeOK, Restore
  <2>5. stuck => stuck'
    BY DEF Restore
  <2> QED
    BY <1>a, <2>1, <2>2, <2>3, <2>4, <2>5 DEF IInv, Undoing
<1>8. Told'
  BY <1>a, <1>1 DEF IInv, TypeOK, Versions, Told, Agree, Committed, Undoing, Restore
<1>9. Kept'
  <2>a. Len(records) \in Nat /\ Len(records') \in Nat
    BY <1>1 DEF IInv, TypeOK
  <2>1. \A f : Saved(f) \subseteq Saved(f)'
    BY <1>a, <2>a, SavedStays
  <2>2. \A f \in Files : files'[f] = files[f] \/ f \in done
    BY DEF IInv, TypeOK, Restore
  <2> QED
    BY <2>1, <2>2 DEF IInv, Kept, NothingLost
<1> QED
  BY <1>1, <1>2, <1>3, <1>4, <1>5, <1>6, <1>7, <1>8, <1>9 DEF IInv

\* Commit keeps the invariant.
LEMMA CommitStep ==
  ASSUME IInv, Commit
  PROVE  IInv'
<1> USE DEF Commit, locals, history, Quiet, Old, Goto, Files, Config, Pending, Committing, Recorded
<1>a. /\ records' \in Seq([status : Statuses, plan : Contents, backup : Contents])
      /\ Len(records') = Len(records)
      /\ Last'.status = "committed" /\ Last'.plan = Last.plan /\ Last'.backup = Last.backup
      /\ \A i \in 1..Len(records) : records'[i].backup = records[i].backup
  BY StatusLemma DEF IInv, Agree, Statuses, Committed
<1>1. TypeOK'
  <2>1. pc' \in Phases /\ at' \in 0..(N + 1)
    BY DEF IInv, TypeOK, Committed, Undoing, Phases
  <2>2. lock' \in BOOLEAN /\ stuck' \in BOOLEAN
    BY DEF IInv, TypeOK
  <2>3. files' \in [Files -> Content] /\ plan' \in Contents /\ backup' \in Contents
    BY DEF IInv, TypeOK, Contents, Agree, Committed, Undoing, Nothing
  <2>4. done' \subseteq Files /\ raced' \subseteq Files /\ ver' \in [Files -> Nat]
    BY DEF IInv, TypeOK, Committed
  <2>5. records' \in Seq([status : Statuses, plan : Contents, backup : Contents])
    BY <1>a DEF IInv, TypeOK
  <2> QED BY <2>1, <2>2, <2>3, <2>4, <2>5 DEF TypeOK
<1>2. Versions'
  BY <1>a, <1>1 DEF IInv, TypeOK, Versions, Agree, Committed, Migrated, Content, Contents
<1>3. Planned'
  BY <1>a, <1>1 DEF IInv, TypeOK, Versions, Planned
<1>4. BackedUp'
  BY <1>a, <1>1 DEF IInv, TypeOK, BackedUp
<1>5. Agree'
  BY <1>a, <1>1 DEF IInv, TypeOK, Versions, Planned, BackedUp, Agree, Committed
<1>6. Committed'
  BY <1>a, <1>1 DEF IInv, TypeOK, Versions, Agree, Committed, Planned
<1>7. Undoing'
  BY <1>a, <1>1 DEF IInv, TypeOK, Versions, Agree, Committed, Undoing
<1>8. Told'
  <2>1. \A f \in Files : f < at
    OBVIOUS
  <2>2. \A f \in Files : Quiet(f) => files[f] = Migrated(Old(f))
    BY <2>1 DEF IInv, Committed
  <2> QED
    BY <1>a, <2>2 DEF Told
<1>9. Kept'
  <2>a. Len(records) \in Nat /\ Len(records') \in Nat
    BY <1>1 DEF IInv, TypeOK
  <2>1. \A f : Saved(f) \subseteq Saved(f)'
    BY <1>a, <2>a, SavedStays
  <2> QED
    BY <2>1, <1>a, <1>1 DEF IInv, TypeOK, Agree, Committed, Undoing, Kept, NothingLost
<1> QED
  BY <1>1, <1>2, <1>3, <1>4, <1>5, <1>6, <1>7, <1>8, <1>9 DEF IInv

\* Rollback keeps the invariant.
LEMMA RollbackStep ==
  ASSUME IInv, Rollback
  PROVE  IInv'
<1> USE DEF Rollback, locals, history, Quiet, Old, Goto, Files, Config, Pending, Committing, Recorded
<1>a. /\ records' \in Seq([status : Statuses, plan : Contents, backup : Contents])
      /\ Len(records') = Len(records)
      /\ Last'.status = (IF stuck THEN "rollback-failed" ELSE "rolled-back") /\ Last'.plan = Last.plan /\ Last'.backup = Last.backup
      /\ \A i \in 1..Len(records) : records'[i].backup = records[i].backup
  BY StatusLemma DEF IInv, Agree, Statuses, Committed
<1>1. TypeOK'
  <2>1. pc' \in Phases /\ at' \in 0..(N + 1)
    BY DEF IInv, TypeOK, Committed, Undoing, Phases
  <2>2. lock' \in BOOLEAN /\ stuck' \in BOOLEAN
    BY DEF IInv, TypeOK
  <2>3. files' \in [Files -> Content] /\ plan' \in Contents /\ backup' \in Contents
    BY DEF IInv, TypeOK, Contents, Agree, Committed, Undoing, Nothing
  <2>4. done' \subseteq Files /\ raced' \subseteq Files /\ ver' \in [Files -> Nat]
    BY DEF IInv, TypeOK, Committed
  <2>5. records' \in Seq([status : Statuses, plan : Contents, backup : Contents])
    BY <1>a DEF IInv, TypeOK
  <2> QED BY <2>1, <2>2, <2>3, <2>4, <2>5 DEF TypeOK
<1>2. Versions'
  BY <1>a, <1>1 DEF IInv, TypeOK, Versions, Agree, Committed, Migrated, Content, Contents
<1>3. Planned'
  BY <1>a, <1>1 DEF IInv, TypeOK, Versions, Planned
<1>4. BackedUp'
  BY <1>a, <1>1 DEF IInv, TypeOK, BackedUp
<1>5. Agree'
  BY <1>a, <1>1 DEF IInv, TypeOK, Versions, Planned, BackedUp, Agree, Committed
<1>6. Committed'
  BY <1>a, <1>1 DEF IInv, TypeOK, Versions, Agree, Committed, Planned
<1>7. Undoing'
  BY <1>a, <1>1 DEF IInv, TypeOK, Versions, Agree, Committed, Undoing
<1>8. Told'
  <2>1. \A f \in Files : f > at
    OBVIOUS
  <2>2. \A f \in Files : Quiet(f) => /\ files[f] \in {Old(f), Migrated(Old(f))}
                                     /\ stuck \/ files[f] = Old(f)
    BY <2>1 DEF IInv, Undoing
  <2>3. stuck \in BOOLEAN
    BY DEF IInv, TypeOK
  <2> QED
    BY <1>a, <2>2, <2>3 DEF Told
<1>9. Kept'
  <2>a. Len(records) \in Nat /\ Len(records') \in Nat
    BY <1>1 DEF IInv, TypeOK
  <2>1. \A f : Saved(f) \subseteq Saved(f)'
    BY <1>a, <2>a, SavedStays
  <2> QED
    BY <2>1, <1>a, <1>1 DEF IInv, TypeOK, Agree, Committed, Undoing, Kept, NothingLost
<1> QED
  BY <1>1, <1>2, <1>3, <1>4, <1>5, <1>6, <1>7, <1>8, <1>9 DEF IInv

\* Abort keeps the invariant.
LEMMA AbortStep ==
  ASSUME IInv, Abort
  PROVE  IInv'
<1> USE DEF Abort, locals, history, Quiet, Old, Goto, Files, Config, Pending, Committing, Recorded
<1>a. Last' = Last /\ Len(records') = Len(records)
      /\ \A i \in 1..Len(records) : records'[i].backup = records[i].backup
  BY DEF Last
<1>1. TypeOK'
  <2>1. pc' \in Phases /\ at' \in 0..(N + 1)
    BY DEF IInv, TypeOK, Committed, Undoing, Phases
  <2>2. lock' \in BOOLEAN /\ stuck' \in BOOLEAN
    BY DEF IInv, TypeOK
  <2>3. files' \in [Files -> Content] /\ plan' \in Contents /\ backup' \in Contents
    BY DEF IInv, TypeOK, Contents, Agree, Committed, Undoing, Nothing
  <2>4. done' \subseteq Files /\ raced' \subseteq Files /\ ver' \in [Files -> Nat]
    BY DEF IInv, TypeOK, Committed
  <2>5. records' \in Seq([status : Statuses, plan : Contents, backup : Contents])
    BY DEF IInv, TypeOK
  <2> QED BY <2>1, <2>2, <2>3, <2>4, <2>5 DEF TypeOK
<1>2. Versions'
  BY <1>a, <1>1 DEF IInv, TypeOK, Versions, Agree, Committed, Migrated, Content, Contents
<1>3. Planned'
  BY <1>a, <1>1 DEF IInv, TypeOK, Versions, Planned
<1>4. BackedUp'
  BY <1>a, <1>1 DEF IInv, TypeOK, BackedUp
<1>5. Agree'
  BY <1>a, <1>1 DEF IInv, TypeOK, Versions, Planned, BackedUp, Agree, Committed
<1>6. Committed'
  BY <1>a, <1>1 DEF IInv, TypeOK, Versions, Agree, Committed, Planned
<1>7. Undoing'
  BY <1>a, <1>1 DEF IInv, TypeOK, Versions, Agree, Committed, Undoing
<1>8. Told'
  BY <1>a, Mixed DEF IInv, Told, Agree
<1>9. Kept'
  <2>a. Len(records) \in Nat /\ Len(records') \in Nat
    BY <1>1 DEF IInv, TypeOK
  <2>1. \A f : Saved(f) \subseteq Saved(f)'
    BY <1>a, <2>a, SavedStays
  <2> QED
    BY <2>1, <1>a, <1>1 DEF IInv, TypeOK, Agree, Committed, Undoing, Kept, NothingLost
<1> QED
  BY <1>1, <1>2, <1>3, <1>4, <1>5, <1>6, <1>7, <1>8, <1>9 DEF IInv

\* Release keeps the invariant.
LEMMA ReleaseStep ==
  ASSUME IInv, Release
  PROVE  IInv'
<1> USE DEF Release, locals, history, Quiet, Old, Goto, Files, Config, Pending, Committing, Recorded
<1>a. Last' = Last /\ Len(records') = Len(records)
      /\ \A i \in 1..Len(records) : records'[i].backup = records[i].backup
  BY DEF Last
<1>1. TypeOK'
  <2>1. pc' \in Phases /\ at' \in 0..(N + 1)
    BY DEF IInv, TypeOK, Committed, Undoing, Phases
  <2>2. lock' \in BOOLEAN /\ stuck' \in BOOLEAN
    BY DEF IInv, TypeOK
  <2>3. files' \in [Files -> Content] /\ plan' \in Contents /\ backup' \in Contents
    BY DEF IInv, TypeOK, Contents, Agree, Committed, Undoing, Nothing
  <2>4. done' \subseteq Files /\ raced' \subseteq Files /\ ver' \in [Files -> Nat]
    BY DEF IInv, TypeOK, Committed
  <2>5. records' \in Seq([status : Statuses, plan : Contents, backup : Contents])
    BY DEF IInv, TypeOK
  <2> QED BY <2>1, <2>2, <2>3, <2>4, <2>5 DEF TypeOK
<1>2. Versions'
  BY <1>a, <1>1 DEF IInv, TypeOK, Versions, Agree, Committed, Migrated, Content, Contents
<1>3. Planned'
  BY <1>a, <1>1 DEF IInv, TypeOK, Versions, Planned
<1>4. BackedUp'
  BY <1>a, <1>1 DEF IInv, TypeOK, BackedUp
<1>5. Agree'
  BY <1>a, <1>1 DEF IInv, TypeOK, Versions, Planned, BackedUp, Agree, Committed
<1>6. Committed'
  BY <1>a, <1>1 DEF IInv, TypeOK, Versions, Agree, Committed, Planned
<1>7. Undoing'
  BY <1>a, <1>1 DEF IInv, TypeOK, Versions, Agree, Committed, Undoing
<1>8. Told'
  BY <1>a, <1>1 DEF IInv, TypeOK, Versions, Told, Agree, Committed, Undoing
<1>9. Kept'
  <2>a. Len(records) \in Nat /\ Len(records') \in Nat
    BY <1>1 DEF IInv, TypeOK
  <2>1. \A f : Saved(f) \subseteq Saved(f)'
    BY <1>a, <2>a, SavedStays
  <2> QED
    BY <2>1, <1>a, <1>1 DEF IInv, TypeOK, Agree, Committed, Undoing, Kept, NothingLost
<1> QED
  BY <1>1, <1>2, <1>3, <1>4, <1>5, <1>6, <1>7, <1>8, <1>9 DEF IInv

\* Crash keeps the invariant.
LEMMA CrashStep ==
  ASSUME IInv, Crash
  PROVE  IInv'
<1> USE DEF Crash, locals, history, Quiet, Old, Goto, Files, Config, Pending, Committing, Recorded
<1>a. Last' = Last /\ Len(records') = Len(records)
      /\ \A i \in 1..Len(records) : records'[i].backup = records[i].backup
  BY DEF Last
<1>1. TypeOK'
  <2>1. pc' \in Phases /\ at' \in 0..(N + 1)
    BY DEF IInv, TypeOK, Committed, Undoing, Phases
  <2>2. lock' \in BOOLEAN /\ stuck' \in BOOLEAN
    BY DEF IInv, TypeOK
  <2>3. files' \in [Files -> Content] /\ plan' \in Contents /\ backup' \in Contents
    BY DEF IInv, TypeOK, Contents, Agree, Committed, Undoing, Nothing
  <2>4. done' \subseteq Files /\ raced' \subseteq Files /\ ver' \in [Files -> Nat]
    BY DEF IInv, TypeOK, Committed
  <2>5. records' \in Seq([status : Statuses, plan : Contents, backup : Contents])
    BY DEF IInv, TypeOK
  <2> QED BY <2>1, <2>2, <2>3, <2>4, <2>5 DEF TypeOK
<1>2. Versions'
  BY <1>a, <1>1 DEF IInv, TypeOK, Versions, Agree, Committed, Migrated, Content, Contents
<1>3. Planned'
  BY <1>a, <1>1 DEF IInv, TypeOK, Versions, Planned
<1>4. BackedUp'
  BY <1>a, <1>1 DEF IInv, TypeOK, BackedUp
<1>5. Agree'
  BY <1>a, <1>1 DEF IInv, TypeOK, Versions, Planned, BackedUp, Agree, Committed
<1>6. Committed'
  BY <1>a, <1>1 DEF IInv, TypeOK, Versions, Agree, Committed, Planned
<1>7. Undoing'
  BY <1>a, <1>1 DEF IInv, TypeOK, Versions, Agree, Committed, Undoing
<1>8. Told'
  BY <1>a, Mixed DEF IInv, Told, Agree
<1>9. Kept'
  <2>a. Len(records) \in Nat /\ Len(records') \in Nat
    BY <1>1 DEF IInv, TypeOK
  <2>1. \A f : Saved(f) \subseteq Saved(f)'
    BY <1>a, <2>a, SavedStays
  <2> QED
    BY <2>1, <1>a, <1>1 DEF IInv, TypeOK, Agree, Committed, Undoing, Kept, NothingLost
<1> QED
  BY <1>1, <1>2, <1>3, <1>4, <1>5, <1>6, <1>7, <1>8, <1>9 DEF IInv

\* RemoveLock keeps the invariant.
LEMMA RemoveLockStep ==
  ASSUME IInv, RemoveLock
  PROVE  IInv'
<1> USE DEF RemoveLock, locals, history, Quiet, Old, Goto, Files, Config, Pending, Committing, Recorded
<1>a. Last' = Last /\ Len(records') = Len(records)
      /\ \A i \in 1..Len(records) : records'[i].backup = records[i].backup
  BY DEF Last
<1>1. TypeOK'
  <2>1. pc' \in Phases /\ at' \in 0..(N + 1)
    BY DEF IInv, TypeOK, Committed, Undoing, Phases
  <2>2. lock' \in BOOLEAN /\ stuck' \in BOOLEAN
    BY DEF IInv, TypeOK
  <2>3. files' \in [Files -> Content] /\ plan' \in Contents /\ backup' \in Contents
    BY DEF IInv, TypeOK, Contents, Agree, Committed, Undoing, Nothing
  <2>4. done' \subseteq Files /\ raced' \subseteq Files /\ ver' \in [Files -> Nat]
    BY DEF IInv, TypeOK, Committed
  <2>5. records' \in Seq([status : Statuses, plan : Contents, backup : Contents])
    BY DEF IInv, TypeOK
  <2> QED BY <2>1, <2>2, <2>3, <2>4, <2>5 DEF TypeOK
<1>2. Versions'
  BY <1>a, <1>1 DEF IInv, TypeOK, Versions, Agree, Committed, Migrated, Content, Contents
<1>3. Planned'
  BY <1>a, <1>1 DEF IInv, TypeOK, Versions, Planned
<1>4. BackedUp'
  BY <1>a, <1>1 DEF IInv, TypeOK, BackedUp
<1>5. Agree'
  BY <1>a, <1>1 DEF IInv, TypeOK, Versions, Planned, BackedUp, Agree, Committed
<1>6. Committed'
  BY <1>a, <1>1 DEF IInv, TypeOK, Versions, Agree, Committed, Planned
<1>7. Undoing'
  BY <1>a, <1>1 DEF IInv, TypeOK, Versions, Agree, Committed, Undoing
<1>8. Told'
  BY <1>a, <1>1 DEF IInv, TypeOK, Versions, Told, Agree, Committed, Undoing
<1>9. Kept'
  <2>a. Len(records) \in Nat /\ Len(records') \in Nat
    BY <1>1 DEF IInv, TypeOK
  <2>1. \A f : Saved(f) \subseteq Saved(f)'
    BY <1>a, <2>a, SavedStays
  <2> QED
    BY <2>1, <1>a, <1>1 DEF IInv, TypeOK, Agree, Committed, Undoing, Kept, NothingLost
<1> QED
  BY <1>1, <1>2, <1>3, <1>4, <1>5, <1>6, <1>7, <1>8, <1>9 DEF IInv

\* OtherWrite keeps the invariant.
LEMMA OtherWriteStep ==
  ASSUME IInv, NEW g \in Files, OtherWrite(g)
  PROVE  IInv'
<1> USE DEF OtherWrite, locals, history, Quiet, Old, Goto, Files, Config, Pending, Committing, Recorded
<1>a. Last' = Last /\ Len(records') = Len(records)
      /\ \A i \in 1..Len(records) : records'[i].backup = records[i].backup
  BY DEF Last
<1>1. TypeOK'
  <2>1. pc' \in Phases /\ at' \in 0..(N + 1)
    BY DEF IInv, TypeOK, Committed, Undoing, Phases
  <2>2. lock' \in BOOLEAN /\ stuck' \in BOOLEAN
    BY DEF IInv, TypeOK
  <2>3. files' \in [Files -> Content] /\ plan' \in Contents /\ backup' \in Contents
    <3>1. ver[g] + 1 \in Nat /\ ver'[g] = ver[g] + 1
      BY DEF IInv, TypeOK
    <3>2. \A s \in {"old", "new"} : [v |-> ver'[g], schema |-> s] \in Content
      BY <3>1 DEF Content
    <3> QED
      BY <3>2 DEF IInv, TypeOK
  <2>4. done' \subseteq Files /\ raced' \subseteq Files /\ ver' \in [Files -> Nat]
    BY DEF IInv, TypeOK, Committed
  <2>5. records' \in Seq([status : Statuses, plan : Contents, backup : Contents])
    BY DEF IInv, TypeOK
  <2> QED BY <2>1, <2>2, <2>3, <2>4, <2>5 DEF TypeOK
<1>2. Versions'
  <2>1. files'[g].v = ver[g] + 1 /\ ver'[g] = ver[g] + 1 /\ ver[g] \in Nat
    BY DEF IInv, TypeOK
  <2>2. \A f \in Files : f # g => files'[f] = files[f] /\ ver'[f] = ver[f]
    BY DEF IInv, TypeOK
  <2>3. /\ plan[g] # None => plan[g].v \in Nat
        /\ backup[g] # None => backup[g].v \in Nat
        /\ Len(records) > 0 /\ Last.plan[g] # None => Last.plan[g].v \in Nat
    <3>1. Len(records) > 0 => Last.plan \in Contents
      BY LastRecord DEF IInv
    <3> QED
      BY <3>1 DEF IInv, TypeOK, Contents, Content
  <2> QED
    BY <1>a, <2>1, <2>2, <2>3 DEF IInv, Versions
<1>3. Planned'
  <2>1. files'[g].v = ver[g] + 1 /\ ver'[g] = ver[g] + 1 /\ ver[g] \in Nat
    BY DEF IInv, TypeOK
  <2>2. \A f \in Files : f # g => files'[f] = files[f] /\ ver'[f] = ver[f]
    BY DEF IInv, TypeOK
  <2>3. plan[g] # None => plan[g].v \in Nat /\ plan[g].v <= ver[g]
    BY DEF IInv, TypeOK, Versions, Contents, Content
  <2> QED
    BY <2>1, <2>2, <2>3 DEF IInv, Planned
<1>4. BackedUp'
  BY <1>a, <1>1 DEF IInv, TypeOK, BackedUp
<1>5. Agree'
  BY <1>a, <1>1 DEF IInv, TypeOK, Versions, Planned, BackedUp, Agree, Committed
<1>6. Committed'
  BY SMTT(30), <1>a, <1>1 DEF IInv, TypeOK, Versions, Agree, Committed, Planned
<1>7. Undoing'
  BY <1>a, <1>1 DEF IInv, TypeOK, Versions, Agree, Committed, Undoing
<1>8. Told'
  BY <1>a, <1>1 DEF IInv, TypeOK, Versions, Told, Agree, Committed, Undoing
<1>9. Kept'
  <2>1. files'[g].v = ver[g] + 1 /\ ver'[g] = ver[g] + 1 /\ ver[g] \in Nat
    BY DEF IInv, TypeOK
  <2>2. \A f \in Files : f # g => files'[f] = files[f] /\ ver'[f] = ver[f]
    BY DEF IInv, TypeOK
  <2>3. \A f : Saved(f) \subseteq Saved(f)'
    BY <1>a, <1>1, SavedStays DEF IInv, TypeOK
  <2>4. \A f \in Files : f # g => (f \in raced' <=> f \in raced)
    OBVIOUS
  <2>5. g \notin raced' => ~Unwatched(g)
    OBVIOUS
  <2>6. g = at /\ pc \in Committing \ {"check"} => Unwatched(g)
    BY DEF Unwatched, IInv, Committed
  <2> QED
    BY <2>1, <2>2, <2>3, <2>4, <2>5, <2>6 DEF IInv, Kept, NothingLost, Unwatched
<1> QED
  BY <1>1, <1>2, <1>3, <1>4, <1>5, <1>6, <1>7, <1>8, <1>9 DEF IInv

-----------------------------------------------------------------------------
(* The theorems *)

\* The invariant holds at the start.
LEMMA InitInv == Init => IInv
<1> SUFFICES ASSUME Init PROVE IInv
  OBVIOUS
<1> USE DEF Init, Quiet, Old, Files, Pending, Nothing
<1>0. files \in [Files -> Content] /\ plan \in Contents /\ backup \in Contents
  <2>1. \A s \in {"old", "new"} : [v |-> 0, schema |-> s] \in Content
    BY DEF Content
  <2> QED
    BY <2>1 DEF Contents
<1>b. /\ records \in Seq([status : Statuses, plan : Contents, backup : Contents])
      /\ at \in 0..(N + 1) /\ ver \in [Files -> Nat]
  OBVIOUS
<1>1. TypeOK
  BY <1>0, <1>b DEF TypeOK, Phases
<1>2. Len(records) = 0
  OBVIOUS
<1>3. Versions /\ Planned /\ BackedUp
  BY <1>2 DEF Versions, Planned, BackedUp
<1>4. Agree /\ Committed /\ Undoing /\ Told
  BY <1>2 DEF Agree, Committed, Undoing, Told, Recorded, Committing
<1>5. Kept
  BY DEF Kept, NothingLost, Committing
<1> QED
  BY <1>1, <1>3, <1>4, <1>5 DEF IInv

\* The invariant is inductive.
LEMMA NextInv == IInv /\ [Next]_vars => IInv'
<1> SUFFICES ASSUME IInv, [Next]_vars PROVE IInv'
  OBVIOUS
<1>1. CASE Migrate
  BY <1>1, BeginStep, PlanFileStep, PlanDoneStep, BackupFileStep, PrepareStep, SkipStep,
     CheckStep, RecheckStep, ReadStep, WriteStep, VerifyStep, CommitFailsStep,
     RestoreFailedStep, UndoStep, CommitStep, RollbackStep, AbortStep, ReleaseStep DEF Migrate
<1>2. CASE Crash \/ RemoveLock
  BY <1>2, CrashStep, RemoveLockStep
<1>3. CASE \E f \in Files : OtherWrite(f)
  BY <1>3, OtherWriteStep
<1>4. CASE UNCHANGED vars
  <2> USE <1>4 DEF vars, locals, history
  <2>1. TypeOK' /\ Versions' /\ Planned' /\ BackedUp'
    BY DEF IInv, TypeOK, Versions, Planned, BackedUp, Pending, Last
  <2>2. Agree' /\ Committed' /\ Undoing' /\ Told'
    BY DEF IInv, Agree, Committed, Undoing, Told, Quiet, Old, Last
  <2>3. Kept'
    BY DEF IInv, Kept, NothingLost, Saved
  <2> QED
    BY <2>1, <2>2, <2>3 DEF IInv
<1> QED
  BY <1>1, <1>2, <1>3, <1>4 DEF Next

\* Hence it holds of every behaviour.
LEMMA Invariant == Spec => []IInv
BY InitInv, NextInv, PTL DEF Spec

\* Every variable keeps its type, for any number of files, writes and runs.
THEOREM TypeCorrect == Spec => []TypeOK
<1>1. IInv => TypeOK
  BY DEF IInv
<1> QED
  BY <1>1, Invariant, PTL

\* All or nothing: whenever no transaction runs, the record of the last one tells
\* the truth about every file that nobody else wrote.
THEOREM RecordTellsTruth == Spec => []Outcome
<1>1. IInv => Outcome
  BY DEF IInv, Told, Outcome, Recorded, Committing
<1> QED
  BY <1>1, Invariant, PTL

\* The last version somebody wrote is live or in a recorded backup, unless it came
\* after the last comparison of its file.
THEOREM WritesSurvive == Spec => []NothingLost
<1>1. IInv => NothingLost
  BY DEF IInv, Kept
<1> QED
  BY <1>1, Invariant, PTL
=============================================================================
