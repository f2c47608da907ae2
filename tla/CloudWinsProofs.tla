--------------------------- MODULE CloudWinsProofs ---------------------------
(***************************************************************************)
(* Proofs about CloudWins for any number of paths, contents, processes,    *)
(* runs and edits: the type invariant, the stack discipline of the runs,   *)
(* the baseline that names the run in force, the refinement of ImportStack,*)
(* and what the runs leave in the workspace.                               *)
(*                                                                         *)
(* BaselineIsLatest is not inductive: it says nothing while a run is       *)
(* unfinished.  StackInv adds what holds there (the baseline is that of    *)
(* the top run or of the one below it), and ProcInv ties each process that *)
(* holds the lock to the run it is working on.  CheckInv, on top of them,  *)
(* says what a `ready` or `verify` still knows of the journals it has read.*)
(* TreeInv and JobInv add the files: Recoverable and Settled say nothing   *)
(* in the middle of a rollback, or of a run below the top.                 *)
(***************************************************************************)
EXTENDS CloudWins, SequenceTheorems, TLAPS

Locked == {"staging", "staged", "prepared", "installing", "installChecked", "recorded",
           "rollbackChecked", "restoring", "restoreChecked", "restored"}

\* b is the run below r in the stack, 0 when there is none.
Below(r, b) ==
  \/ b = 0 /\ \A s \in Unrolled : ~(s < r)
  \/ b \in Unrolled /\ b < r /\ \A s \in Unrolled : s < r => s <= b

StackInv ==
  /\ OnlyLatestUnfinished
  /\ \A r \in Runs : journals[r].prev < r
  /\ \A r \in Unrolled : Below(r, journals[r].prev)
  /\ \A r \in Runs : IsLatest(r) => baseline \in {r, journals[r].prev}
  /\ Unrolled = {} => baseline = 0
  /\ BaselineIsLatest

Working(c, ph) == IsLatest(job[c].run) /\ journals[job[c].run].phase = ph

ProcOK(c) ==
  /\ pc[c] \in Locked => lock = c
  /\ pc[c] \in {"staging", "staged"} => Unfinished = {}
  /\ pc[c] = "staged" => Len(clean) > Len(journals)
  /\ pc[c] = "prepared" => Working(c, "Prepared")
  /\ pc[c] \in {"installing", "installChecked", "recorded"} => Working(c, "Applying")
  /\ pc[c] = "recorded" => baseline = job[c].run
  /\ pc[c] = "rollbackRead" => job[c].run \in Runs
  /\ pc[c] = "rollbackChecked" => IsLatest(job[c].run)
  /\ pc[c] \in {"restoring", "restoreChecked", "restored"} => Working(c, "RollingBack")
  /\ pc[c] = "restored" => baseline = journals[job[c].run].prev

ProcInv == \A c \in Procs : ProcOK(c)

IInv == TypeOK /\ StackInv /\ ProcInv

\* What the run below a new one left behind: 0 stands for the state before the
\* first run.
Left(b) == IF b = 0 THEN journals[1].plan.target ELSE Result(journals[b].plan)
Kept(b) == IF b = 0 THEN clean[1] ELSE clean[b]

\* A path of the top run holds what the run found or what it installs, and the
\* latter once the run is applied.
Fits(r, p) ==
  /\ target[p] \in {journals[r].plan.target[p], Result(journals[r].plan)[p]}
  /\ journals[r].phase = "Applied" => target[p] = Result(journals[r].plan)[p]

\* What the runs left in the workspace, on the paths nobody edited since: the top run
\* holds what it found or installs, and each run found what the one below it left.
TreeInv ==
  /\ \A r, s \in DOMAIN clean : r <= s => clean[r] \subseteq clean[s]
  /\ \A r \in Unrolled : \A p \in Kept(journals[r].prev) :
       journals[r].plan.target[p] = Left(journals[r].prev)[p]
  /\ \A r \in Unrolled : IsLatest(r) => \A p \in clean[r] : Fits(r, p)
  /\ Unrolled = {} /\ Runs # {} => \A p \in clean[1] : target[p] = Left(0)[p]

\* Processes that work on a run from the copy of its plan they read.
Owners == {"prepared", "installing", "installChecked", "recorded", "rollbackRead",
           "rollbackChecked", "restoring", "restoreChecked", "restored"}

\* What a process knows of the workspace while it works on a run.
JobOK(c) ==
  /\ pc[c] \in Owners => job[c].run \in Runs /\ job[c].plan = journals[job[c].run].plan
  /\ pc[c] = "staged" =>
       /\ \A p \in clean[Len(journals) + 1] : target[p] = job[c].plan.target[p]
       /\ Runs # {} => \A p \in Kept(baseline) : job[c].plan.target[p] = Left(baseline)[p]
  /\ pc[c] \in {"installing", "installChecked"} => job[c].todo \subseteq Changes(job[c].plan)
  /\ pc[c] \in {"installChecked", "restoreChecked"} => job[c].at \in job[c].todo
  /\ pc[c] = "recorded" => \A p \in clean[job[c].run] : target[p] = Result(job[c].plan)[p]
  /\ pc[c] \in {"restoring", "restoreChecked"} =>
       \A p \in (clean[job[c].run] \cap Changes(job[c].plan)) \ job[c].todo :
         target[p] = job[c].plan.target[p]
  /\ pc[c] = "restored" => \A p \in clean[job[c].run] : target[p] = job[c].plan.target[p]

JobInv == \A c \in Procs : JobOK(c)

-----------------------------------------------------------------------------
(* What the operators of CloudWins return *)

\* The two trees of a plan, the tree apply produces from it and the paths it
\* changes have their types.
LEMMA PlanTypes ==
  ASSUME NEW plan \in Plan
  PROVE  /\ plan.source \in Tree /\ plan.target \in Tree
         /\ Result(plan) \in Tree
         /\ Changes(plan) \subseteq Paths
  BY DEF Plan, Tree, Result, Changes

\* Rewriting a journal's phase changes no other field and no other journal.
LEMMA SetPhaseEffect ==
  ASSUME journals \in Seq(Journal), NEW r \in Runs, NEW ph \in Phase, SetPhase(r, ph)
  PROVE  /\ journals' \in Seq(Journal)
         /\ Len(journals') = Len(journals)
         /\ Runs' = Runs
         /\ journals'[r].phase = ph
         /\ \A s \in Runs : /\ journals'[s].plan = journals[s].plan
                            /\ journals'[s].prev = journals[s].prev
                            /\ s # r => journals'[s].phase = journals[s].phase
<1> DEFINE j == [journals[r] EXCEPT !.phase = ph]
<1>1. r \in 1..Len(journals) /\ Runs = 1..Len(journals)
  BY LenProperties DEF Runs
<1>2. journals[r] \in Journal
  BY <1>1, ElementOfSeq
<1>3. j \in Journal
  BY <1>2 DEF Journal
<1>4. journals' = [journals EXCEPT ![r] = j]
  BY DEF SetPhase
<1> HIDE DEF j
<1>5. /\ journals' \in Seq(Journal)
      /\ Len(journals') = Len(journals)
      /\ \A s \in 1..Len(journals) : journals'[s] = IF s = r THEN j ELSE journals[s]
  BY <1>1, <1>3, <1>4, ExceptSeq
<1>6. Runs' = Runs
  BY <1>1, <1>5, LenProperties DEF Runs
<1>7. j.phase = ph /\ j.plan = journals[r].plan /\ j.prev = journals[r].prev
  BY <1>2 DEF j, Journal
<1> QED
  BY <1>1, <1>5, <1>6, <1>7

\* Processes change their own control state and locals only.
LEMMA GotoEffect ==
  ASSUME TypeOK, NEW c \in Procs, NEW label, NEW locals, Goto(c, label, locals)
  PROVE  /\ pc'[c] = label /\ job'[c] = locals
         /\ \A d \in Procs : d # c => pc'[d] = pc[d] /\ job'[d] = job[d]
  BY DEF Goto, TypeOK

-----------------------------------------------------------------------------
(* The type invariant *)

\* Idle locals have their type.
LEMMA IdleType ==
  /\ Idle \in [run : Nat, known : Nat, todo : SUBSET Paths, at : Paths \cup {NoPath}, plan : Plan]
  BY DEF Idle, Phase, Plan, Tree

\* Every step keeps the types.  The bound on baseline needs the stack
\* invariants: a rollback writes back the baseline its journal recorded.
LEMMA TypeStep ==
  ASSUME IInv, Next
  PROVE  TypeOK'
<1> DEFINE Locals == [run : Nat, known : Nat, todo : SUBSET Paths, at : Paths \cup {NoPath}, plan : Plan]
<1> USE DEF IInv
<1>0. /\ Len(journals) \in Nat /\ Runs = 1..Len(journals)
      /\ \A r \in Runs : journals[r] \in Journal
      /\ Idle \in Locals
  BY LenProperties, ElementOfSeq, IdleType DEF TypeOK, Runs
<1>1. CASE \E p \in Paths, v \in Contents \cup {Absent} : MirrorChange(p, v) \/ Edit(p, v)
  <2>1. ASSUME NEW p \in Paths, NEW v \in Contents \cup {Absent}, MirrorChange(p, v)
        PROVE  TypeOK'
    BY <2>1 DEF TypeOK, MirrorChange, Tree
  <2>2. ASSUME NEW p \in Paths, NEW v \in Contents \cup {Absent}, Edit(p, v)
        PROVE  TypeOK'
    <3>1. clean' \in Seq(SUBSET Paths) /\ Len(clean') = Len(clean)
      <4>1. clean \in Seq(SUBSET Paths) /\ clean' = [r \in DOMAIN clean |-> clean[r] \ {p}]
        BY <2>2 DEF Edit, TypeOK
      <4>2. DOMAIN clean = 1..Len(clean) /\ Len(clean) \in Nat
            /\ \A r \in 1..Len(clean) : clean[r] \subseteq Paths
        BY <4>1, LenProperties, ElementOfSeq
      <4>3. \A r \in 1..Len(clean) : clean[r] \ {p} \in SUBSET Paths
        BY <4>2
      <4> QED
        BY <4>1, <4>2, <4>3
    <3> QED
      BY <2>2, <3>1 DEF TypeOK, Edit, Tree
  <2> QED
    BY <1>1, <2>1, <2>2
<1>2. CASE MakePlan
  BY <1>2 DEF TypeOK, MakePlan, Plan
<1>3. ASSUME NEW c \in Procs, Apply(c)
      PROVE  TypeOK'
  <2>1. ASSUME NEW plan \in plans, ApplyBegin(c, plan)
        PROVE  TypeOK'
    <3>1. [Idle EXCEPT !.plan = plan] \in Locals
      BY <1>0, <2>1 DEF TypeOK
    <3> QED
      BY <2>1, <3>1 DEF TypeOK, ApplyBegin, Goto, outside
  <2>2. CASE ApplyStage(c)
    <3>1. [r \in 1..Len(journals) |-> clean[r]] \in Seq(SUBSET Paths)
          /\ Len([r \in 1..Len(journals) |-> clean[r]]) = Len(journals)
      <4>1. \A r \in 1..Len(journals) : clean[r] \in SUBSET Paths
        BY <1>0, LenProperties, ElementOfSeq DEF TypeOK
      <4> QED
        BY <1>0, <4>1
    <3>2. clean' \in Seq(SUBSET Paths) /\ Len(clean') = Len(journals) + 1
      <4>1. clean' = Append([r \in 1..Len(journals) |-> clean[r]], Paths) /\ Paths \in SUBSET Paths
        BY <2>2 DEF ApplyStage
      <4> QED
        BY <3>1, <4>1, AppendProperties
    <3> QED
      BY <1>0, <2>2, <3>2 DEF TypeOK, ApplyStage, Goto, outside
  <2>3. CASE ApplyPrepare(c)
    <3>1. [phase |-> "Prepared", plan |-> job[c].plan, prev |-> baseline] \in Journal
      BY <1>0 DEF TypeOK, Journal, Phase
    <3>2. journals' \in Seq(Journal) /\ Len(journals') = Len(journals) + 1
      <4>1. journals' = Append(journals, [phase |-> "Prepared", plan |-> job[c].plan, prev |-> baseline])
            /\ journals \in Seq(Journal)
        BY <2>3 DEF TypeOK, ApplyPrepare
      <4> QED
        BY <3>1, <4>1, AppendProperties
    <3>3. [job[c] EXCEPT !.run = Len(journals) + 1] \in Locals
      <4>1. job[c] \in Locals /\ Len(journals) + 1 \in Nat
        BY <1>0 DEF TypeOK
      <4> QED
        BY <4>1
    <3>4. Len(clean) > Len(journals) /\ Len(clean) \in Nat
      BY <2>3, LenProperties DEF ProcInv, ProcOK, ApplyPrepare, TypeOK
    <3>5. baseline' \in 0..Len(journals') /\ Len(clean') >= Len(journals')
      BY <1>0, <2>3, <3>2, <3>4 DEF TypeOK, ApplyPrepare
    <3> QED
      BY <2>3, <3>2, <3>3, <3>5 DEF TypeOK, ApplyPrepare, Goto, outside
  <2>4. CASE ApplyStart(c)
    <3>1. journals' \in Seq(Journal) /\ Len(journals') = Len(journals)
      BY <2>4, SetPhaseEffect DEF TypeOK, ApplyStart, ProcInv, ProcOK, Working, IsLatest, Unrolled, Phase
    <3>2. [job[c] EXCEPT !.todo = Changes(job[c].plan)] \in Locals
      BY <1>0, PlanTypes DEF TypeOK
    <3> QED
      BY <2>4, <3>1, <3>2 DEF TypeOK, ApplyStart, Goto, outside
  <2>5. ASSUME NEW p \in Paths, InstallCheck(c, p)
        PROVE  TypeOK'
    <3>1. [job[c] EXCEPT !.at = p] \in Locals
      BY <1>0 DEF TypeOK
    <3> QED
      BY <2>5, <3>1 DEF TypeOK, InstallCheck, Goto, outside
  <2>6. CASE InstallCommit(c)
    <3> DEFINE p == job[c].at
    <3>1. [job[c] EXCEPT !.at = NoPath, !.todo = @ \ {p}] \in Locals
      BY <1>0 DEF TypeOK
    <3>2. target' \in Tree
      <4>1. target' = [target EXCEPT ![p] = job[c].plan.source[p]] /\ target \in Tree
        BY <2>6 DEF TypeOK, InstallCommit
      <4>2. p \in Paths => job[c].plan.source[p] \in Contents \cup {Absent}
        BY PlanTypes DEF TypeOK, Tree
      <4> QED
        BY <4>1, <4>2 DEF Tree
    <3> QED
      BY <2>6, <3>1, <3>2 DEF TypeOK, InstallCommit, Goto, outside
  <2>7. CASE ApplyRecord(c)
    <3>1. job[c].run \in Runs
      BY <2>7 DEF ApplyRecord, ProcInv, ProcOK, Working, IsLatest, Unrolled
    <3> QED
      BY <1>0, <2>7, <3>1 DEF TypeOK, ApplyRecord, Goto, outside
  <2>8. CASE ApplyFinish(c)
    <3>1. journals' \in Seq(Journal) /\ Len(journals') = Len(journals)
      BY <2>8, SetPhaseEffect DEF TypeOK, ApplyFinish, ProcInv, ProcOK, Working, IsLatest, Unrolled, Phase
    <3> QED
      BY <1>0, <2>8, <3>1 DEF TypeOK, ApplyFinish, Goto, Release, outside
  <2> QED
    BY <1>3, <2>1, <2>2, <2>3, <2>4, <2>5, <2>6, <2>7, <2>8 DEF Apply
<1>4. ASSUME NEW c \in Procs, Rollback(c)
      PROVE  TypeOK'
  <2>1. ASSUME NEW r \in Runs, RollbackRead(c, r)
        PROVE  TypeOK'
    <3>1. [Idle EXCEPT !.run = r, !.plan = journals[r].plan] \in Locals
      <4>1. r \in Nat /\ journals[r].plan \in Plan
        BY <1>0, <2>1 DEF Journal
      <4> QED
        BY <1>0, <4>1
    <3> QED
      BY <2>1, <3>1 DEF TypeOK, RollbackRead, Goto, outside
  <2>2. CASE RollbackBegin(c)
    BY <2>2 DEF TypeOK, RollbackBegin, Goto, outside
  <2>3. CASE RollbackStart(c)
    <3>1. journals' \in Seq(Journal) /\ Len(journals') = Len(journals)
      BY <2>3, SetPhaseEffect DEF TypeOK, RollbackStart, ProcInv, ProcOK, IsLatest, Unrolled, Phase
    <3>2. [job[c] EXCEPT !.todo = Changes(job[c].plan)] \in Locals
      BY <1>0, PlanTypes DEF TypeOK
    <3> QED
      BY <2>3, <3>1, <3>2 DEF TypeOK, RollbackStart, Goto, outside
  <2>4. ASSUME NEW p \in Paths, RestoreSkip(c, p)
        PROVE  TypeOK'
    <3>1. [job[c] EXCEPT !.todo = @ \ {p}] \in Locals
      BY <1>0 DEF TypeOK
    <3> QED
      BY <2>4, <3>1 DEF TypeOK, RestoreSkip, Goto, outside
  <2>5. ASSUME NEW p \in Paths, RestoreCheck(c, p)
        PROVE  TypeOK'
    <3>1. [job[c] EXCEPT !.at = p] \in Locals
      BY <1>0 DEF TypeOK
    <3> QED
      BY <2>5, <3>1 DEF TypeOK, RestoreCheck, Goto, outside
  <2>6. CASE RestoreCommit(c)
    <3> DEFINE p == job[c].at
    <3>1. [job[c] EXCEPT !.at = NoPath, !.todo = @ \ {p}] \in Locals
      BY <1>0 DEF TypeOK
    <3>2. target' \in Tree
      <4>1. target' = [target EXCEPT ![p] = job[c].plan.target[p]] /\ target \in Tree
        BY <2>6 DEF TypeOK, RestoreCommit
      <4>2. p \in Paths => job[c].plan.target[p] \in Contents \cup {Absent}
        BY PlanTypes DEF TypeOK, Tree
      <4> QED
        BY <4>1, <4>2 DEF Tree
    <3> QED
      BY <2>6, <3>1, <3>2 DEF TypeOK, RestoreCommit, Goto, outside
  <2>7. CASE RollbackRecord(c)
    <3>1. job[c].run \in Runs
      BY <2>7 DEF RollbackRecord, ProcInv, ProcOK, Working, IsLatest, Unrolled
    <3>2. baseline' \in 0..Len(journals)
      BY <1>0, <2>7, <3>1 DEF RollbackRecord, StackInv, Journal
    <3> QED
      BY <2>7, <3>2 DEF TypeOK, RollbackRecord, Goto, outside
  <2>8. CASE RollbackFinish(c)
    <3>1. journals' \in Seq(Journal) /\ Len(journals') = Len(journals)
      BY <2>8, SetPhaseEffect DEF TypeOK, RollbackFinish, ProcInv, ProcOK, Working, IsLatest, Unrolled, Phase
    <3> QED
      BY <1>0, <2>8, <3>1 DEF TypeOK, RollbackFinish, Goto, Release, outside
  <2> QED
    BY <1>4, <2>1, <2>2, <2>3, <2>4, <2>5, <2>6, <2>7, <2>8 DEF Rollback
<1>5. ASSUME NEW c \in Procs, Abort(c)
      PROVE  TypeOK'
  BY <1>0, <1>5 DEF TypeOK, Abort, Goto, Release, outside
<1>6. ASSUME NEW c \in Procs, Check(c)
      PROVE  TypeOK'
  <2>1. CASE CheckBegin(c)
    <3>1. [Idle EXCEPT !.known = Len(journals)] \in Locals
      BY <1>0
    <3> QED
      BY <2>1, <3>1 DEF TypeOK, CheckBegin, Goto, outside
  <2>2. CASE CheckRead(c)
    <3>1. [job[c] EXCEPT !.run = baseline, !.plan = journals[baseline].plan] \in Locals
      <4>1. baseline \in Runs /\ baseline \in Nat /\ journals[baseline].plan \in Plan
        BY <1>0, <2>2 DEF TypeOK, CheckRead, Journal
      <4> QED
        BY <4>1 DEF TypeOK
    <3> QED
      BY <2>2, <3>1 DEF TypeOK, CheckRead, Goto, outside
  <2>3. CASE VerifyReport(c) \/ ReadyCompare(c) \/ ReadyReport(c)
    BY <2>3 DEF TypeOK, VerifyReport, ReadyCompare, ReadyReport, Goto, outside
  <2> QED
    BY <1>6, <2>1, <2>2, <2>3 DEF Check
<1> QED
  BY <1>1, <1>2, <1>3, <1>4, <1>5, <1>6 DEF Next

-----------------------------------------------------------------------------
(* The stack of runs *)

\* A step that writes neither a journal nor baseline.json keeps the stack.
LEMMA StackUntouched ==
  ASSUME StackInv, UNCHANGED <<journals, baseline>>
  PROVE  StackInv'
  BY DEF StackInv, OnlyLatestUnfinished, Unfinished, Unrolled, IsLatest, Runs, Below, BaselineIsLatest

\* A new run goes on top when none is unfinished, and remembers the baseline.
LEMMA StackPush ==
  ASSUME TypeOK, StackInv, Unfinished = {},
         NEW plan \in Plan, NEW n, n = Len(journals) + 1,
         journals' = Append(journals, [phase |-> "Prepared", plan |-> plan, prev |-> baseline]),
         baseline' = baseline
  PROVE  /\ StackInv'
         /\ Runs \subseteq Runs'
         /\ IsLatest(n)'
         /\ journals'[n].phase = "Prepared"
<1> DEFINE j == [phase |-> "Prepared", plan |-> plan, prev |-> baseline]
<1>1. /\ Len(journals) \in Nat /\ Runs = 1..Len(journals)
      /\ baseline \in 0..Len(journals)
      /\ n \in Nat
  BY LenProperties DEF TypeOK, Runs
<1>2. j \in Journal
  BY <1>1 DEF Journal, Phase
<1> HIDE DEF j
<1>3. /\ journals' \in Seq(Journal) /\ Len(journals') = n
      /\ \A r \in 1..Len(journals) : journals'[r] = journals[r]
      /\ journals'[n] = j
  BY <1>2, AppendProperties DEF TypeOK, j
<1>4. Runs' = Runs \cup {n} /\ n \notin Runs /\ \A r \in Runs : r < n
  BY <1>1, <1>3, LenProperties DEF Runs
<1>5. \A r \in Runs : journals'[r] = journals[r]
  BY <1>1, <1>3
<1>6. j.phase = "Prepared" /\ j.prev = baseline
  BY DEF j
<1>7. Unrolled' = Unrolled \cup {n} /\ Unfinished' = {n}
  <2>1. journals'[n].phase = "Prepared"
    BY <1>3, <1>6
  <2>2. \A r \in Runs' : r # n => r \in Runs /\ journals'[r].phase = journals[r].phase
    BY <1>4, <1>5
  <2>3. n \in Runs' /\ Runs \subseteq Runs' /\ \A r \in Runs : r # n
    BY <1>4
  <2> QED
    BY <2>1, <2>2, <2>3 DEF Unrolled, Unfinished
<1>8. IsLatest(n)' /\ \A r \in Runs' : IsLatest(r)' => r = n
  <2>1. n \in Nat /\ \A s \in Unrolled : s < n /\ s \in Nat
    BY <1>1, <1>4 DEF Unrolled
  <2> QED
    BY <1>7, <2>1 DEF IsLatest
<1>9. IF Unrolled = {} THEN baseline = 0 ELSE IsLatest(baseline)
  BY DEF StackInv, BaselineIsLatest
<1>10. Below(n, baseline)'
  BY <1>1, <1>4, <1>7, <1>9 DEF Below, IsLatest, Unrolled
<1>11. ASSUME NEW r \in Unrolled PROVE Below(r, journals[r].prev)'
  <2>1. Below(r, journals[r].prev) /\ r \in Runs
    BY DEF StackInv, Unrolled
  <2>2. r < n /\ r \in Nat /\ n \in Nat /\ ~(n < r)
    BY <1>1, <1>4, <2>1
  <2>3. journals'[r].prev = journals[r].prev
    BY <1>5, <2>1
  <2> QED
    BY <1>7, <2>1, <2>2, <2>3 DEF Below
<1>12. \A r \in Runs' : journals'[r].prev < r
  BY <1>1, <1>3, <1>4, <1>5, <1>6 DEF StackInv
<1>13. \A r \in Unrolled' : Below(r, journals[r].prev)'
  BY <1>3, <1>5, <1>6, <1>7, <1>10, <1>11 DEF Unrolled
<1> QED
  BY <1>3, <1>4, <1>6, <1>7, <1>8, <1>12, <1>13
     DEF StackInv, OnlyLatestUnfinished, BaselineIsLatest

\* The top run may change phase; it closes only with its name in the baseline.
LEMMA StackMark ==
  ASSUME TypeOK, StackInv, NEW r \in Runs, IsLatest(r),
         NEW ph \in Phase \ {"RolledBack"}, SetPhase(r, ph),
         ph = "Applied" => baseline = r,
         baseline' = baseline
  PROVE  /\ StackInv' /\ Runs' = Runs
         /\ IsLatest(r)' /\ journals'[r].phase = ph
<1>1. /\ Runs' = Runs /\ journals'[r].phase = ph
      /\ \A s \in Runs : /\ journals'[s].prev = journals[s].prev
                         /\ s # r => journals'[s].phase = journals[s].phase
  BY SetPhaseEffect DEF TypeOK
<1>2. Unrolled' = Unrolled
  BY <1>1 DEF Unrolled, IsLatest
<1>3. \A s \in Runs : IsLatest(s)' <=> IsLatest(s)
  BY <1>2 DEF IsLatest
<1>4. \A s \in Unfinished' : s = r
  <2> SUFFICES ASSUME NEW s \in Unfinished', s # r PROVE FALSE
    OBVIOUS
  <2>1. s \in Unfinished /\ s \in Unrolled
    BY <1>1 DEF Unfinished, Unrolled
  <2>2. IsLatest(s)
    BY <2>1 DEF StackInv, OnlyLatestUnfinished
  <2> QED
    BY <2>2, LenProperties DEF IsLatest, Unrolled, Runs, TypeOK
<1>5. BaselineIsLatest'
  <2> SUFFICES ASSUME Unfinished' = {} PROVE IsLatest(baseline)' /\ Unrolled' # {}
    BY Zenon DEF BaselineIsLatest
  <2>1. ph = "Applied"
    BY <1>1 DEF Unfinished, Phase
  <2> QED
    BY <1>2, <1>3, <2>1 DEF IsLatest
<1>6. \A s \in Unrolled' : Below(s, journals[s].prev)'
  BY <1>1, <1>2 DEF Below, StackInv, Unrolled
<1> QED
  BY <1>1, <1>2, <1>3, <1>4, <1>5, <1>6 DEF StackInv, OnlyLatestUnfinished

\* Undoing the top run leaves the run below it on top, with its baseline.
LEMMA StackPop ==
  ASSUME TypeOK, StackInv, NEW r \in Runs, IsLatest(r), SetPhase(r, "RolledBack"),
         baseline = journals[r].prev, baseline' = baseline
  PROVE  StackInv' /\ Runs' = Runs /\ Unrolled' = Unrolled \ {r} /\ Unfinished' = {}
<1>1. /\ Runs' = Runs /\ journals'[r].phase = "RolledBack"
      /\ \A s \in Runs : /\ journals'[s].prev = journals[s].prev
                         /\ s # r => journals'[s].phase = journals[s].phase
  BY SetPhaseEffect DEF TypeOK, Phase
<1>2. Unrolled' = Unrolled \ {r}
  BY <1>1 DEF Unrolled
<1>3. Runs \subseteq Nat
  BY LenProperties DEF Runs, TypeOK
<1>4. Unfinished' = {}
  <2> SUFFICES ASSUME NEW s \in Unfinished' PROVE FALSE
    OBVIOUS
  <2>1. s \in Unfinished /\ s # r /\ s \in Unrolled
    BY <1>1 DEF Unfinished, Unrolled
  <2> QED
    BY <1>3, <2>1 DEF StackInv, OnlyLatestUnfinished, IsLatest, Unrolled
<1>5. \A s \in Unrolled \ {r} : s < r
  BY <1>3 DEF IsLatest, Unrolled
<1>6. Below(r, baseline) /\ r \in Unrolled
  BY DEF StackInv, IsLatest
<1>7. IF Unrolled' = {} THEN baseline = 0 ELSE IsLatest(baseline)'
  <2>1. Unrolled \subseteq Nat
    BY <1>3 DEF Unrolled
  <2>2. CASE baseline = 0 /\ \A s \in Unrolled : ~(s < r)
    BY <1>2, <1>5, <2>2
  <2>3. CASE baseline \in Unrolled /\ baseline < r /\ \A s \in Unrolled : s < r => s <= baseline
    <3>1. baseline \in Unrolled'
      BY <1>2, <2>1, <2>3
    <3>2. \A s \in Unrolled' : s <= baseline
      BY <1>2, <1>5, <2>3
    <3> QED
      BY <3>1, <3>2 DEF IsLatest
  <2> QED
    BY <1>6, <2>2, <2>3 DEF Below
<1>8. ASSUME NEW s \in Unrolled' PROVE Below(s, journals[s].prev)'
  <2>1. s \in Unrolled /\ s < r /\ s \in Nat /\ r \in Nat
    BY <1>2, <1>3, <1>5 DEF Unrolled
  <2>2. Below(s, journals[s].prev) /\ journals'[s].prev = journals[s].prev
    BY <1>1, <2>1 DEF StackInv, Unrolled
  <2>3. \A b \in Unrolled : b < s => b # r
    BY <2>1
  <2> QED
    BY <1>2, <2>1, <2>2, <2>3 DEF Below
<1>9. \A s \in Runs' : IsLatest(s)' => baseline = s
  <2>1. Unrolled' \subseteq Nat
    BY <1>2, <1>3 DEF Unrolled
  <2>2. SUFFICES ASSUME NEW s \in Runs', IsLatest(s)' PROVE baseline = s
    OBVIOUS
  <2>3. s \in Unrolled' /\ \A t \in Unrolled' : t <= s
    BY <2>2 DEF IsLatest
  <2>4. baseline \in Unrolled' /\ \A t \in Unrolled' : t <= baseline
    BY <1>7, <2>3 DEF IsLatest
  <2> QED
    BY <2>1, <2>3, <2>4
<1> QED
  BY <1>1, <1>2, <1>4, <1>7, <1>8, <1>9 DEF StackInv, OnlyLatestUnfinished, BaselineIsLatest

\* While the top run is unfinished baseline.json may move to it or back.
LEMMA StackRecord ==
  ASSUME TypeOK, StackInv, NEW r \in Unfinished, UNCHANGED journals,
         baseline' \in {r, journals[r].prev}
  PROVE  StackInv'
<1>1. /\ Runs' = Runs /\ Unrolled' = Unrolled /\ Unfinished' = Unfinished
      /\ \A s : IsLatest(s)' <=> IsLatest(s)
      /\ \A s, b : Below(s, b)' <=> Below(s, b)
  BY DEF Runs, Unrolled, Unfinished, IsLatest, Below
<1>2. IsLatest(r) /\ r \in Unrolled
  BY DEF StackInv, OnlyLatestUnfinished, IsLatest
<1>3. \A s \in Runs : IsLatest(s) => s = r
  BY <1>2, LenProperties DEF IsLatest, Unrolled, Runs, TypeOK
<1> QED
  BY <1>1, <1>2, <1>3 DEF StackInv, OnlyLatestUnfinished, BaselineIsLatest

-----------------------------------------------------------------------------
(* The inductive invariant *)

\* A process that does not step keeps its invariant: when it does not hold the
\* lock whatever another does, else when journals, baseline and lock stay.
LEMMA Bystander ==
  ASSUME IInv, NEW d \in Procs, pc'[d] = pc[d], job'[d] = job[d],
         \/ pc[d] \notin Locked /\ Runs \subseteq Runs'
         \/ UNCHANGED <<journals, baseline, lock>> /\ Len(clean') = Len(clean)
  PROVE  ProcOK(d)'
<1>1. CASE pc[d] \notin Locked /\ Runs \subseteq Runs'
  BY <1>1 DEF IInv, ProcInv, ProcOK, Locked
<1>2. CASE UNCHANGED <<journals, baseline, lock>> /\ Len(clean') = Len(clean)
  BY <1>2 DEF IInv, ProcInv, ProcOK, Locked, Working, IsLatest, Unrolled, Unfinished, Runs
<1> QED
  BY <1>1, <1>2

\* Two processes never hold the lock.
LEMMA OneHolder ==
  ASSUME IInv, NEW c \in Procs, pc[c] \in Locked, NEW d \in Procs, d # c
  PROVE  pc[d] \notin Locked
  BY DEF IInv, ProcInv, ProcOK

\* An outside change or a new plan disturbs neither the stack nor a process.
LEMMA OutsideStep ==
  ASSUME IInv, UNCHANGED <<journals, baseline, lock, pc, job>>, Len(clean') = Len(clean)
  PROVE  StackInv' /\ ProcInv'
<1>1. StackInv'
  BY StackUntouched DEF IInv
<1>2. ASSUME NEW d \in Procs PROVE ProcOK(d)'
  BY Bystander
<1> QED
  BY <1>1, <1>2 DEF ProcInv

\* A step of apply keeps the stack and every process's relation to it.
LEMMA ApplyStep ==
  ASSUME IInv, NEW c \in Procs, Apply(c)
  PROVE  StackInv' /\ ProcInv'
<1>1. TypeOK /\ StackInv /\ ProcInv
  BY DEF IInv
<1>2. ASSUME NEW plan \in plans, ApplyBegin(c, plan)
      PROVE  StackInv' /\ ProcInv'
  <2>1. StackInv'
    BY <1>1, <1>2, StackUntouched DEF ApplyBegin
  <2>2. pc'[c] = "staging" /\ \A d \in Procs : d # c => pc'[d] = pc[d] /\ job'[d] = job[d]
    BY <1>1, <1>2, GotoEffect DEF ApplyBegin
  <2>3. ProcOK(c)'
    BY <1>2, <2>2 DEF ApplyBegin, ProcOK, Unfinished, Runs
  <2>4. ASSUME NEW d \in Procs, d # c PROVE ProcOK(d)'
    <3>1. pc[d] \notin Locked /\ Runs' = Runs
      BY <1>1, <1>2, NoProcAssumption DEF ProcInv, ProcOK, ApplyBegin, Runs
    <3> QED
      BY <2>2, <2>4, <3>1, Bystander
  <2> QED
    BY <2>1, <2>3, <2>4 DEF ProcInv
<1>3. ASSUME pc[c] \in Locked, Runs \subseteq Runs',
             NEW l, NEW j, Goto(c, l, j), ProcOK(c)'
      PROVE  ProcInv'
  <2>1. ASSUME NEW d \in Procs, d # c PROVE ProcOK(d)'
    BY <1>1, <1>3, <2>1, GotoEffect, OneHolder, Bystander
  <2> QED
    BY <1>3, <2>1 DEF ProcInv
<1>4. CASE ApplyStage(c)
  <2>1. StackInv'
    BY <1>1, <1>4, StackUntouched DEF ApplyStage
  <2>2. pc[c] \in Locked /\ Runs' = Runs /\ pc'[c] = "staged" /\ Goto(c, "staged", job[c])
    BY <1>1, <1>4, GotoEffect DEF ApplyStage, Locked, Runs
  <2>3. lock = c /\ Unfinished = {}
    BY <1>1, <1>4 DEF ApplyStage, ProcInv, ProcOK, Locked
  <2>4. Len(clean') > Len(journals')
    <3>1. Len(journals) \in Nat /\ \A r \in 1..Len(journals) : clean[r] \in SUBSET Paths
      BY <1>1, LenProperties, ElementOfSeq DEF TypeOK
    <3>2. [r \in 1..Len(journals) |-> clean[r]] \in Seq(SUBSET Paths)
          /\ Len([r \in 1..Len(journals) |-> clean[r]]) = Len(journals)
      BY <3>1
    <3>3. clean' = Append([r \in 1..Len(journals) |-> clean[r]], Paths)
          /\ Paths \in SUBSET Paths /\ journals' = journals
      BY <1>4 DEF ApplyStage
    <3> QED
      BY <3>1, <3>2, <3>3, AppendProperties
  <2>5. ProcOK(c)'
    BY <1>4, <2>2, <2>3, <2>4 DEF ApplyStage, ProcOK, Unfinished, Runs
  <2> QED
    BY <1>3, <2>1, <2>2, <2>5
<1>5. CASE ApplyPrepare(c)
  <2> PICK n : n = Len(journals) + 1
    OBVIOUS
  <2>1. pc[c] \in Locked /\ lock = c /\ Unfinished = {} /\ job[c].plan \in Plan
    BY <1>1, <1>5 DEF ApplyPrepare, ProcInv, ProcOK, Locked, TypeOK
  <2>2. StackInv' /\ Runs \subseteq Runs' /\ IsLatest(n)' /\ journals'[n].phase = "Prepared"
    <3>1. journals' = Append(journals, [phase |-> "Prepared", plan |-> job[c].plan, prev |-> baseline])
          /\ baseline' = baseline
      BY <1>5 DEF ApplyPrepare
    <3> QED
      BY <1>1, <2>1, <3>1, StackPush
  <2>3. /\ Goto(c, "prepared", [job[c] EXCEPT !.run = n]) /\ lock' = lock
        /\ pc'[c] = "prepared" /\ job'[c].run = n
    BY <1>1, <1>5, GotoEffect DEF ApplyPrepare, TypeOK
  <2>4. ProcOK(c)'
    BY <2>1, <2>2, <2>3 DEF ProcOK, Working
  <2> QED
    BY <1>3, <2>1, <2>2, <2>3, <2>4
<1>6. CASE ApplyStart(c)
  <2> PICK r : r = job[c].run
    OBVIOUS
  <2>1. pc[c] \in Locked /\ lock = c /\ r \in Runs /\ IsLatest(r)
    BY <1>1, <1>6 DEF ApplyStart, ProcInv, ProcOK, Locked, Working, IsLatest, Unrolled
  <2>2. StackInv' /\ Runs' = Runs /\ IsLatest(r)' /\ journals'[r].phase = "Applying"
    BY <1>1, <1>6, <2>1, StackMark DEF ApplyStart, Phase
  <2>3. /\ Goto(c, "installing", [job[c] EXCEPT !.todo = Changes(job[c].plan)]) /\ lock' = lock
        /\ pc'[c] = "installing" /\ job'[c].run = r
    BY <1>1, <1>6, GotoEffect DEF ApplyStart, TypeOK
  <2>4. ProcOK(c)'
    BY <2>1, <2>2, <2>3 DEF ProcOK, Working
  <2> QED
    BY <1>3, <2>1, <2>2, <2>3, <2>4
<1>7. ASSUME UNCHANGED <<journals, baseline, lock>>, pc[c] \in {"installing", "installChecked"},
             NEW l \in {"installing", "installChecked"},
             NEW j, Goto(c, l, j), j.run = job[c].run
      PROVE  StackInv' /\ ProcInv'
  <2>1. StackInv' /\ pc[c] \in Locked /\ Runs' = Runs
    BY <1>1, <1>7, StackUntouched DEF Locked, Runs
  <2>2. pc'[c] = l /\ job'[c] = j
    BY <1>1, <1>7, GotoEffect
  <2>3. lock = c /\ Working(c, "Applying")
    BY <1>1, <1>7 DEF ProcInv, ProcOK, Locked
  <2>4. ProcOK(c)'
    BY <1>7, <2>2, <2>3 DEF ProcOK, Working, IsLatest, Unrolled, Runs
  <2> QED
    BY <1>3, <1>7, <2>1, <2>4
<1>8. ASSUME NEW p \in Paths, InstallCheck(c, p)
      PROVE  StackInv' /\ ProcInv'
  <2>1. [job[c] EXCEPT !.at = p].run = job[c].run
    BY <1>1 DEF TypeOK
  <2> QED
    BY <1>7, <1>8, <2>1 DEF InstallCheck
<1>9. CASE InstallCommit(c)
  <2> DEFINE p == job[c].at
  <2>1. [job[c] EXCEPT !.at = NoPath, !.todo = @ \ {p}].run = job[c].run
    BY <1>1 DEF TypeOK
  <2> QED
    BY <1>7, <1>9, <2>1 DEF InstallCommit
<1>10. CASE ApplyRecord(c)
  <2> PICK r : r = job[c].run
    OBVIOUS
  <2>1. pc[c] \in Locked /\ lock = c /\ Working(c, "Applying")
    BY <1>1, <1>10 DEF ApplyRecord, ProcInv, ProcOK, Locked
  <2>2. r \in Unfinished
    BY <2>1 DEF Working, IsLatest, Unrolled, Unfinished
  <2>3. StackInv' /\ Runs' = Runs
    BY <1>1, <1>10, <2>2, StackRecord DEF ApplyRecord, Runs
  <2>4. /\ Goto(c, "recorded", job[c]) /\ lock' = lock /\ journals' = journals /\ baseline' = r
        /\ pc'[c] = "recorded" /\ job'[c].run = r
    BY <1>1, <1>10, GotoEffect DEF ApplyRecord
  <2>5. ProcOK(c)'
    BY <2>1, <2>4 DEF ProcOK, Working, IsLatest, Unrolled, Runs
  <2> QED
    BY <1>3, <2>1, <2>3, <2>4, <2>5
<1>11. CASE ApplyFinish(c)
  <2> PICK r : r = job[c].run
    OBVIOUS
  <2>1. pc[c] \in Locked /\ r \in Runs /\ IsLatest(r) /\ baseline = r
    BY <1>1, <1>11 DEF ApplyFinish, ProcInv, ProcOK, Locked, Working, IsLatest, Unrolled
  <2>2. StackInv' /\ Runs' = Runs
    BY <1>1, <1>11, <2>1, StackMark DEF ApplyFinish, Phase
  <2>3. Goto(c, "idle", Idle) /\ pc'[c] = "idle"
    BY <1>1, <1>11, GotoEffect DEF ApplyFinish
  <2>4. ProcOK(c)'
    BY <2>3 DEF ProcOK, Locked
  <2> QED
    BY <1>3, <2>1, <2>2, <2>3, <2>4
<1> QED
  BY <1>2, <1>4, <1>5, <1>6, <1>8, <1>9, <1>10, <1>11 DEF Apply

\* A step of rollback keeps them too.
LEMMA RollbackStep ==
  ASSUME IInv, NEW c \in Procs, Rollback(c)
  PROVE  StackInv' /\ ProcInv'
<1>1. TypeOK /\ StackInv /\ ProcInv
  BY DEF IInv
<1>2. ASSUME NEW r \in Runs, RollbackRead(c, r)
      PROVE  StackInv' /\ ProcInv'
  <2> DEFINE j == [Idle EXCEPT !.run = r, !.plan = journals[r].plan]
  <2>1. StackInv' /\ Runs' = Runs
    BY <1>1, <1>2, StackUntouched DEF RollbackRead, Runs
  <2>2. /\ Goto(c, "rollbackRead", j) /\ UNCHANGED <<journals, baseline, lock, clean>>
    BY <1>2 DEF RollbackRead
  <2>3. j.run = r
    BY DEF Idle
  <2> HIDE DEF j
  <2>4. ProcOK(c)'
    BY <1>1, <2>1, <2>2, <2>3, GotoEffect DEF ProcOK, Locked
  <2>5. ASSUME NEW d \in Procs, d # c PROVE ProcOK(d)'
    BY <1>1, <2>2, <2>5, GotoEffect, Bystander
  <2> QED
    BY <2>1, <2>4, <2>5 DEF ProcInv
<1>3. CASE RollbackBegin(c)
  <2>1. StackInv'
    BY <1>1, <1>3, StackUntouched DEF RollbackBegin
  <2>2. /\ pc'[c] = "rollbackChecked" /\ job'[c] = job[c]
        /\ \A d \in Procs : d # c => pc'[d] = pc[d] /\ job'[d] = job[d]
    BY <1>1, <1>3, GotoEffect DEF RollbackBegin
  <2>3. ProcOK(c)'
    BY <1>3, <2>2 DEF RollbackBegin, ProcOK, IsLatest, Unrolled, Runs
  <2>4. ASSUME NEW d \in Procs, d # c PROVE ProcOK(d)'
    <3>1. pc[d] \notin Locked /\ Runs' = Runs
      BY <1>1, <1>3, NoProcAssumption DEF ProcInv, ProcOK, RollbackBegin, Runs
    <3> QED
      BY <2>2, <2>4, <3>1, Bystander
  <2> QED
    BY <2>1, <2>3, <2>4 DEF ProcInv
<1>4. ASSUME pc[c] \in Locked, Runs \subseteq Runs',
             NEW l, NEW j, Goto(c, l, j), ProcOK(c)'
      PROVE  ProcInv'
  <2>1. ASSUME NEW d \in Procs, d # c PROVE ProcOK(d)'
    BY <1>1, <1>4, <2>1, GotoEffect, OneHolder, Bystander
  <2> QED
    BY <1>4, <2>1 DEF ProcInv
<1>5. CASE RollbackStart(c)
  <2> PICK r : r = job[c].run
    OBVIOUS
  <2>1. pc[c] \in Locked /\ lock = c /\ r \in Runs /\ IsLatest(r)
    BY <1>1, <1>5 DEF RollbackStart, ProcInv, ProcOK, Locked, IsLatest, Unrolled
  <2>2. StackInv' /\ Runs' = Runs /\ IsLatest(r)' /\ journals'[r].phase = "RollingBack"
    BY <1>1, <1>5, <2>1, StackMark DEF RollbackStart, Phase
  <2>3. /\ Goto(c, "restoring", [job[c] EXCEPT !.todo = Changes(job[c].plan)]) /\ lock' = lock
        /\ pc'[c] = "restoring" /\ job'[c].run = r
    BY <1>1, <1>5, GotoEffect DEF RollbackStart, TypeOK
  <2>4. ProcOK(c)'
    BY <2>1, <2>2, <2>3 DEF ProcOK, Working
  <2> QED
    BY <1>4, <2>1, <2>2, <2>3, <2>4
<1>6. ASSUME UNCHANGED <<journals, baseline, lock>>, pc[c] \in {"restoring", "restoreChecked"},
             NEW l \in {"restoring", "restoreChecked"},
             NEW j, Goto(c, l, j), j.run = job[c].run
      PROVE  StackInv' /\ ProcInv'
  <2>1. StackInv' /\ pc[c] \in Locked /\ Runs' = Runs
    BY <1>1, <1>6, StackUntouched DEF Locked, Runs
  <2>2. pc'[c] = l /\ job'[c] = j
    BY <1>1, <1>6, GotoEffect
  <2>3. lock = c /\ Working(c, "RollingBack")
    BY <1>1, <1>6 DEF ProcInv, ProcOK, Locked
  <2>4. ProcOK(c)'
    BY <1>6, <2>2, <2>3 DEF ProcOK, Working, IsLatest, Unrolled, Runs
  <2> QED
    BY <1>4, <1>6, <2>1, <2>4
<1>7. ASSUME NEW p \in Paths, RestoreSkip(c, p) \/ RestoreCheck(c, p)
      PROVE  StackInv' /\ ProcInv'
  <2>1. /\ [job[c] EXCEPT !.at = p].run = job[c].run
        /\ [job[c] EXCEPT !.todo = @ \ {p}].run = job[c].run
    BY <1>1 DEF TypeOK
  <2> QED
    BY <1>6, <1>7, <2>1 DEF RestoreSkip, RestoreCheck
<1>8. CASE RestoreCommit(c)
  <2> DEFINE p == job[c].at
  <2>1. [job[c] EXCEPT !.at = NoPath, !.todo = @ \ {p}].run = job[c].run
    BY <1>1 DEF TypeOK
  <2> QED
    BY <1>6, <1>8, <2>1 DEF RestoreCommit
<1>9. CASE RollbackRecord(c)
  <2> PICK r : r = job[c].run
    OBVIOUS
  <2>1. pc[c] \in Locked /\ lock = c /\ Working(c, "RollingBack")
    BY <1>1, <1>9 DEF RollbackRecord, ProcInv, ProcOK, Locked
  <2>2. r \in Unfinished
    BY <2>1 DEF Working, IsLatest, Unrolled, Unfinished
  <2>3. StackInv' /\ Runs' = Runs
    BY <1>1, <1>9, <2>2, StackRecord DEF RollbackRecord, Runs
  <2>4. /\ Goto(c, "restored", job[c]) /\ lock' = lock /\ journals' = journals
        /\ baseline' = journals[r].prev /\ pc'[c] = "restored" /\ job'[c].run = r
    BY <1>1, <1>9, GotoEffect DEF RollbackRecord
  <2>5. ProcOK(c)'
    BY <2>1, <2>4 DEF ProcOK, Working, IsLatest, Unrolled, Runs
  <2> QED
    BY <1>4, <2>1, <2>3, <2>4, <2>5
<1>10. CASE RollbackFinish(c)
  <2> PICK r : r = job[c].run
    OBVIOUS
  <2>1. pc[c] \in Locked /\ r \in Runs /\ IsLatest(r) /\ baseline = journals[r].prev
    BY <1>1, <1>10 DEF RollbackFinish, ProcInv, ProcOK, Locked, Working, IsLatest, Unrolled
  <2>2. StackInv' /\ Runs' = Runs
    BY <1>1, <1>10, <2>1, StackPop DEF RollbackFinish
  <2>3. Goto(c, "idle", Idle) /\ pc'[c] = "idle"
    BY <1>1, <1>10, GotoEffect DEF RollbackFinish
  <2>4. ProcOK(c)'
    BY <2>3 DEF ProcOK, Locked
  <2> QED
    BY <1>4, <2>1, <2>2, <2>3, <2>4
<1> QED
  BY <1>2, <1>3, <1>5, <1>7, <1>8, <1>9, <1>10 DEF Rollback

\* A process that ends leaves the stack alone and drops at most its own lock.
LEMMA AbortStep ==
  ASSUME IInv, NEW c \in Procs, Abort(c)
  PROVE  StackInv' /\ ProcInv'
<1>1. TypeOK /\ StackInv /\ ProcInv /\ Runs' = Runs
  BY DEF IInv, Abort, Runs
<1>2. StackInv'
  BY <1>1, StackUntouched DEF Abort
<1>3. pc'[c] = "idle" /\ \A d \in Procs : d # c => pc'[d] = pc[d] /\ job'[d] = job[d]
  BY <1>1, GotoEffect DEF Abort
<1>4. ProcOK(c)'
  BY <1>3 DEF ProcOK, Locked
<1>5. ASSUME NEW d \in Procs, d # c PROVE ProcOK(d)'
  <2>1. CASE lock = c
    BY <1>1, <1>3, <1>5, <2>1, Bystander DEF ProcInv, ProcOK
  <2>2. CASE lock # c
    BY <1>1, <1>3, <1>5, <2>2, Bystander DEF Abort, Release
  <2> QED
    BY <2>1, <2>2
<1> QED
  BY <1>2, <1>4, <1>5 DEF ProcInv

\* `ready` and `verify` hold no lock and write nothing.
LEMMA CheckStep ==
  ASSUME IInv, NEW c \in Procs, Check(c)
  PROVE  StackInv' /\ ProcInv'
<1>1. TypeOK /\ StackInv /\ ProcInv
  BY DEF IInv
<1>2. UNCHANGED <<journals, baseline, lock, clean>> /\ Runs' = Runs
  BY DEF Check, CheckBegin, CheckRead, VerifyReport, ReadyCompare, ReadyReport, Runs
<1>3. StackInv'
  BY <1>1, <1>2, StackUntouched
<1>4. /\ pc'[c] \in {"checking", "comparing", "compared", "reported"}
      /\ \A d \in Procs : d # c => pc'[d] = pc[d] /\ job'[d] = job[d]
  BY <1>1, GotoEffect DEF Check, CheckBegin, CheckRead, VerifyReport, ReadyCompare, ReadyReport
<1>5. ProcOK(c)'
  BY <1>4 DEF ProcOK, Locked
<1>6. ASSUME NEW d \in Procs, d # c PROVE ProcOK(d)'
  BY <1>2, <1>4, <1>6, Bystander
<1> QED
  BY <1>3, <1>5, <1>6 DEF ProcInv

\* IInv holds initially and no step breaks it.
LEMMA InitInv == Init => IInv
<1> SUFFICES ASSUME Init PROVE IInv
  OBVIOUS
<1>1. TypeOK
  BY EmptySeq, IdleType DEF Init, TypeOK
<1>2. Runs = {}
  BY DEF Init, Runs
<1>3. StackInv /\ ProcInv
  BY <1>2 DEF Init, StackInv, OnlyLatestUnfinished, BaselineIsLatest, Unfinished, Unrolled,
     ProcInv, ProcOK, Locked
<1> QED
  BY <1>1, <1>3 DEF IInv

\* The strengthened invariant is inductive.
LEMMA StepInv == IInv /\ [Next]_vars => IInv'
<1> SUFFICES ASSUME IInv, [Next]_vars PROVE IInv'
  OBVIOUS
<1>1. CASE Next
  <2>1. ASSUME NEW p \in Paths, NEW v \in Contents \cup {Absent}, MirrorChange(p, v) \/ Edit(p, v)
        PROVE  StackInv' /\ ProcInv'
    <3>1. Len(clean') = Len(clean)
      <4>1. CASE MirrorChange(p, v)
        BY <4>1 DEF MirrorChange
      <4>2. CASE Edit(p, v)
        <5>1. DOMAIN clean = 1..Len(clean) /\ Len(clean) \in Nat
          BY LenProperties DEF IInv, TypeOK
        <5> QED
          BY <4>2, <5>1 DEF Edit
      <4> QED
        BY <2>1, <4>1, <4>2
    <3> QED
      BY <2>1, <3>1, OutsideStep DEF MirrorChange, Edit
  <2>2. CASE MakePlan
    <3>1. UNCHANGED <<journals, baseline, lock, pc, job>> /\ Len(clean') = Len(clean)
      BY <2>2 DEF MakePlan
    <3> QED
      BY <1>1, <3>1, OutsideStep, TypeStep DEF IInv
  <2> QED
    BY <1>1, <2>1, <2>2, TypeStep, ApplyStep, RollbackStep, CheckStep, AbortStep DEF Next, IInv
<1>2. CASE UNCHANGED vars
  BY <1>2 DEF vars, IInv, TypeOK, StackInv, OnlyLatestUnfinished, BaselineIsLatest, Unfinished,
     Unrolled, IsLatest, Runs, Below, ProcInv, ProcOK, Working, Locked
<1> QED
  BY <1>1, <1>2

\* Hence it holds of every behaviour.
LEMMA Invariance == Spec => []IInv
  BY InitInv, StepInv, PTL DEF Spec

-----------------------------------------------------------------------------
(* The journals over time, and the checks that read them *)

\* The phase of every journal is one of the five.
LEMMA PhaseType ==
  ASSUME NEW js \in Seq(Journal), NEW r \in DOMAIN js
  PROVE  js[r].phase \in Phase
<1>1. js[r] \in Journal
  BY LenProperties, ElementOfSeq
<1> QED
  BY <1>1 DEF Journal

\* How one step may change the phase of a run.
Moves(a, b) ==
  \/ a = b
  \/ a = "Prepared" /\ b = "Applying"
  \/ a = "Applying" /\ b = "Applied"
  \/ a # "RolledBack" /\ b = "RollingBack"
  \/ a = "RollingBack" /\ b = "RolledBack"

\* Rewriting the phase of one run is a move of the journals.
LEMMA PhaseMoves ==
  ASSUME TypeOK, NEW r \in Runs, NEW ph \in Phase, SetPhase(r, ph), Moves(journals[r].phase, ph)
  PROVE  /\ Len(journals') = Len(journals)
         /\ \A s \in Runs : /\ s \in Runs' /\ journals'[s].plan = journals[s].plan
                            /\ Moves(journals[s].phase, journals'[s].phase)
<1>1. /\ Len(journals') = Len(journals) /\ Runs' = Runs /\ journals'[r].phase = ph
      /\ \A s \in Runs : /\ journals'[s].plan = journals[s].plan
                         /\ s # r => journals'[s].phase = journals[s].phase
  BY SetPhaseEffect DEF TypeOK
<1> QED
  BY <1>1 DEF Moves

\* No step drops a journal, changes its plan or moves its phase back.
LEMMA JournalsStep ==
  ASSUME IInv, Next
  PROVE  /\ Len(journals') >= Len(journals)
         /\ \A s \in Runs : /\ s \in Runs' /\ journals'[s].plan = journals[s].plan
                            /\ Moves(journals[s].phase, journals'[s].phase)
         /\ \A s \in Runs' : s \notin Runs => s > Len(journals)
<1> USE DEF IInv
<1>1. /\ Len(journals) \in Nat /\ Runs = 1..Len(journals)
      /\ TypeOK' /\ Len(journals') \in Nat /\ Runs' = 1..Len(journals')
  BY TypeStep, LenProperties DEF TypeOK, Runs
<1>2. CASE UNCHANGED journals
  BY <1>1, <1>2 DEF Moves
<1>3. ASSUME NEW c \in Procs, ApplyPrepare(c)
      PROVE  /\ Len(journals') >= Len(journals)
             /\ \A s \in Runs : journals'[s] = journals[s]
  <2>1. [phase |-> "Prepared", plan |-> job[c].plan, prev |-> baseline] \in Journal
    BY <1>1 DEF TypeOK, Journal, Phase
  <2> QED
    BY <1>1, <1>3, <2>1, AppendProperties DEF TypeOK, ApplyPrepare
<1>4. ASSUME NEW r \in Runs, NEW ph \in Phase, SetPhase(r, ph), Moves(journals[r].phase, ph)
      PROVE  /\ Len(journals') = Len(journals)
             /\ \A s \in Runs : /\ journals'[s].plan = journals[s].plan
                                /\ Moves(journals[s].phase, journals'[s].phase)
  BY <1>4, PhaseMoves
<1>5. ASSUME NEW c \in Procs, ApplyStart(c) \/ ApplyFinish(c)
      PROVE  \E r \in Runs, ph \in Phase : SetPhase(r, ph) /\ Moves(journals[r].phase, ph)
  BY <1>5 DEF ApplyStart, ApplyFinish, ProcInv, ProcOK, Working, IsLatest, Unrolled, Phase, Moves
<1>6. ASSUME NEW c \in Procs, RollbackStart(c) \/ RollbackFinish(c)
      PROVE  \E r \in Runs, ph \in Phase : SetPhase(r, ph) /\ Moves(journals[r].phase, ph)
  BY <1>6 DEF RollbackStart, RollbackFinish, ProcInv, ProcOK, Working, IsLatest, Unrolled, Phase, Moves
<1>7. ASSUME NEW c \in Procs, Apply(c)
      PROVE  \/ UNCHANGED journals \/ ApplyPrepare(c) \/ ApplyStart(c) \/ ApplyFinish(c)
  BY <1>7 DEF Apply, ApplyBegin, ApplyStage, InstallCheck, InstallCommit, ApplyRecord
<1>8. ASSUME NEW c \in Procs, Rollback(c)
      PROVE  \/ UNCHANGED journals \/ RollbackStart(c) \/ RollbackFinish(c)
  BY <1>8 DEF Rollback, RollbackRead, RollbackBegin, RestoreSkip, RestoreCheck, RestoreCommit, RollbackRecord
<1>9. ASSUME NEW c \in Procs, Check(c) \/ Abort(c)
      PROVE  UNCHANGED journals
  BY <1>9 DEF Check, CheckBegin, CheckRead, VerifyReport, ReadyCompare, ReadyReport, Abort
<1>10. MakePlan \/ (\E p \in Paths, v \in Contents \cup {Absent} : MirrorChange(p, v) \/ Edit(p, v))
         => UNCHANGED journals
  BY DEF MakePlan, MirrorChange, Edit
<1>11. (\E c \in Procs : ApplyPrepare(c)) \/ UNCHANGED journals
       \/ \E r \in Runs, ph \in Phase : SetPhase(r, ph) /\ Moves(journals[r].phase, ph)
  BY <1>5, <1>6, <1>7, <1>8, <1>9, <1>10 DEF Next
<1>12. /\ Len(journals') >= Len(journals)
       /\ \A s \in Runs : /\ journals'[s].plan = journals[s].plan
                          /\ Moves(journals[s].phase, journals'[s].phase)
  <2>1. CASE \E c \in Procs : ApplyPrepare(c)
    BY <1>3, <2>1 DEF Moves
  <2>2. CASE \E r \in Runs, ph \in Phase : SetPhase(r, ph) /\ Moves(journals[r].phase, ph)
    BY <1>1, <1>4, <2>2
  <2> QED
    BY <1>1, <1>2, <1>11, <2>1, <2>2 DEF Moves
<1> QED
  BY <1>1, <1>12

\* The journals a check has read are those of runs that have ended since; once
\* it has read the baseline, none above that run is complete.
CheckOK(c) ==
  /\ pc[c] \in {"checking", "comparing", "compared"} =>
       /\ job[c].known <= Len(journals)
       /\ \A s \in Runs : s <= job[c].known => journals[s].phase \notin {"Prepared", "Applying"}
  /\ pc[c] \in {"comparing", "compared"} =>
       \A s \in Runs : job[c].run < s /\ s <= job[c].known => journals[s].phase # "Applied"

CheckInv == \A c \in Procs : CheckOK(c)

\* What a check knows stays true while others move the journals on.
LEMMA CheckKept ==
  ASSUME IInv, CheckInv, Next, NEW d \in Procs, pc'[d] = pc[d], job'[d] = job[d]
  PROVE  CheckOK(d)'
<1>1. CheckOK(d)
  BY DEF CheckInv
<1>2. Len(journals) \in Nat /\ Runs = 1..Len(journals) /\ job[d].known \in Nat
  BY LenProperties DEF IInv, TypeOK, Runs
<1>3. Len(journals') \in Nat /\ Runs' = 1..Len(journals')
  BY TypeStep, LenProperties DEF TypeOK, Runs
<1>4. ASSUME NEW s \in Runs', pc[d] \in {"checking", "comparing", "compared"}, s <= job[d].known
      PROVE  s \in Runs /\ Moves(journals[s].phase, journals'[s].phase)
  BY <1>1, <1>2, <1>3, <1>4, JournalsStep DEF CheckOK
<1> QED
  BY <1>1, <1>2, <1>3, <1>4, JournalsStep DEF CheckOK, Moves

\* A run the check knows and that stands above the baseline it reads is being
\* rolled back: the baseline is that of the top run or of the one below it.
LEMMA ReadBelow ==
  ASSUME IInv, NEW known \in Nat, baseline # 0,
         \A s \in Runs : s <= known => journals[s].phase \notin {"Prepared", "Applying"},
         NEW s \in Runs, baseline < s, s <= known, journals[s].phase = "Applied"
  PROVE  FALSE
<1>1. Runs = 1..Len(journals) /\ Len(journals) \in Nat /\ baseline \in Runs
  BY LenProperties DEF IInv, TypeOK, Runs
<1>2. s \in Unrolled /\ Unrolled \subseteq Runs
  BY DEF Unrolled
<1>3. Unfinished # {}
  <2>1. Unfinished = {} => IsLatest(baseline)
    BY <1>2 DEF IInv, StackInv, BaselineIsLatest
  <2> QED
    BY <1>1, <1>2, <2>1 DEF IsLatest
<1>4. PICK l \in Unfinished : TRUE
  BY <1>3
<1>5. IsLatest(l) /\ l \in Runs /\ s <= l
  BY <1>2, <1>4 DEF IInv, StackInv, OnlyLatestUnfinished, IsLatest, Unfinished
<1>6. s # l
  BY <1>4 DEF Unfinished
<1>7. baseline # l /\ baseline = journals[l].prev
  BY <1>1, <1>5 DEF IInv, StackInv
<1>8. Below(l, baseline)
  BY <1>5, <1>7 DEF IInv, StackInv, IsLatest
<1>9. s < l
  BY <1>1, <1>5, <1>6
<1> QED
  BY <1>1, <1>2, <1>8, <1>9 DEF Below

\* apply, rollback and the end of a process never enter a label of a check.
LEMMA WriterLabels ==
  ASSUME NEW c \in Procs, Apply(c) \/ Rollback(c) \/ Abort(c)
  PROVE  \E l, j : Goto(c, l, j) /\ l \notin {"checking", "comparing", "compared", "reported"}
<1> DEFINE Leaves == \E l, j : Goto(c, l, j) /\ l \notin {"checking", "comparing", "compared", "reported"}
<1> SUFFICES Leaves
  OBVIOUS
<1>1. CASE Apply(c)
  <2>1. ASSUME \E plan \in plans : ApplyBegin(c, plan)
        PROVE  Leaves
    BY <2>1 DEF ApplyBegin
  <2>2. ASSUME ApplyStage(c) \/ ApplyPrepare(c) \/ ApplyStart(c)
        PROVE  Leaves
    <3>1. CASE ApplyStage(c)
      BY <3>1 DEF ApplyStage
    <3>2. CASE ApplyPrepare(c)
      BY <3>2 DEF ApplyPrepare
    <3>3. CASE ApplyStart(c)
      BY <3>3 DEF ApplyStart
    <3> QED BY <2>2, <3>1, <3>2, <3>3
  <2>3. ASSUME NEW p \in Paths, InstallCheck(c, p)
        PROVE  Leaves
    <3>1. Goto(c, "installChecked", [job[c] EXCEPT !.at = p])
      BY <2>3 DEF InstallCheck
    <3> QED
      BY <3>1
  <2>4. ASSUME InstallCommit(c)
        PROVE  Leaves
    BY <2>4 DEF InstallCommit
  <2>5. ASSUME ApplyRecord(c) \/ ApplyFinish(c)
        PROVE  Leaves
    BY <2>5 DEF ApplyRecord, ApplyFinish
  <2> HIDE DEF Leaves
  <2> QED
    BY <1>1, <2>1, <2>2, <2>3, <2>4, <2>5 DEF Apply
<1>2. CASE Rollback(c)
  <2>1. ASSUME NEW r \in Runs, RollbackRead(c, r)
        PROVE  Leaves
    <3>1. Goto(c, "rollbackRead", [Idle EXCEPT !.run = r, !.plan = journals[r].plan])
      BY <2>1 DEF RollbackRead
    <3> QED
      BY <3>1
  <2>2. ASSUME RollbackBegin(c) \/ RollbackStart(c)
        PROVE  Leaves
    BY <2>2 DEF RollbackBegin, RollbackStart
  <2>3. ASSUME NEW p \in Paths, RestoreSkip(c, p)
        PROVE  Leaves
    <3>1. Goto(c, "restoring", [job[c] EXCEPT !.todo = @ \ {p}])
      BY <2>3 DEF RestoreSkip
    <3> QED
      BY <3>1
  <2>4. ASSUME NEW p \in Paths, RestoreCheck(c, p)
        PROVE  Leaves
    <3>1. Goto(c, "restoreChecked", [job[c] EXCEPT !.at = p])
      BY <2>4 DEF RestoreCheck
    <3> QED
      BY <3>1
  <2>5. ASSUME RestoreCommit(c)
        PROVE  Leaves
    BY <2>5 DEF RestoreCommit
  <2>6. ASSUME RollbackRecord(c) \/ RollbackFinish(c)
        PROVE  Leaves
    BY <2>6 DEF RollbackRecord, RollbackFinish
  <2> HIDE DEF Leaves
  <2> QED
    BY <1>2, <2>1, <2>2, <2>3, <2>4, <2>5, <2>6 DEF Rollback
<1>3. CASE Abort(c)
  BY <1>3 DEF Abort
<1> QED
  BY <1>1, <1>2, <1>3

\* Every step keeps what the checks in progress know.
LEMMA CheckInvStep ==
  ASSUME IInv, CheckInv, Next
  PROVE  CheckInv'
<1>0. TypeOK /\ \A c \in Procs : job[c].known \in Nat
  BY DEF IInv, TypeOK
<1>1. Runs = 1..Len(journals) /\ Len(journals) \in Nat
  BY LenProperties DEF IInv, TypeOK, Runs
<1>2. ASSUME UNCHANGED <<pc, job>>
      PROVE  CheckInv'
  BY <1>2, CheckKept DEF CheckInv
<1>3. ASSUME NEW c \in Procs, NEW l, NEW j, Goto(c, l, j), CheckOK(c)'
      PROVE  CheckInv'
  BY <1>0, <1>3, GotoEffect, CheckKept DEF CheckInv
<1>4. ASSUME NEW c \in Procs, NEW l, NEW j, Goto(c, l, j), l \notin {"checking", "comparing", "compared"}
      PROVE  CheckInv'
  <2>1. CheckOK(c)'
    BY <1>0, <1>4, GotoEffect DEF CheckOK
  <2> QED
    BY <1>3, <1>4, <2>1
<1>5. ASSUME NEW c \in Procs, Apply(c) \/ Rollback(c) \/ Abort(c)
      PROVE  CheckInv'
  BY <1>4, <1>5, WriterLabels
<1>6. ASSUME NEW c \in Procs, Check(c)
      PROVE  CheckInv'
  <2>1. CASE CheckBegin(c)
    <3> DEFINE j == [Idle EXCEPT !.known = Len(journals)]
    <3>1. j.known = Len(journals)
      BY DEF Idle
    <3>2. /\ Goto(c, "checking", j) /\ UNCHANGED journals
          /\ Unfinished = {} /\ Runs' = Runs
      BY <2>1 DEF CheckBegin, Runs
    <3> HIDE DEF j
    <3>3. pc'[c] = "checking" /\ job'[c].known = Len(journals)
      BY <1>0, <3>1, <3>2, GotoEffect
    <3>4. CheckOK(c)'
      BY <1>1, <3>2, <3>3 DEF CheckOK, Unfinished, Phase
    <3> QED
      BY <1>3, <3>2, <3>4
  <2>2. CASE CheckRead(c)
    <3> DEFINE j == [job[c] EXCEPT !.run = baseline, !.plan = journals[baseline].plan]
    <3>1. j.run = baseline /\ j.known = job[c].known
      BY <1>0 DEF TypeOK
    <3>2. /\ Goto(c, "comparing", j)
          /\ UNCHANGED journals /\ baseline # 0 /\ pc[c] = "checking" /\ Runs' = Runs
      BY <2>2 DEF CheckRead, Runs
    <3> HIDE DEF j
    <3>3. pc'[c] = "comparing" /\ job'[c].known = job[c].known /\ job'[c].run = baseline
      BY <1>0, <3>1, <3>2, GotoEffect
    <3>4. CheckOK(c)
      BY DEF CheckInv
    <3>5. \A s \in Runs : baseline < s /\ s <= job[c].known => journals[s].phase # "Applied"
      BY <1>0, <3>2, <3>4, ReadBelow DEF CheckOK
    <3>6. CheckOK(c)'
      BY <3>2, <3>3, <3>4, <3>5 DEF CheckOK
    <3> QED
      BY <1>3, <3>2, <3>6
  <2>3. CASE ReadyCompare(c)
    <3>1. /\ Goto(c, "compared", job[c]) /\ UNCHANGED journals /\ pc[c] = "comparing" /\ Runs' = Runs
      BY <2>3 DEF ReadyCompare, Runs
    <3>2. pc'[c] = "compared" /\ job'[c] = job[c]
      BY <1>0, <3>1, GotoEffect
    <3>3. CheckOK(c)'
      BY <3>1, <3>2 DEF CheckInv, CheckOK
    <3> QED
      BY <1>3, <3>1, <3>3
  <2>4. CASE VerifyReport(c) \/ ReadyReport(c)
    BY <1>4, <2>4 DEF VerifyReport, ReadyReport
  <2> QED
    BY <1>6, <2>1, <2>2, <2>3, <2>4 DEF Check
<1> QED
  BY <1>2, <1>5, <1>6 DEF Next, MirrorChange, Edit, MakePlan

\* With what is known while a plan is checked, verified and reported.
LEMMA CheckInvariance == Spec => [](IInv /\ CheckInv)
<1>1. Init => CheckInv
  BY DEF Init, CheckInv, CheckOK
<1>2. IInv /\ CheckInv /\ [Next]_vars => CheckInv'
  <2> SUFFICES ASSUME IInv, CheckInv, [Next]_vars PROVE CheckInv'
    OBVIOUS
  <2>1. CASE Next
    BY <2>1, CheckInvStep
  <2>2. CASE UNCHANGED vars
    BY <2>2 DEF vars, CheckInv, CheckOK, Runs
  <2> QED
    BY <2>1, <2>2
<1> QED
  BY <1>1, <1>2, InitInv, StepInv, PTL DEF Spec

-----------------------------------------------------------------------------
\* Every variable keeps its type in every execution of the engine (main.rs).
THEOREM TypeCorrect == Spec => []TypeOK
  BY Invariance, PTL DEF IInv

\* However apply and rollback interleave and wherever they are cut, a workspace
\* with no unfinished run has the latest run that is in force as its baseline.
THEOREM BaselineCorrect == Spec => []BaselineIsLatest
<1>1. IInv => BaselineIsLatest
  BY DEF IInv, StackInv
<1> QED
  BY <1>1, Invariance, PTL

\* assert_no_pending and the latest-first rule leave at most one unfinished
\* run, and it is on top: rollback always has a run it may work on.
THEOREM OneUnfinished == Spec => []OnlyLatestUnfinished
<1>1. IInv => OnlyLatestUnfinished
  BY DEF IInv, StackInv
<1> QED
  BY <1>1, Invariance, PTL

\* However often rollback rewrites a journal from a copy it read before it had
\* the lock, no journal is lost and none moves back.
THEOREM PhasesForward == Spec => PhasesMoveForward
<1>1. ASSUME IInv, [Next]_vars
      PROVE  [/\ Len(journals') >= Len(journals)
              /\ \A r \in Runs : /\ journals'[r].plan = journals[r].plan
                                /\ Rank(journals'[r].phase) >= Rank(journals[r].phase)]_vars
  <2>1. CASE Next
    <3>1. \A r \in Runs : journals[r].phase \in Phase
      BY <1>1, PhaseType DEF IInv, TypeOK, Runs
    <3>2. \A a, b \in Phase : Moves(a, b) => Rank(b) >= Rank(a)
      <4>1. /\ Rank("Prepared") = 0 /\ Rank("Applying") = 1 /\ Rank("Applied") = 2
            /\ Rank("RollingBack") = 3 /\ Rank("RolledBack") = 4
        BY DEF Rank
      <4> QED
        BY <4>1 DEF Moves, Phase
    <3>3. \A r \in Runs : journals'[r].phase \in Phase
      <4>1. journals' \in Seq(Journal) /\ \A r \in Runs : r \in DOMAIN journals'
        BY <1>1, <2>1, TypeStep, JournalsStep DEF TypeOK, Runs
      <4> QED
        BY <4>1, PhaseType
    <3> QED
      BY <1>1, <2>1, <3>1, <3>2, <3>3, JournalsStep
  <2> QED
    BY <1>1, <2>1
<1> QED
  BY <1>1, Invariance, PTL DEF Spec, PhasesMoveForward

\* What `ready` and `verify` report without a lock is the newest complete run,
\* runs applied since they began aside.
THEOREM ReportsAreNewest == Spec => ReportsNewest
<1>1. ASSUME IInv, CheckInv, [Next]_vars
      PROVE  [\A c \in Procs : pc[c] # "reported" /\ pc'[c] = "reported" =>
                \A s \in Runs : s > job[c].run /\ journals[s].phase = "Applied" => s > job[c].known]_vars
  <2>1. SUFFICES ASSUME Next, NEW c \in Procs, pc[c] # "reported", pc'[c] = "reported",
                        NEW s \in Runs, s > job[c].run, journals[s].phase = "Applied"
                 PROVE  s > job[c].known
    BY <1>1
  <2>2. TypeOK /\ s \in Nat /\ job[c].run \in Nat /\ job[c].known \in Nat
    BY <1>1, LenProperties DEF IInv, TypeOK, Runs
  <2>3. CheckOK(c)
    BY <1>1 DEF CheckInv
  <2>4. ASSUME NEW d \in Procs, NEW l, NEW j, Goto(d, l, j)
        PROVE  d = c /\ l = "reported"
    BY <2>1, <2>2, <2>4, GotoEffect
  <2>5. ASSUME NEW d \in Procs, Apply(d) \/ Rollback(d) \/ Abort(d)
        PROVE  FALSE
    BY <2>4, <2>5, WriterLabels
  <2>6. ASSUME NEW d \in Procs, Check(d)
        PROVE  d = c /\ pc[c] \in {"comparing", "compared"}
    <3>1. CASE CheckBegin(d) \/ CheckRead(d) \/ ReadyCompare(d)
      <4>1. \E l, j : Goto(d, l, j) /\ l # "reported"
        BY <3>1 DEF CheckBegin, CheckRead, ReadyCompare
      <4> QED
        BY <2>4, <4>1
    <3>2. CASE VerifyReport(d) \/ ReadyReport(d)
      BY <2>4, <3>2 DEF VerifyReport, ReadyReport
    <3> QED
      BY <2>6, <3>1, <3>2 DEF Check
  <2>7. pc[c] \in {"comparing", "compared"}
    BY <2>1, <2>5, <2>6 DEF Next, MirrorChange, Edit, MakePlan
  <2> QED
    BY <2>1, <2>2, <2>3, <2>7 DEF CheckOK
<1> QED
  BY <1>1, CheckInvariance, PTL DEF Spec, ReportsNewest

-----------------------------------------------------------------------------
(* The engine implements a stack of imports *)

\* A step that leaves journals and baseline.json alone is no step of the stack.
LEMMA StackStutters ==
  ASSUME UNCHANGED <<journals, baseline>>
  PROVE  UNCHANGED <<Unrolled, Unfinished # {}, baseline>>
  BY DEF Unrolled, Unfinished, Runs

\* The journal of the top run changes its phase and stays in force: the run is
\* open afterwards unless it is applied, and was open unless it was applied.
LEMMA TopMarked ==
  ASSUME IInv, NEW r \in Runs, IsLatest(r), NEW ph \in Phase \ {"RolledBack"}, SetPhase(r, ph)
  PROVE  /\ Unrolled' = Unrolled
         /\ (Unfinished' # {}) <=> ph # "Applied"
         /\ (Unfinished # {}) <=> journals[r].phase # "Applied"
<1>1. /\ Runs' = Runs /\ journals'[r].phase = ph
      /\ \A s \in Runs : s # r => journals'[s].phase = journals[s].phase
  BY SetPhaseEffect DEF IInv, TypeOK
<1>2. Unrolled' = Unrolled
  BY <1>1 DEF Unrolled, IsLatest
<1>3. Runs \subseteq Nat
  BY LenProperties DEF IInv, TypeOK, Runs
<1>4. \A s \in Unfinished : s = r
  BY <1>3 DEF IInv, StackInv, OnlyLatestUnfinished, IsLatest, Unrolled, Unfinished
<1>5. \A s \in Unfinished' : s = r
  BY <1>1, <1>4 DEF Unfinished
<1> QED
  BY <1>1, <1>2, <1>4, <1>5 DEF Unfinished, IsLatest, Unrolled

\* An apply that writes its journal pushes its run.
LEMMA PrepareIsPush ==
  ASSUME IInv, NEW c \in Procs, ApplyPrepare(c)
  PROVE  Stack!Push
<1> DEFINE n == Len(journals) + 1
           j == [phase |-> "Prepared", plan |-> job[c].plan, prev |-> baseline]
<1>1. Unfinished = {} /\ job[c].plan \in Plan /\ baseline \in Nat /\ journals \in Seq(Journal)
  BY LenProperties DEF IInv, ProcInv, ProcOK, ApplyPrepare, TypeOK
<1>2. j \in Journal /\ journals' = Append(journals, j) /\ baseline' = baseline
  BY <1>1 DEF Journal, Phase, ApplyPrepare
<1>3. j.phase = "Prepared"
  OBVIOUS
<1> HIDE DEF j
<1>4. /\ Len(journals) \in Nat /\ Runs = 1..Len(journals) /\ Runs' = 1..n
      /\ journals'[n] = j /\ \A s \in Runs : journals'[s] = journals[s]
  BY <1>1, <1>2, LenProperties, AppendProperties DEF Runs
<1>5. Unrolled' = Unrolled \cup {n} /\ n \in Unfinished'
  BY <1>3, <1>4 DEF Unrolled, Unfinished
<1>6. n \in Nat \ {0} /\ \A s \in Unrolled : s < n
  BY <1>4 DEF Unrolled
<1> QED
  BY <1>1, <1>2, <1>5, <1>6 DEF Stack!Push

\* The latest run is the top of the stack, and the run below it the top of the rest.
LEMMA TopRuns ==
  ASSUME IInv, NEW r, IsLatest(r)
  PROVE  Stack!IsTop(r) /\ Stack!TopOf(Unrolled \ {r}, journals[r].prev)
<1>1. Unrolled \subseteq Nat
  BY LenProperties DEF IInv, TypeOK, Runs, Unrolled
<1>2. r \in Unrolled /\ Below(r, journals[r].prev)
  BY DEF IInv, StackInv, IsLatest
<1>3. \A s \in Unrolled \ {r} : s < r
  BY <1>1, <1>2 DEF IsLatest
<1>4. Stack!TopOf(Unrolled \ {r}, journals[r].prev)
  BY <1>1, <1>2, <1>3 DEF Below, Stack!TopOf
<1> QED
  BY <1>4 DEF IsLatest, Stack!IsTop

\* The write of baseline.json moves the record to the open run or below it.
LEMMA WriteIsRecord ==
  ASSUME IInv, NEW r \in Unfinished, UNCHANGED journals, baseline' \in {r, journals[r].prev}
  PROVE  Stack!Record
<1>1. /\ Unrolled' = Unrolled /\ Unfinished' = Unfinished
  BY DEF Unrolled, Unfinished, Runs
<1>2. r \in Unrolled /\ IsLatest(r)
  BY DEF IInv, StackInv, OnlyLatestUnfinished, IsLatest
<1>3. Stack!IsTop(r) /\ Stack!TopOf(Unrolled \ {r}, journals[r].prev)
  BY <1>2, TopRuns
<1> QED
  BY <1>1, <1>2, <1>3 DEF Stack!Record

\* Marking the run of baseline.json applied closes it.
LEMMA FinishIsClose ==
  ASSUME IInv, NEW c \in Procs, ApplyFinish(c)
  PROVE  Stack!Close
<1> DEFINE r == job[c].run
<1>1. IsLatest(r) /\ r \in Runs /\ baseline = r /\ journals[r].phase = "Applying"
  BY DEF IInv, ProcInv, ProcOK, Working, ApplyFinish, IsLatest, Unrolled
<1>2. Unrolled' = Unrolled /\ ~(Unfinished' # {}) /\ Unfinished # {}
  BY <1>1, TopMarked DEF ApplyFinish, Phase
<1>3. baseline' = baseline
  BY DEF ApplyFinish
<1> QED
  BY <1>1, <1>2, <1>3 DEF Stack!Close, Stack!IsTop, IsLatest

\* The first step of a rollback reopens a completed run and leaves an open one.
LEMMA StartReopens ==
  ASSUME IInv, NEW c \in Procs, RollbackStart(c)
  PROVE  Stack!Reopen \/ UNCHANGED <<Unrolled, Unfinished # {}, baseline>>
<1> DEFINE r == job[c].run
<1>1. IsLatest(r) /\ r \in Runs
  BY DEF IInv, ProcInv, ProcOK, RollbackStart, IsLatest, Unrolled
<1>2. Unrolled' = Unrolled /\ Unfinished' # {}
  BY <1>1, TopMarked DEF RollbackStart, Phase
<1>3. baseline' = baseline
  BY DEF RollbackStart
<1>4. Unrolled # {}
  BY <1>1 DEF IsLatest
<1> QED
  BY <1>2, <1>3, <1>4 DEF Stack!Reopen

\* Marking the run rolled back pops it.
LEMMA FinishIsPop ==
  ASSUME IInv, NEW c \in Procs, RollbackFinish(c)
  PROVE  Stack!Pop
<1> DEFINE r == job[c].run
<1>1. IsLatest(r) /\ r \in Runs /\ baseline = journals[r].prev /\ journals[r].phase = "RollingBack"
  BY DEF IInv, ProcInv, ProcOK, Working, RollbackFinish, IsLatest, Unrolled
<1>2. SetPhase(r, "RolledBack") /\ baseline' = baseline
  BY DEF RollbackFinish
<1>3. Unrolled' = Unrolled \ {r} /\ Unfinished' = {}
  BY <1>1, <1>2, StackPop DEF IInv
<1>4. r \in Unfinished
  BY <1>1 DEF Unfinished
<1>5. Stack!TopOf(Unrolled \ {r}, baseline) /\ Stack!IsTop(r) /\ r \in Unrolled
  BY <1>1, TopRuns DEF IsLatest
<1> QED
  BY <1>2, <1>3, <1>4, <1>5 DEF Stack!Pop

\* Every step of the engine is a step of the stack or none.
LEMMA ImplementsStep ==
  ASSUME IInv, [Next]_vars
  PROVE  [Stack!Next]_<<Unrolled, Unfinished # {}, baseline>>
<1> DEFINE Goal == Stack!Next \/ UNCHANGED <<Unrolled, Unfinished # {}, baseline>>
<1>1. ASSUME UNCHANGED <<journals, baseline>> PROVE Goal
  BY <1>1, StackStutters
<1>2. ASSUME NEW c \in Procs, Apply(c) PROVE Goal
  <2>1. CASE ApplyPrepare(c)
    BY <2>1, PrepareIsPush DEF Stack!Next
  <2>2. CASE ApplyStart(c)
    <3> DEFINE r == job[c].run
    <3>1. IsLatest(r) /\ r \in Runs /\ journals[r].phase = "Prepared"
      BY <2>2 DEF IInv, ProcInv, ProcOK, Working, ApplyStart, IsLatest, Unrolled
    <3>2. Unrolled' = Unrolled /\ Unfinished' # {} /\ Unfinished # {}
      BY <2>2, <3>1, TopMarked DEF ApplyStart, Phase
    <3> QED
      BY <2>2, <3>2 DEF ApplyStart
  <2>3. CASE ApplyRecord(c)
    <3>1. job[c].run \in Unfinished
      BY <2>3 DEF IInv, ProcInv, ProcOK, Working, ApplyRecord, IsLatest, Unrolled, Unfinished
    <3> QED
      BY <2>3, <3>1, WriteIsRecord DEF ApplyRecord, Stack!Next
  <2>4. CASE ApplyFinish(c)
    BY <2>4, FinishIsClose DEF Stack!Next
  <2>5. CASE \/ \E plan \in plans : ApplyBegin(c, plan)
             \/ ApplyStage(c) \/ \E p \in Paths : InstallCheck(c, p)
             \/ InstallCommit(c)
    BY <1>1, <2>5 DEF ApplyBegin, ApplyStage, InstallCheck, InstallCommit
  <2> QED
    BY <1>2, <2>1, <2>2, <2>3, <2>4, <2>5 DEF Apply
<1>3. ASSUME NEW c \in Procs, Rollback(c) PROVE Goal
  <2>1. CASE RollbackStart(c)
    BY <2>1, StartReopens DEF Stack!Next
  <2>2. CASE RollbackRecord(c)
    <3>1. job[c].run \in Unfinished
      BY <2>2 DEF IInv, ProcInv, ProcOK, Working, RollbackRecord, IsLatest, Unrolled, Unfinished
    <3> QED
      BY <2>2, <3>1, WriteIsRecord DEF RollbackRecord, Stack!Next
  <2>3. CASE RollbackFinish(c)
    BY <2>3, FinishIsPop DEF Stack!Next
  <2>4. CASE \/ \E r \in Runs : RollbackRead(c, r)
             \/ RollbackBegin(c)
             \/ \E p \in Paths : RestoreSkip(c, p) \/ RestoreCheck(c, p)
             \/ RestoreCommit(c)
    BY <1>1, <2>4 DEF RollbackRead, RollbackBegin, RestoreSkip, RestoreCheck, RestoreCommit
  <2> QED
    BY <1>3, <2>1, <2>2, <2>3, <2>4 DEF Rollback
<1>4. ASSUME NEW c \in Procs, Check(c) \/ Abort(c) PROVE Goal
  BY <1>1, <1>4 DEF Check, CheckBegin, CheckRead, VerifyReport, ReadyCompare, ReadyReport, Abort
<1>5. CASE \/ \E p \in Paths, v \in Contents \cup {Absent} : MirrorChange(p, v) \/ Edit(p, v)
           \/ MakePlan \/ UNCHANGED vars
  BY <1>1, <1>5 DEF MirrorChange, Edit, MakePlan, vars
<1>6. Goal
  BY <1>2, <1>3, <1>4, <1>5 DEF Next
<1> QED
  BY <1>6

\* The engine implements the stack that ImportStack describes: however applies, rollbacks,
\* checks and stops interleave, runs are pushed on completed runs, only the top one is
\* undone, and baseline.json names the top one whenever none is open.
THEOREM StackImplemented == Spec => ImplementsStack
<1>1. Init => Stack!Init
  BY DEF Init, Stack!Init, Unrolled, Unfinished, Runs
<1>2. IInv /\ [Next]_vars => [Stack!Next]_<<Unrolled, Unfinished # {}, baseline>>
  BY ImplementsStep
<1> QED
  BY <1>1, <1>2, Invariance, PTL DEF Spec, ImplementsStack, Stack!Spec

-----------------------------------------------------------------------------
(* What a run leaves in the workspace *)

\* The shapes of what the arguments below speak of.
LEMMA Shapes ==
  ASSUME TypeOK
  PROVE  /\ Len(journals) \in Nat /\ Runs = 1..Len(journals) /\ baseline \in 0..Len(journals)
         /\ \A r \in Runs : journals[r].plan \in Plan /\ journals[r].phase \in Phase
         /\ Len(clean) \in Nat /\ DOMAIN clean = 1..Len(clean) /\ Runs \subseteq DOMAIN clean
         /\ \A r \in DOMAIN clean : clean[r] \subseteq Paths
<1>1. /\ Len(journals) \in Nat /\ Runs = 1..Len(journals) /\ baseline \in 0..Len(journals)
      /\ Len(clean) \in Nat /\ DOMAIN clean = 1..Len(clean) /\ Len(clean) >= Len(journals)
  BY LenProperties DEF TypeOK, Runs
<1>2. \A r \in Runs : journals[r] \in Journal
  BY <1>1, ElementOfSeq DEF TypeOK
<1>3. \A r \in DOMAIN clean : clean[r] \in SUBSET Paths
  BY <1>1, ElementOfSeq DEF TypeOK
<1> QED
  BY <1>1, <1>2, <1>3 DEF Journal

\* What apply leaves at a path, by whether it changes it.
LEMMA ResultAt ==
  ASSUME NEW plan \in Plan, NEW p \in Paths
  PROVE  /\ p \in Changes(plan) => Result(plan)[p] = plan.source[p] /\ plan.source[p] # Absent
         /\ p \notin Changes(plan) => Result(plan)[p] = plan.target[p]
  BY DEF Plan, Tree, Changes, Result

\* A step that writes no file, journal or baseline, nor checks a run.
LEMMA TreeUntouched ==
  ASSUME TreeInv, UNCHANGED <<target, journals, clean>>
  PROVE  TreeInv'
  BY DEF TreeInv, Unrolled, Runs, IsLatest, Kept, Left, Fits

\* A process that does not hold the lock relies on the plan of its run only.
LEMMA JobBystander ==
  ASSUME JobInv, NEW d \in Procs, pc[d] \notin Locked, pc'[d] = pc[d], job'[d] = job[d],
         Runs \subseteq Runs', \A s \in Runs : journals'[s].plan = journals[s].plan
  PROVE  JobOK(d)'
<1>1. JobOK(d)
  BY DEF JobInv
<1>2. pc'[d] \notin {"staged", "installing", "installChecked", "recorded", "restoring",
                     "restoreChecked", "restored"}
  BY DEF Locked
<1>3. pc'[d] \in Owners => job'[d].run \in Runs' /\ job'[d].plan = (journals[job[d].run].plan)'
  BY <1>1 DEF JobOK
<1> QED
  BY <1>2, <1>3 DEF JobOK

\* A process keeps its relation to a workspace that stays as it is.
LEMMA JobUntouched ==
  ASSUME JobInv, NEW d \in Procs, pc'[d] = pc[d], job'[d] = job[d],
         UNCHANGED <<target, journals, baseline, clean>>
  PROVE  JobOK(d)'
  BY DEF JobInv, JobOK, Runs, Kept, Left

\* When the holder of the lock steps, the others keep theirs.
LEMMA HolderSteps ==
  ASSUME IInv, JobInv, NEW c \in Procs, pc[c] \in Locked, NEW l, NEW j, Goto(c, l, j),
         Runs \subseteq Runs', \A s \in Runs : journals'[s].plan = journals[s].plan,
         JobOK(c)'
  PROVE  JobInv'
<1> SUFFICES ASSUME NEW d \in Procs, d # c PROVE JobOK(d)'
  BY DEF JobInv
<1>1. pc'[d] = pc[d] /\ job'[d] = job[d] /\ pc[d] \notin Locked
  BY GotoEffect, OneHolder DEF IInv
<1> QED
  BY <1>1, JobBystander

\* An edit takes its path out of what any run may rely on.
LEMMA EditStep ==
  ASSUME IInv, TreeInv, JobInv, NEW p \in Paths, NEW v \in Contents \cup {Absent}, Edit(p, v)
  PROVE  TreeInv' /\ JobInv'
<1>1. /\ UNCHANGED <<journals, baseline, pc, job>> /\ Runs' = Runs /\ Unrolled' = Unrolled
      /\ \A r : IsLatest(r)' <=> IsLatest(r)
  BY DEF Edit, Runs, Unrolled, IsLatest
<1>2. DOMAIN clean' = DOMAIN clean /\ \A r \in DOMAIN clean : clean'[r] = clean[r] \ {p}
  BY DEF Edit
<1>3. \A q \in Paths \ {p} : target'[q] = target[q]
  BY DEF IInv, TypeOK, Tree, Edit
<1>4. /\ Runs = 1..Len(journals) /\ Runs \subseteq DOMAIN clean /\ Len(journals) \in Nat
      /\ baseline \in 0..Len(journals)
      /\ \A r \in DOMAIN clean : clean[r] \subseteq Paths
      /\ \A r \in Runs : journals[r].prev \in 0..Len(journals)
  <2>1. \A r \in Runs : journals[r] \in Journal /\ journals[r].prev < r
    BY ElementOfSeq DEF IInv, StackInv, TypeOK, Runs
  <2> QED
    BY <2>1, Shapes DEF IInv, Journal
<1>5. \A b \in 0..Len(journals) : Runs # {} => Kept(b)' = Kept(b) \ {p} /\ Left(b)' = Left(b)
  BY <1>1, <1>2, <1>4 DEF Kept, Left
<1>6. ASSUME NEW r \in Runs, NEW q \in Paths \ {p}, Fits(r, q) PROVE Fits(r, q)'
  BY <1>1, <1>3, <1>6 DEF Fits
<1>7. TreeInv'
  <2>1. \A r, s \in DOMAIN clean' : r <= s => clean'[r] \subseteq clean'[s]
    BY <1>2 DEF TreeInv
  <2>2. \A r \in Unrolled' : \A q \in Kept(journals[r].prev)' :
          (journals[r].plan.target[q] = Left(journals[r].prev)[q])'
    BY <1>1, <1>4, <1>5 DEF TreeInv, Unrolled
  <2>3. \A r \in Unrolled' : IsLatest(r)' => \A q \in clean'[r] : Fits(r, q)'
    BY <1>1, <1>2, <1>4, <1>6 DEF TreeInv, Unrolled
  <2>4. Unrolled' = {} /\ Runs' # {} => \A q \in clean'[1] : target'[q] = Left(0)'[q]
    BY <1>1, <1>2, <1>3, <1>4, <1>5 DEF TreeInv
  <2> QED
    BY <2>1, <2>2, <2>3, <2>4 DEF TreeInv
<1>8. ASSUME NEW c \in Procs PROVE JobOK(c)'
  <2>1. JobOK(c) /\ ProcOK(c)
    BY DEF JobInv, IInv, ProcInv
  <2>2. pc[c] \in Owners => job[c].run \in DOMAIN clean
    BY <1>4, <2>1 DEF JobOK
  <2>3. pc[c] = "staged" => Len(journals) + 1 \in DOMAIN clean
    BY <1>4, <2>1, Shapes DEF ProcOK, IInv
  <2>4. ASSUME pc[c] = "staged"
        PROVE  /\ \A q \in clean'[Len(journals) + 1] : target'[q] = job[c].plan.target[q]
               /\ Runs # {} => \A q \in Kept(baseline)' : job[c].plan.target[q] = Left(baseline)'[q]
    BY <1>1, <1>2, <1>3, <1>4, <1>5, <2>1, <2>3, <2>4 DEF JobOK
  <2>5. pc[c] = "recorded" => \A q \in clean'[job[c].run] : target'[q] = Result(job[c].plan)[q]
    BY <1>2, <1>3, <1>4, <2>1, <2>2 DEF JobOK, Owners
  <2>6. pc[c] \in {"restoring", "restoreChecked"} =>
          \A q \in (clean'[job[c].run] \cap Changes(job[c].plan)) \ job[c].todo :
            target'[q] = job[c].plan.target[q]
    BY <1>2, <1>3, <1>4, <2>1, <2>2 DEF JobOK, Owners
  <2>7. pc[c] = "restored" => \A q \in clean'[job[c].run] : target'[q] = job[c].plan.target[q]
    BY <1>2, <1>3, <1>4, <2>1, <2>2 DEF JobOK, Owners
  <2> QED
    BY <1>1, <2>1, <2>4, <2>5, <2>6, <2>7 DEF JobOK
<1> QED
  BY <1>7, <1>8 DEF JobInv

\* Runs are numbered, and the latest one is the only latest one.
LEMMA LatestIsOne ==
  ASSUME TypeOK, NEW r, NEW s, IsLatest(r), IsLatest(s)
  PROVE  r = s
  BY Shapes DEF IsLatest, Unrolled

\* The holder of the lock, at a path its run changes, writes what the run found or
\* what it installs.
LEMMA WriteStep ==
  ASSUME IInv, TreeInv, NEW r \in Runs, IsLatest(r), journals[r].phase # "Applied",
         NEW p \in Paths,
         NEW v \in {journals[r].plan.target[p], Result(journals[r].plan)[p]},
         target' = [target EXCEPT ![p] = v], UNCHANGED <<journals, clean>>
  PROVE  TreeInv'
<1>1. \A q \in Paths : target'[q] = IF q = p THEN v ELSE target[q]
  BY DEF IInv, TypeOK, Tree
<1>2. /\ Runs' = Runs /\ Unrolled' = Unrolled /\ \A s : IsLatest(s)' <=> IsLatest(s)
      /\ \A b : Kept(b)' = Kept(b) /\ Left(b)' = Left(b)
  BY DEF Runs, Unrolled, IsLatest, Kept, Left
<1>3. ASSUME NEW s \in Unrolled, IsLatest(s), NEW q \in clean[s] PROVE Fits(s, q)'
  <2>1. s = r
    BY <1>3, LatestIsOne DEF IInv
  <2>2. q \in Paths /\ Fits(r, q)
    BY <1>3, <2>1, Shapes DEF IInv, TreeInv, IsLatest
  <2> QED
    BY <1>1, <2>1, <2>2 DEF Fits
<1>4. Unrolled # {}
  BY DEF IsLatest
<1> QED
  BY <1>2, <1>3, <1>4 DEF TreeInv

\* A phase of the top run that still is not rolled back changes nothing in the
\* workspace; an applied one has all it installs.
LEMMA MarkStep ==
  ASSUME IInv, TreeInv, NEW r \in Runs, IsLatest(r), NEW ph \in Phase \ {"RolledBack"}, SetPhase(r, ph),
         ph = "Applied" => \A p \in clean[r] : target[p] = Result(journals[r].plan)[p],
         UNCHANGED <<target, clean>>
  PROVE  TreeInv' /\ Runs' = Runs /\ \A s \in Runs : journals'[s].plan = journals[s].plan
<1>1. /\ Runs' = Runs /\ journals'[r].phase = ph
      /\ \A s \in Runs : /\ journals'[s].plan = journals[s].plan
                         /\ journals'[s].prev = journals[s].prev
                         /\ s # r => journals'[s].phase = journals[s].phase
  BY SetPhaseEffect DEF IInv, TypeOK
<1>2. Unrolled' = Unrolled
  BY <1>1 DEF Unrolled, IsLatest
<1>3. /\ \A s : IsLatest(s)' <=> IsLatest(s)
      /\ \A b \in Runs \cup {0} : Runs # {} => Kept(b)' = Kept(b) /\ Left(b)' = Left(b)
  BY <1>1, <1>2, Shapes DEF IsLatest, Kept, Left, IInv
<1>4. \A s \in Unrolled : journals[s].prev \in Runs \cup {0}
  BY DEF IInv, StackInv, Below, Unrolled
<1>5. ASSUME NEW s \in Unrolled, IsLatest(s), NEW p \in clean[s] PROVE Fits(s, p)'
  <2>1. s = r
    BY <1>5, LatestIsOne DEF IInv
  <2>2. Fits(r, p)
    BY <1>5, <2>1 DEF TreeInv
  <2> QED
    BY <1>1, <1>5, <2>1, <2>2 DEF Fits
<1>6. \A s \in Unrolled : \A p \in Kept(journals[s].prev) :
        (journals[s].plan.target[p] = Left(journals[s].prev)[p])'
  BY <1>1, <1>3, <1>4 DEF TreeInv, Unrolled
<1>7. Unrolled # {}
  BY DEF IsLatest
<1>8. TreeInv'
  <2>1. \A s \in Unrolled' : \A p \in Kept(journals[s].prev)' :
          (journals[s].plan.target[p] = Left(journals[s].prev)[p])'
    BY <1>1, <1>2, <1>3, <1>4, <1>6 DEF Unrolled
  <2> QED
    BY <1>1, <1>2, <1>3, <1>5, <1>7, <2>1 DEF TreeInv
<1> QED
  BY <1>1, <1>8

\* The state that a new run finds is the one the run below it left.
LEMMA Found ==
  ASSUME IInv, TreeInv, Unfinished = {}, Runs # {}
  PROVE  \A p \in Kept(baseline) : target[p] = Left(baseline)[p]
<1>1. CASE Unrolled = {}
  <2>1. baseline = 0
    BY <1>1 DEF IInv, StackInv
  <2> QED
    BY <1>1, <2>1 DEF TreeInv, Kept
<1>2. CASE Unrolled # {}
  <2>1. IsLatest(baseline)
    BY <1>2 DEF IInv, StackInv, BaselineIsLatest
  <2>2. baseline \in Unrolled /\ baseline \in Runs /\ baseline # 0 /\ journals[baseline].phase = "Applied"
    BY <2>1, Shapes DEF IsLatest, Unrolled, Unfinished, IInv
  <2>3. \A p \in clean[baseline] : Fits(baseline, p)
    BY <2>1, <2>2 DEF TreeInv
  <2> QED
    BY <2>2, <2>3 DEF Fits, Kept, Left
<1> QED
  BY <1>1, <1>2

\* A staged apply has compared the workspace with its plan.
LEMMA StageStep ==
  ASSUME IInv, TreeInv, JobInv, NEW c \in Procs, ApplyStage(c)
  PROVE  TreeInv' /\ JobInv'
<1> DEFINE n == Len(journals)
           old == [r \in 1..n |-> clean[r]]
<1>1. /\ n \in Nat /\ Runs = 1..n /\ baseline \in 0..n /\ Runs \subseteq DOMAIN clean
      /\ \A r \in DOMAIN clean : clean[r] \subseteq Paths
      /\ DOMAIN clean = 1..Len(clean)
  BY Shapes DEF IInv
<1>2. /\ UNCHANGED <<target, journals, baseline>> /\ Runs' = Runs /\ Unrolled' = Unrolled
      /\ \A r : IsLatest(r)' <=> IsLatest(r)
  BY DEF ApplyStage, Runs, Unrolled, IsLatest
<1>3. old \in Seq(SUBSET Paths) /\ Len(old) = n /\ \A r \in 1..n : old[r] = clean[r]
  BY <1>1
<1>4. clean' = Append(old, Paths) /\ Paths \in SUBSET Paths
  BY DEF ApplyStage
<1> HIDE DEF old, n
<1>5. /\ DOMAIN clean' = 1..(n + 1) /\ \A r \in 1..n : clean'[r] = clean[r]
      /\ clean'[n + 1] = Paths
  BY <1>1, <1>3, <1>4, AppendProperties
<1>6. \A b \in 0..n : Runs # {} => Kept(b)' = Kept(b) /\ Left(b)' = Left(b)
  BY <1>1, <1>2, <1>5 DEF Kept, Left
<1>7. \A r \in Unrolled : r \in 1..n /\ journals[r].prev \in 0..n
  BY <1>1 DEF IInv, StackInv, Below, Unrolled
<1>8. TreeInv'
  <2>1. \A r, s \in DOMAIN clean' : r <= s => clean'[r] \subseteq clean'[s]
    <3> SUFFICES ASSUME NEW r \in 1..(n + 1), NEW s \in 1..(n + 1), r <= s
                 PROVE  clean'[r] \subseteq clean'[s]
      BY <1>5
    <3>1. CASE s = n + 1
      BY <1>1, <1>5, <3>1
    <3>2. CASE s # n + 1
      <4>1. r \in 1..n /\ s \in 1..n
        BY <1>1, <3>2
      <4> QED
        BY <1>1, <1>5, <4>1 DEF TreeInv
    <3> QED
      BY <3>1, <3>2
  <2>2. \A r \in Unrolled' : \A p \in Kept(journals[r].prev)' :
          (journals[r].plan.target[p] = Left(journals[r].prev)[p])'
    BY <1>1, <1>2, <1>6, <1>7 DEF TreeInv
  <2>3. \A r \in Unrolled' : IsLatest(r)' => \A p \in clean'[r] : Fits(r, p)'
    BY <1>2, <1>5, <1>7 DEF TreeInv, Fits
  <2>4. Unrolled' = {} /\ Runs' # {} => \A p \in clean'[1] : target'[p] = Left(0)'[p]
    BY <1>1, <1>2, <1>5, <1>6 DEF TreeInv
  <2> QED
    BY <2>1, <2>2, <2>3, <2>4 DEF TreeInv
<1>9. /\ pc[c] = "staging" /\ pc'[c] = "staged" /\ job'[c] = job[c] /\ Goto(c, "staged", job[c])
      /\ target = job[c].plan.target
  BY GotoEffect DEF ApplyStage, IInv, Preconditions
<1>10. Unfinished = {}
  BY <1>9 DEF IInv, ProcInv, ProcOK
<1>11. JobOK(c)'
  <2>1. \A p \in clean'[Len(journals') + 1] : target'[p] = job'[c].plan.target[p]
    BY <1>2, <1>9
  <2>2. Runs' # {} => \A p \in Kept(baseline)' : job'[c].plan.target[p] = Left(baseline)'[p]
    BY <1>1, <1>2, <1>6, <1>9, <1>10, Found
  <2> QED
    BY <1>9, <2>1, <2>2 DEF JobOK, Owners
<1>12. JobInv'
  BY <1>2, <1>9, <1>11, HolderSteps DEF Locked
<1> QED
  BY <1>8, <1>12

\* The journal that an apply writes records what the run below it left.
LEMMA PrepareStep ==
  ASSUME IInv, TreeInv, JobInv, NEW c \in Procs, ApplyPrepare(c)
  PROVE  TreeInv' /\ JobInv'
<1> DEFINE j == [phase |-> "Prepared", plan |-> job[c].plan, prev |-> baseline]
<1>0. PICK n : n = Len(journals) + 1
  OBVIOUS
<1>1. /\ Len(journals) \in Nat /\ Runs = 1..Len(journals) /\ baseline \in 0..Len(journals)
      /\ n \in DOMAIN clean /\ Unfinished = {} /\ JobOK(c) /\ pc[c] = "staged"
  BY <1>0, Shapes DEF IInv, ProcInv, ProcOK, JobInv, ApplyPrepare
<1>2. j \in Journal /\ journals \in Seq(Journal)
  BY <1>1 DEF Journal, Phase, IInv, TypeOK
<1>3. /\ j.phase = "Prepared" /\ j.plan = job[c].plan /\ j.prev = baseline
      /\ journals' = Append(journals, j) /\ UNCHANGED <<target, clean, baseline>>
  BY DEF ApplyPrepare
<1> HIDE DEF j
<1>4. /\ Runs' = 1..n /\ journals'[n] = j /\ \A s \in Runs : journals'[s] = journals[s]
  BY <1>0, <1>1, <1>2, <1>3, LenProperties, AppendProperties DEF Runs
<1>5. Unrolled' = Unrolled \cup {n} /\ IsLatest(n)'
  <2>1. Unrolled' = Unrolled \cup {n}
    BY <1>0, <1>1, <1>3, <1>4 DEF Unrolled
  <2>2. Unrolled' \subseteq 1..n
    BY <1>4 DEF Unrolled
  <2>3. n \in Nat /\ \A s \in Unrolled' : s <= n
    BY <1>0, <1>1, <2>2
  <2>4. IsLatest(n)'
    BY <2>1, <2>3 DEF IsLatest
  <2> QED
    BY <2>1, <2>4
<1>6. \A r \in Unrolled : r \in Runs /\ journals[r].prev \in 0..Len(journals)
  BY <1>1 DEF IInv, StackInv, Below, Unrolled
<1>7. \A b \in 0..Len(journals) : Runs # {} => Kept(b)' = Kept(b) /\ Left(b)' = Left(b)
  BY <1>0, <1>1, <1>3, <1>4 DEF Kept, Left
<1>8. \A p \in clean[n] : target[p] = job[c].plan.target[p]
  BY <1>0, <1>1 DEF JobOK
<1>9. \A p \in Kept(baseline)' : j.plan.target[p] = Left(baseline)'[p]
  <2>1. CASE Runs = {}
    BY <1>0, <1>1, <1>3, <1>4, <2>1 DEF Left
  <2>2. CASE Runs # {}
    BY <1>1, <1>3, <1>7, <2>2 DEF JobOK
  <2> QED
    BY <2>1, <2>2
<1>10. TreeInv'
  <2>1. \A r, s \in DOMAIN clean' : r <= s => clean'[r] \subseteq clean'[s]
    BY <1>3 DEF TreeInv
  <2>2. ASSUME NEW r \in Unrolled', NEW p \in Kept(journals[r].prev)'
        PROVE  (journals[r].plan.target[p] = Left(journals[r].prev)[p])'
    <3>1. CASE r = n
      <4>1. journals'[r].prev = baseline' /\ journals'[r].plan = j.plan
        BY <1>3, <1>4, <3>1
      <4> QED
        BY <1>9, <2>2, <4>1
    <3>2. CASE r \in Unrolled
      <4>1. journals'[r] = journals[r] /\ journals[r].prev \in 0..Len(journals) /\ Runs # {}
        BY <1>4, <1>6, <3>2
      <4>2. Kept(journals[r].prev)' = Kept(journals[r].prev) /\ Left(journals[r].prev)' = Left(journals[r].prev)
        BY <1>3, <1>4, <4>1, <1>1 DEF Kept, Left
      <4> QED
        BY <2>2, <3>2, <4>1, <4>2 DEF TreeInv
    <3> QED
      BY <1>5, <3>1, <3>2
  <2>3. ASSUME NEW r \in Unrolled', IsLatest(r)', NEW p \in clean'[r] PROVE Fits(r, p)'
    <3>1. r = n
      BY <1>0, <1>1, <1>4, <1>5, <2>3 DEF IsLatest, Unrolled
    <3> QED
      BY <1>3, <1>4, <1>8, <2>3, <3>1 DEF Fits
  <2>4. Unrolled' # {}
    BY <1>5
  <2>5. \A r \in Unrolled' : \A p \in Kept(journals[r].prev)' :
          (journals[r].plan.target[p] = Left(journals[r].prev)[p])'
    BY <2>2
  <2> QED
    BY <2>1, <2>3, <2>4, <2>5 DEF TreeInv
<1>11. /\ Goto(c, "prepared", [job[c] EXCEPT !.run = n]) /\ pc'[c] = "prepared"
       /\ job'[c].run = n /\ job'[c].plan = job[c].plan
  BY <1>0, GotoEffect DEF ApplyPrepare, IInv, TypeOK
<1>12. JobOK(c)'
  BY <1>0, <1>1, <1>3, <1>4, <1>11 DEF JobOK
<1>13. JobInv'
  BY <1>0, <1>1, <1>4, <1>11, <1>12, HolderSteps DEF Locked
<1> QED
  BY <1>10, <1>13

\* A step of apply.
LEMMA ApplyTree ==
  ASSUME IInv, TreeInv, JobInv, NEW c \in Procs, Apply(c)
  PROVE  TreeInv' /\ JobInv'
<1>0. JobOK(c) /\ ProcOK(c) /\ TypeOK
  BY DEF JobInv, IInv, ProcInv
<1>1. ASSUME NEW plan \in plans, ApplyBegin(c, plan)
      PROVE  TreeInv' /\ JobInv'
  <2>1. TreeInv' /\ Runs' = Runs /\ UNCHANGED <<target, journals, baseline, clean>>
    BY <1>1, TreeUntouched DEF ApplyBegin, Runs
  <2>2. pc'[c] = "staging" /\ \A d \in Procs : d # c => pc'[d] = pc[d] /\ job'[d] = job[d]
    BY <1>0, <1>1, GotoEffect DEF ApplyBegin
  <2>3. JobOK(c)'
    BY <2>2 DEF JobOK, Owners
  <2> QED
    BY <2>1, <2>2, <2>3, JobUntouched DEF JobInv
<1>2. CASE ApplyStage(c)
  BY <1>2, StageStep
<1>3. CASE ApplyPrepare(c)
  BY <1>3, PrepareStep
<1>4. CASE ApplyStart(c)
  <2>1. /\ pc[c] \in Locked /\ job[c].run \in Runs /\ IsLatest(job[c].run)
        /\ job[c].plan = journals[job[c].run].plan
    BY <1>0, <1>4 DEF ApplyStart, ProcOK, JobOK, Owners, Working, Locked
  <2>2. TreeInv' /\ Runs' = Runs /\ \A s \in Runs : journals'[s].plan = journals[s].plan
    BY <1>4, <2>1, MarkStep DEF ApplyStart, Phase
  <2>3. /\ Goto(c, "installing", [job[c] EXCEPT !.todo = Changes(job[c].plan)])
        /\ pc'[c] = "installing" /\ job'[c].run = job[c].run /\ job'[c].plan = job[c].plan
        /\ job'[c].todo = Changes(job[c].plan)
    BY <1>0, <1>4, GotoEffect DEF ApplyStart, TypeOK
  <2>4. JobOK(c)'
    BY <2>1, <2>2, <2>3 DEF JobOK
  <2> QED
    BY <2>1, <2>2, <2>3, <2>4, HolderSteps
<1>5. ASSUME NEW p \in Paths, InstallCheck(c, p)
      PROVE  TreeInv' /\ JobInv'
  <2>1. TreeInv' /\ Runs' = Runs /\ UNCHANGED <<target, journals, baseline, clean>>
    BY <1>5, TreeUntouched DEF InstallCheck, Runs
  <2>2. /\ Goto(c, "installChecked", [job[c] EXCEPT !.at = p])
        /\ pc'[c] = "installChecked" /\ job'[c].run = job[c].run /\ job'[c].plan = job[c].plan
        /\ job'[c].todo = job[c].todo /\ job'[c].at = p /\ p \in job[c].todo
    BY <1>0, <1>5, GotoEffect DEF InstallCheck, TypeOK
  <2>3. JobOK(c)'
    BY <1>0, <1>5, <2>1, <2>2 DEF JobOK, Owners, InstallCheck
  <2>4. pc[c] \in Locked
    BY <1>5 DEF InstallCheck, Locked
  <2> QED
    BY <2>1, <2>2, <2>3, <2>4, HolderSteps
<1>6. CASE InstallCommit(c)
  <2> DEFINE p == job[c].at
             r == job[c].run
  <2>1. /\ pc[c] \in Locked /\ r \in Runs /\ IsLatest(r) /\ journals[r].phase = "Applying"
        /\ job[c].plan = journals[r].plan /\ p \in Changes(job[c].plan)
    BY <1>0, <1>6 DEF InstallCommit, ProcOK, JobOK, Owners, Working, Locked
  <2>2. p \in Paths /\ job[c].plan \in Plan /\ job[c].plan.source[p] = Result(journals[r].plan)[p]
    BY <1>0, <2>1, ResultAt DEF Changes, TypeOK
  <2>3. UNCHANGED <<journals, clean>> /\ target' = [target EXCEPT ![p] = Result(journals[r].plan)[p]]
    BY <1>6, <2>2 DEF InstallCommit
  <2>4. TreeInv' /\ Runs' = Runs
    BY <2>1, <2>2, <2>3, WriteStep DEF Runs
  <2>5. /\ Goto(c, "installing", [job[c] EXCEPT !.at = NoPath, !.todo = @ \ {p}])
        /\ pc'[c] = "installing" /\ job'[c].run = r /\ job'[c].plan = job[c].plan
        /\ job'[c].todo = job[c].todo \ {p}
    <3>1. Goto(c, "installing", [job[c] EXCEPT !.at = NoPath, !.todo = @ \ {p}])
      BY <1>6 DEF InstallCommit
    <3>2. pc'[c] = "installing" /\ job'[c] = [job[c] EXCEPT !.at = NoPath, !.todo = @ \ {p}]
      BY <1>0, <3>1, GotoEffect
    <3> QED
      BY <1>0, <3>1, <3>2 DEF TypeOK
  <2>6. JobOK(c)'
    BY <1>0, <1>6, <2>1, <2>3, <2>4, <2>5 DEF JobOK, InstallCommit
  <2> QED
    BY <2>1, <2>3, <2>4, <2>5, <2>6, HolderSteps
<1>7. CASE ApplyRecord(c)
  <2>1. TreeInv' /\ Runs' = Runs /\ UNCHANGED <<target, journals, clean>>
    BY <1>7, TreeUntouched DEF ApplyRecord, Runs
  <2>2. /\ Goto(c, "recorded", job[c]) /\ pc'[c] = "recorded" /\ job'[c] = job[c]
    BY <1>0, <1>7, GotoEffect DEF ApplyRecord
  <2>3. JobOK(c)' /\ pc[c] \in Locked
    BY <1>0, <1>7, <2>1, <2>2 DEF JobOK, ApplyRecord, Owners, Locked
  <2> QED
    BY <2>1, <2>2, <2>3, HolderSteps
<1>8. CASE ApplyFinish(c)
  <2>1. /\ pc[c] \in Locked /\ job[c].run \in Runs /\ IsLatest(job[c].run)
        /\ \A p \in clean[job[c].run] : target[p] = Result(journals[job[c].run].plan)[p]
    BY <1>0, <1>8 DEF ApplyFinish, ProcOK, JobOK, Owners, Working, Locked
  <2>2. TreeInv' /\ Runs' = Runs /\ \A s \in Runs : journals'[s].plan = journals[s].plan
    BY <1>8, <2>1, MarkStep DEF ApplyFinish, Phase
  <2>3. Goto(c, "idle", Idle) /\ pc'[c] = "idle"
    BY <1>0, <1>8, GotoEffect DEF ApplyFinish
  <2>4. JobOK(c)'
    BY <2>3 DEF JobOK, Owners
  <2> QED
    BY <2>1, <2>2, <2>3, <2>4, HolderSteps
<1> QED
  BY <1>1, <1>2, <1>3, <1>4, <1>5, <1>6, <1>7, <1>8 DEF Apply

\* A rollback that has recorded the baseline it found has restored every path.
LEMMA RestoredAll ==
  ASSUME IInv, TreeInv, JobInv, NEW c \in Procs, RollbackRecord(c)
  PROVE  \A p \in clean[job[c].run] : target[p] = job[c].plan.target[p]
<1> DEFINE r == job[c].run
<1>1. /\ r \in Runs /\ IsLatest(r) /\ job[c].plan = journals[r].plan /\ JobOK(c)
      /\ pc[c] = "restoring" /\ job[c].todo = {}
  BY DEF RollbackRecord, IInv, ProcInv, ProcOK, JobInv, JobOK, Owners, Working
<1>2. ASSUME NEW p \in clean[r] PROVE target[p] = job[c].plan.target[p]
  <2>1. p \in Paths /\ job[c].plan \in Plan /\ Fits(r, p)
    BY <1>1, Shapes DEF IInv, TreeInv, IsLatest
  <2>2. CASE p \in Changes(job[c].plan)
    BY <1>1, <2>2 DEF JobOK
  <2>3. CASE p \notin Changes(job[c].plan)
    BY <1>1, <2>1, <2>3, ResultAt DEF Fits
  <2> QED
    BY <2>2, <2>3
<1> QED
  BY <1>2

\* Undoing the top run uncovers what the run below it left.
LEMMA UncoverStep ==
  ASSUME IInv, TreeInv, JobInv, NEW c \in Procs, RollbackFinish(c)
  PROVE  TreeInv' /\ JobInv'
<1>0. PICK r, b : r = job[c].run /\ b = journals[r].prev
  OBVIOUS
<1>1. /\ r \in Runs /\ IsLatest(r) /\ job[c].plan = journals[r].plan /\ pc[c] \in Locked
      /\ pc[c] = "restored" /\ baseline = b
      /\ \A p \in clean[r] : target[p] = journals[r].plan.target[p]
  BY <1>0 DEF RollbackFinish, IInv, ProcInv, ProcOK, JobInv, JobOK, Owners, Working, Locked
<1>2. SetPhase(r, "RolledBack") /\ UNCHANGED <<target, baseline, clean>>
  BY <1>0 DEF RollbackFinish
<1>3. /\ Runs' = Runs
      /\ \A s \in Runs : /\ journals'[s].plan = journals[s].plan
                         /\ journals'[s].prev = journals[s].prev
                         /\ s # r => journals'[s].phase = journals[s].phase
  BY <1>1, <1>2, SetPhaseEffect DEF IInv, TypeOK, Phase
<1>4. StackInv' /\ Unrolled' = Unrolled \ {r} /\ Unfinished' = {}
  BY <1>0, <1>1, <1>2, StackPop DEF IInv
<1>5. /\ Runs = 1..Len(journals) /\ Len(journals) \in Nat /\ Runs \subseteq DOMAIN clean
      /\ DOMAIN clean = 1..Len(clean)
  BY Shapes DEF IInv
<1>6. b \in Runs \cup {0} /\ b <= r /\ r \in Unrolled
  BY <1>0, <1>1, <1>5 DEF IInv, StackInv, Below, IsLatest, Unrolled
<1>7. ASSUME NEW a \in Runs \cup {0} PROVE Kept(a)' = Kept(a) /\ Left(a)' = Left(a)
  <2>1. 1 \in Runs
    BY <1>1, <1>5
  <2>2. journals'[1].plan = journals[1].plan /\ (a # 0 => journals'[a].plan = journals[a].plan)
    BY <1>3, <2>1
  <2> QED
    BY <1>2, <2>2 DEF Kept, Left
<1>8. \A p \in Kept(b) : target[p] = Left(b)[p]
  <2>1. Kept(b) \subseteq clean[r]
    BY <1>1, <1>5, <1>6 DEF Kept, TreeInv
  <2> QED
    BY <1>0, <1>1, <1>6, <2>1 DEF TreeInv
<1>9. \A s \in Unrolled' : s \in Runs /\ s \in Unrolled /\ journals[s].prev \in Runs \cup {0}
  BY <1>4 DEF IInv, StackInv, Below, Unrolled
<1>10. TreeInv'
  <2>1. \A r1, s \in DOMAIN clean' : r1 <= s => clean'[r1] \subseteq clean'[s]
    BY <1>2 DEF TreeInv
  <2>2. \A s \in Unrolled' : \A p \in Kept(journals[s].prev)' :
          (journals[s].plan.target[p] = Left(journals[s].prev)[p])'
    <3> SUFFICES ASSUME NEW s \in Unrolled', NEW p \in Kept(journals[s].prev)'
                 PROVE  (journals[s].plan.target[p] = Left(journals[s].prev)[p])'
      OBVIOUS
    <3>0. PICK a : a = journals[s].prev
      OBVIOUS
    <3>1. /\ s \in Unrolled /\ journals'[s].prev = a /\ a \in Runs \cup {0}
          /\ journals'[s].plan = journals[s].plan
      BY <1>3, <1>9, <3>0
    <3>2. Kept(a)' = Kept(a) /\ Left(a)' = Left(a)
      BY <1>7, <3>1
    <3>3. p \in Kept(a) /\ journals[s].plan.target[p] = Left(a)[p]
      BY <3>0, <3>1, <3>2 DEF TreeInv
    <3> QED
      BY <3>1, <3>2, <3>3
  <2>3. ASSUME NEW s \in Unrolled', IsLatest(s)', NEW p \in clean'[s] PROVE Fits(s, p)'
    <3>1. IsLatest(baseline)' /\ s = baseline'
      <4>1. IsLatest(baseline)'
        BY <1>4, <2>3 DEF StackInv, BaselineIsLatest
      <4>2. TypeOK'
        BY TypeStep DEF Next, Rollback
      <4> QED
        BY <2>3, <4>1, <4>2, <1>9, <1>5 DEF IsLatest
    <3>2. s = b /\ s # 0 /\ s \in Runs
      BY <1>1, <1>2, <1>5, <1>9, <3>1
    <3>3. target'[p] = Left(s)[p] /\ Left(s) = Result(journals[s].plan)
      BY <1>2, <1>8, <2>3, <3>2 DEF Kept, Left
    <3>4. journals'[s].plan = journals[s].plan
      BY <1>3, <3>2
    <3>5. target'[p] = Result(journals'[s].plan)[p]
      BY <3>3, <3>4 DEF Result
    <3> QED
      BY <3>5 DEF Fits, Result
  <2>4. Unrolled' = {} /\ Runs' # {} => \A p \in clean'[1] : target'[p] = Left(0)'[p]
    <3>1. Unrolled' = {} => b = 0
      BY <1>1, <1>2, <1>4 DEF StackInv
    <3> QED
      BY <1>2, <1>7, <1>8, <3>1 DEF Kept
  <2> QED
    BY <2>1, <2>2, <2>3, <2>4 DEF TreeInv
<1>11. Goto(c, "idle", Idle) /\ pc'[c] = "idle"
  BY GotoEffect DEF RollbackFinish, IInv
<1>12. JobOK(c)'
  BY <1>11 DEF JobOK, Owners
<1>13. Runs \subseteq Runs' /\ \A s \in Runs : journals'[s].plan = journals[s].plan
  BY <1>3
<1>14. JobInv'
  BY <1>1, <1>11, <1>12, <1>13, HolderSteps
<1> QED
  BY <1>10, <1>14

\* A step of rollback.
LEMMA RollbackTree ==
  ASSUME IInv, TreeInv, JobInv, NEW c \in Procs, Rollback(c)
  PROVE  TreeInv' /\ JobInv'
<1>0. JobOK(c) /\ ProcOK(c) /\ TypeOK
  BY DEF JobInv, IInv, ProcInv
<1>1. ASSUME UNCHANGED <<target, journals, baseline, clean>>, NEW l, NEW j, Goto(c, l, j), JobOK(c)'
      PROVE  TreeInv' /\ JobInv'
  <2>1. TreeInv'
    BY <1>1, TreeUntouched
  <2>2. ASSUME NEW d \in Procs, d # c PROVE JobOK(d)'
    BY <1>0, <1>1, <2>2, GotoEffect, JobUntouched
  <2> QED
    BY <1>1, <2>1, <2>2 DEF JobInv
<1>2. ASSUME NEW r \in Runs, RollbackRead(c, r)
      PROVE  TreeInv' /\ JobInv'
  <2>1. Goto(c, "rollbackRead", [Idle EXCEPT !.run = r, !.plan = journals[r].plan])
    BY <1>2 DEF RollbackRead
  <2>2. /\ pc'[c] = "rollbackRead" /\ job'[c].run = r /\ job'[c].plan = journals[r].plan
    <3>1. pc'[c] = "rollbackRead" /\ job'[c] = [Idle EXCEPT !.run = r, !.plan = journals[r].plan]
      BY <1>0, <2>1, GotoEffect
    <3>2. [Idle EXCEPT !.run = r, !.plan = journals[r].plan].run = r
          /\ [Idle EXCEPT !.run = r, !.plan = journals[r].plan].plan = journals[r].plan
      BY DEF Idle
    <3> QED
      BY <3>1, <3>2
  <2>3. UNCHANGED <<target, journals, baseline, clean>> /\ Runs' = Runs
    BY <1>2 DEF RollbackRead, Runs
  <2>4. JobOK(c)'
    BY <2>2, <2>3 DEF JobOK
  <2> QED
    BY <1>1, <2>1, <2>3, <2>4
<1>3. CASE RollbackBegin(c)
  <2>1. /\ Goto(c, "rollbackChecked", job[c]) /\ pc'[c] = "rollbackChecked" /\ job'[c] = job[c]
        /\ UNCHANGED <<target, journals, baseline, clean>> /\ Runs' = Runs
    BY <1>0, <1>3, GotoEffect DEF RollbackBegin, Runs
  <2>2. JobOK(c)'
    BY <1>0, <1>3, <2>1 DEF JobOK, RollbackBegin, Owners
  <2> QED
    BY <1>1, <2>1, <2>2
<1>4. CASE RollbackStart(c)
  <2>1. /\ pc[c] \in Locked /\ job[c].run \in Runs /\ IsLatest(job[c].run)
        /\ job[c].plan = journals[job[c].run].plan
    BY <1>0, <1>4 DEF RollbackStart, ProcOK, JobOK, Owners, Locked
  <2>2. TreeInv' /\ Runs' = Runs /\ \A s \in Runs : journals'[s].plan = journals[s].plan
    BY <1>4, <2>1, MarkStep DEF RollbackStart, Phase
  <2>3. /\ Goto(c, "restoring", [job[c] EXCEPT !.todo = Changes(job[c].plan)])
        /\ pc'[c] = "restoring" /\ job'[c].run = job[c].run /\ job'[c].plan = job[c].plan
        /\ job'[c].todo = Changes(job[c].plan)
    BY <1>0, <1>4, GotoEffect DEF RollbackStart, TypeOK
  <2>4. JobOK(c)'
    BY <2>1, <2>2, <2>3 DEF JobOK
  <2> QED
    BY <2>1, <2>2, <2>3, <2>4, HolderSteps
<1>5. ASSUME NEW p \in Paths, RestoreSkip(c, p)
      PROVE  TreeInv' /\ JobInv'
  <2>1. Goto(c, "restoring", [job[c] EXCEPT !.todo = @ \ {p}])
    BY <1>5 DEF RestoreSkip
  <2>2. pc'[c] = "restoring" /\ job'[c] = [job[c] EXCEPT !.todo = @ \ {p}]
    BY <1>0, <2>1, GotoEffect
  <2>3. /\ job'[c].run = job[c].run /\ job'[c].plan = job[c].plan /\ job'[c].todo = job[c].todo \ {p}
        /\ UNCHANGED <<target, journals, baseline, clean>> /\ Runs' = Runs
        /\ target[p] = job[c].plan.target[p] /\ pc[c] = "restoring"
    BY <1>0, <1>5, <2>2 DEF RestoreSkip, TypeOK, Runs
  <2>4. JobOK(c)'
    BY <1>0, <2>2, <2>3 DEF JobOK, Owners
  <2> QED
    BY <1>1, <2>1, <2>3, <2>4
<1>6. ASSUME NEW p \in Paths, RestoreCheck(c, p)
      PROVE  TreeInv' /\ JobInv'
  <2>1. /\ Goto(c, "restoreChecked", [job[c] EXCEPT !.at = p])
        /\ pc'[c] = "restoreChecked" /\ job'[c].run = job[c].run /\ job'[c].plan = job[c].plan
        /\ job'[c].todo = job[c].todo /\ job'[c].at = p /\ p \in job[c].todo
    BY <1>0, <1>6, GotoEffect DEF RestoreCheck, TypeOK
  <2>2. /\ UNCHANGED <<target, journals, baseline, clean>> /\ Runs' = Runs /\ pc[c] = "restoring"
    BY <1>6 DEF RestoreCheck, Runs
  <2>3. JobOK(c)'
    BY <1>0, <2>1, <2>2 DEF JobOK, Owners
  <2> QED
    BY <1>1, <2>1, <2>2, <2>3
<1>7. CASE RestoreCommit(c)
  <2> DEFINE p == job[c].at
             r == job[c].run
  <2>1. /\ pc[c] \in Locked /\ r \in Runs /\ IsLatest(r) /\ journals[r].phase = "RollingBack"
        /\ job[c].plan = journals[r].plan /\ p \in job[c].todo /\ pc[c] = "restoreChecked"
    BY <1>0, <1>7 DEF RestoreCommit, ProcOK, JobOK, Owners, Working, Locked
  <2>2. p \in Paths
    BY <1>0, <2>1 DEF TypeOK
  <2>3. UNCHANGED <<journals, clean>> /\ target' = [target EXCEPT ![p] = journals[r].plan.target[p]]
    BY <1>7, <2>1 DEF RestoreCommit
  <2>4. TreeInv' /\ Runs' = Runs
    BY <2>1, <2>2, <2>3, WriteStep DEF Runs
  <2>5. /\ Goto(c, "restoring", [job[c] EXCEPT !.at = NoPath, !.todo = @ \ {p}])
        /\ pc'[c] = "restoring" /\ job'[c].run = r /\ job'[c].plan = job[c].plan
        /\ job'[c].todo = job[c].todo \ {p}
    <3>1. Goto(c, "restoring", [job[c] EXCEPT !.at = NoPath, !.todo = @ \ {p}])
      BY <1>7 DEF RestoreCommit
    <3>2. pc'[c] = "restoring" /\ job'[c] = [job[c] EXCEPT !.at = NoPath, !.todo = @ \ {p}]
      BY <1>0, <3>1, GotoEffect
    <3> QED
      BY <1>0, <3>1, <3>2 DEF TypeOK
  <2>6. \A q \in Paths : target'[q] = IF q = p THEN job[c].plan.target[p] ELSE target[q]
    BY <1>0, <2>1, <2>3 DEF TypeOK, Tree
  <2>7. \A q \in Changes(job[c].plan) : q \in Paths
    BY DEF Changes
  <2>8. \A q \in (clean[r] \cap Changes(job[c].plan)) \ (job[c].todo \ {p}) :
          target'[q] = job[c].plan.target[q]
    BY <1>0, <2>1, <2>6, <2>7 DEF JobOK
  <2>9. job'[c].run \in Runs' /\ job'[c].plan = journals'[job'[c].run].plan /\ clean' = clean
    BY <2>1, <2>3, <2>4, <2>5
  <2>10. JobOK(c)'
    BY <2>5, <2>8, <2>9 DEF JobOK
  <2> QED
    BY <2>1, <2>3, <2>4, <2>5, <2>10, HolderSteps
<1>8. CASE RollbackRecord(c)
  <2>1. TreeInv' /\ Runs' = Runs /\ UNCHANGED <<target, journals, clean>>
    BY <1>8, TreeUntouched DEF RollbackRecord, Runs
  <2>2. /\ Goto(c, "restored", job[c]) /\ pc'[c] = "restored" /\ job'[c] = job[c]
        /\ pc[c] \in Locked /\ pc[c] \in Owners
    BY <1>0, <1>8, GotoEffect DEF RollbackRecord, Locked, Owners
  <2>3. \A p \in clean[job[c].run] : target[p] = job[c].plan.target[p]
    BY <1>8, RestoredAll
  <2>4. JobOK(c)'
    BY <1>0, <2>1, <2>2, <2>3 DEF JobOK
  <2> QED
    BY <2>1, <2>2, <2>4, HolderSteps
<1>9. CASE RollbackFinish(c)
  BY <1>9, UncoverStep
<1> QED
  BY <1>2, <1>3, <1>4, <1>5, <1>6, <1>7, <1>8, <1>9 DEF Rollback

\* Every step keeps what the runs left in the workspace.
LEMMA TreeStep ==
  ASSUME IInv, TreeInv, JobInv, [Next]_vars
  PROVE  TreeInv' /\ JobInv'
<1>1. ASSUME UNCHANGED <<target, journals, baseline, clean, pc, job>> PROVE TreeInv' /\ JobInv'
  BY <1>1, TreeUntouched, JobUntouched DEF JobInv
<1>2. ASSUME NEW p \in Paths, NEW v \in Contents \cup {Absent}, MirrorChange(p, v) \/ Edit(p, v)
      PROVE  TreeInv' /\ JobInv'
  BY <1>1, <1>2, EditStep DEF MirrorChange
<1>3. ASSUME NEW c \in Procs, Check(c) \/ Abort(c) PROVE TreeInv' /\ JobInv'
  <2>1. UNCHANGED <<target, journals, baseline, clean>>
    BY <1>3 DEF Check, CheckBegin, CheckRead, VerifyReport, ReadyCompare, ReadyReport, Abort
  <2>2. \A d \in Procs : d # c => pc'[d] = pc[d] /\ job'[d] = job[d]
    BY <1>3, GotoEffect DEF Check, CheckBegin, CheckRead, VerifyReport, ReadyCompare, ReadyReport, Abort, IInv
  <2>3. pc'[c] \in {"idle", "checking", "comparing", "compared", "reported"}
    BY <1>3, GotoEffect DEF Check, CheckBegin, CheckRead, VerifyReport, ReadyCompare, ReadyReport, Abort, IInv
  <2>4. JobOK(c)'
    BY <2>3 DEF JobOK, Owners
  <2>5. ASSUME NEW d \in Procs, d # c PROVE JobOK(d)'
    BY <2>1, <2>2, <2>5, JobUntouched
  <2> QED
    BY <2>1, <2>4, <2>5, TreeUntouched DEF JobInv
<1>4. CASE MakePlan
  BY <1>1, <1>4 DEF MakePlan
<1>5. CASE UNCHANGED vars
  BY <1>1, <1>5 DEF vars
<1> QED
  BY <1>2, <1>3, <1>4, <1>5, ApplyTree, RollbackTree DEF Next

\* What the runs left is an invariant of the specification.
LEMMA TreeInvariance == Spec => [](IInv /\ TreeInv /\ JobInv)
<1>1. Init => TreeInv /\ JobInv
  BY DEF Init, TreeInv, JobInv, JobOK, Owners, Runs, Unrolled
<1>2. IInv /\ TreeInv /\ JobInv /\ [Next]_vars => TreeInv' /\ JobInv'
  BY TreeStep
<1> QED
  BY <1>1, <1>2, InitInv, StepInv, PTL DEF Spec

\* A run that stopped half way can be rolled back: whatever stopped it, each path it
\* changes that nobody edited holds its old or its new content.
THEOREM RecoverableAlways == Spec => []Recoverable
<1>1. IInv /\ TreeInv => Recoverable
  <2> SUFFICES ASSUME IInv, TreeInv, NEW r \in Unfinished,
                      NEW p \in Changes(journals[r].plan) \cap clean[r]
               PROVE  OldOrNew(journals[r].plan, p)
    BY DEF Recoverable
  <2>1. IsLatest(r) /\ r \in Unrolled /\ r \in Runs
    BY DEF IInv, StackInv, OnlyLatestUnfinished, IsLatest, Unrolled
  <2>2. journals[r].plan \in Plan /\ p \in Paths
    BY <2>1, Shapes DEF IInv, Changes
  <2>3. Fits(r, p)
    BY <2>1 DEF TreeInv
  <2> QED
    BY <2>2, <2>3, ResultAt DEF Fits, OldOrNew
<1> QED
  BY <1>1, TreeInvariance, PTL

\* When no run is unfinished, a path nobody edited holds what the latest run left
\* there, and its first original content once every run is rolled back.
THEOREM SettledAlways == Spec => []Settled
<1>1. IInv /\ TreeInv => Settled
  <2> SUFFICES ASSUME IInv, TreeInv, Unfinished = {} PROVE Settled
    BY DEF Settled
  <2>1. ASSUME NEW r \in Runs, IsLatest(r), NEW p \in clean[r]
        PROVE  target[p] = Result(journals[r].plan)[p]
    <3>1. r \in Unrolled /\ journals[r].phase = "Applied"
      BY <2>1 DEF IsLatest, Unrolled, Unfinished
    <3> QED
      BY <2>1, <3>1 DEF TreeInv, Fits
  <2>2. Unrolled = {} /\ Runs # {} => \A p \in clean[1] : target[p] = journals[1].plan.target[p]
    BY DEF TreeInv, Left
  <2> QED
    BY <2>1, <2>2 DEF Settled
<1> QED
  BY <1>1, TreeInvariance, PTL
=============================================================================
