--------------------------- MODULE SetupRunsProofs ---------------------------
(***************************************************************************)
(* Setup runs for any number of runs, writes, faults and commands: a run   *)
(* keeps its direction, a success has brought both sides together, a       *)
(* rollback restores what its run found, and what setup replaces is saved. *)
(*                                                                         *)
(* A run gets its policy and its mode once, in the step before its first   *)
(* stage (Chosen), and the stages that tell the directions apart belong to *)
(* one mode only (StepsInOrder).  Over that stand the types (Typed); the   *)
(* order of what a run has completed (Ordered); what holds while nobody    *)
(* but the run changes anything, of both sides (Together), of its copies   *)
(* (Recorded) and of its rollback (Controlling); the copies recovery has   *)
(* selected (Selected); and the copies or the age of what is on either     *)
(* side (Covered).                                                         *)
(***************************************************************************)
EXTENDS SetupRuns, SequenceTheorems, WellFoundedInduction, TLAPS

Directed == {"import", "restore", "localbackup"}

\* The directed stages of a run agree with its mode, and none was entered before it had one.
RunOK(run) ==
  /\ run \in RunRecord
  /\ run.policy = None => \A s \in Directed : run.stages[s] = "pending"
  /\ run.policy # None => run.mode \in {"initial", "existing"}
  /\ run.stages["import"] # "pending" => run.mode = "initial"
  /\ \A s \in {"restore", "localbackup"} : run.stages[s] # "pending" => run.mode = "existing"

RunsOK == runs \in Seq(RunRecord) /\ \A r \in DOMAIN runs : RunOK(runs[r])

Fields == {"kind", "pc", "run", "resume", "choice", "before", "at", "snap", "want", "backup", "ok"}
Shaped == job = [f \in Fields |-> job[f]]

\* An attempt stands at its first step until its run has a policy.
Chosen ==
  /\ InSetup("review") => job.at = 1
  /\ InSetup("enter") =>
       /\ job.run \in DOMAIN runs
       /\ job.at \in 1..Len(MySteps)
       /\ IF job.at = 1 THEN ~job.resume => My.policy = None ELSE My.policy # None

LateOK == late = None \/ late.status \in {"rolled-back", "rollback-failed"}

IInv == RunsOK /\ Shaped /\ Chosen /\ LateOK /\ limit \in Limits

-----------------------------------------------------------------------------
(* The order of the stages *)

AllSteps == Stages \cup {"policy", "preserve"}

\* A step that may stand in a setup of this mode, and not first.
Fits(s, mode) ==
  /\ s # "policy"
  /\ s \in {"import", "capture"} => mode = "initial"
  /\ s \in {"restore", "localbackup"} => mode # "initial"

\* Where a step stands among the steps of a setup.
Place(s) ==
  CASE s = "policy" -> 1 [] s = "backup" -> 2 [] s = "preserve" -> 3 [] s = "snapshot" -> 4
    [] s = "init" -> 5 [] s \in {"import", "localbackup"} -> 6 [] s = "apply" -> 7
    [] s \in {"capture", "restore"} -> 8 [] s = "meta" -> 9 [] s = "baseline" -> 10 [] OTHER -> 11

\* Stages of every setup that no attempt passes over.
Required == {"backup", "snapshot", "apply"}

\* Steps of a setup of this mode: they fit it, stand in their places, and miss none that is
\* required nor the one that carries the extras.
InOrder(t, mode) ==
  /\ Len(t) \in Nat /\ Len(t) >= 2 /\ DOMAIN t = 1..Len(t)
  /\ t[1] = "policy" /\ t[2] = "backup" /\ t[Len(t)] = "scheduler"
  /\ \A i \in 1..Len(t) : t[i] \in AllSteps
  /\ \A i \in 2..Len(t) : Fits(t[i], mode)
  /\ \A i \in 1..Len(t) - 1 :
       /\ Place(t[i]) < Place(t[i + 1])
       /\ \A s \in Required : Place(s) < Place(t[i + 1]) => Place(s) <= Place(t[i])
       /\ 8 < Place(t[i + 1]) => 8 <= Place(t[i])

\* The places, spelled out.
LEMMA Placed ==
  /\ Place("policy") = 1 /\ Place("backup") = 2 /\ Place("preserve") = 3 /\ Place("snapshot") = 4
  /\ Place("init") = 5 /\ Place("import") = 6 /\ Place("localbackup") = 6 /\ Place("apply") = 7
  /\ Place("capture") = 8 /\ Place("restore") = 8 /\ Place("meta") = 9 /\ Place("baseline") = 10
  /\ Place("scheduler") = 11
BY DEF Place

\* The steps of setup-impl stand in order, whatever was chosen: the six lists there are.
LEMMA StepsInOrder ==
  ASSUME NEW choice, NEW policy, NEW mode
  PROVE  InOrder(Steps(choice, policy, mode), mode)
<1> DEFINE t == Steps(choice, policy, mode)
<1>1. CASE choice = None /\ mode = "initial"
  <2>1. /\ Len(t) = 10 /\ DOMAIN t = 1..10
        /\ t[1] = "policy" /\ t[2] = "backup" /\ t[3] = "snapshot" /\ t[4] = "init" /\ t[5] = "import"
        /\ t[6] = "apply" /\ t[7] = "capture" /\ t[8] = "meta" /\ t[9] = "baseline" /\ t[10] = "scheduler"
    BY <1>1 DEF Steps
  <2> HIDE DEF t
  <2>2. \A i \in 1..Len(t) : t[i] \in AllSteps
    BY <2>1 DEF AllSteps, Stages
  <2>3. \A i \in 2..Len(t) : Fits(t[i], mode)
    BY <1>1, <2>1 DEF Fits
  <2>4. \A i \in 1..Len(t) - 1 :
          /\ Place(t[i]) < Place(t[i + 1])
          /\ \A s \in Required : Place(s) < Place(t[i + 1]) => Place(s) <= Place(t[i])
          /\ 8 < Place(t[i + 1]) => 8 <= Place(t[i])
    BY <2>1, Placed DEF Required
  <2>5. InOrder(t, mode)
    BY <2>1, <2>2, <2>3, <2>4 DEF InOrder
  <2> QED BY <2>5 DEF t
<1>2. CASE choice = None /\ mode # "initial" /\ policy = "backup-private"
  <2>1. /\ Len(t) = 9 /\ DOMAIN t = 1..9
        /\ t[1] = "policy" /\ t[2] = "backup" /\ t[3] = "snapshot" /\ t[4] = "init" /\ t[5] = "localbackup"
        /\ t[6] = "apply" /\ t[7] = "restore" /\ t[8] = "baseline" /\ t[9] = "scheduler"
    BY <1>2 DEF Steps
  <2> HIDE DEF t
  <2>2. \A i \in 1..Len(t) : t[i] \in AllSteps
    BY <2>1 DEF AllSteps, Stages
  <2>3. \A i \in 2..Len(t) : Fits(t[i], mode)
    BY <1>2, <2>1 DEF Fits
  <2>4. \A i \in 1..Len(t) - 1 :
          /\ Place(t[i]) < Place(t[i + 1])
          /\ \A s \in Required : Place(s) < Place(t[i + 1]) => Place(s) <= Place(t[i])
          /\ 8 < Place(t[i + 1]) => 8 <= Place(t[i])
    BY <2>1, Placed DEF Required
  <2>5. InOrder(t, mode)
    BY <2>1, <2>2, <2>3, <2>4 DEF InOrder
  <2> QED BY <2>5 DEF t
<1>3. CASE choice = None /\ mode # "initial" /\ policy # "backup-private"
  <2>1. /\ Len(t) = 8 /\ DOMAIN t = 1..8
        /\ t[1] = "policy" /\ t[2] = "backup" /\ t[3] = "snapshot" /\ t[4] = "init" /\ t[5] = "apply"
        /\ t[6] = "restore" /\ t[7] = "baseline" /\ t[8] = "scheduler"
    BY <1>3 DEF Steps
  <2> HIDE DEF t
  <2>2. \A i \in 1..Len(t) : t[i] \in AllSteps
    BY <2>1 DEF AllSteps, Stages
  <2>3. \A i \in 2..Len(t) : Fits(t[i], mode)
    BY <1>3, <2>1 DEF Fits
  <2>4. \A i \in 1..Len(t) - 1 :
          /\ Place(t[i]) < Place(t[i + 1])
          /\ \A s \in Required : Place(s) < Place(t[i + 1]) => Place(s) <= Place(t[i])
          /\ 8 < Place(t[i + 1]) => 8 <= Place(t[i])
    BY <2>1, Placed DEF Required
  <2>5. InOrder(t, mode)
    BY <2>1, <2>2, <2>3, <2>4 DEF InOrder
  <2> QED BY <2>5 DEF t
<1>4. CASE choice # None /\ mode = "initial"
  <2>1. /\ Len(t) = 11 /\ DOMAIN t = 1..11
        /\ t[1] = "policy" /\ t[2] = "backup" /\ t[3] = "preserve" /\ t[4] = "snapshot" /\ t[5] = "init"
        /\ t[6] = "import" /\ t[7] = "apply" /\ t[8] = "capture" /\ t[9] = "meta" /\ t[10] = "baseline"
        /\ t[11] = "scheduler"
    BY <1>4 DEF Steps
  <2> HIDE DEF t
  <2>2. \A i \in 1..Len(t) : t[i] \in AllSteps
    BY <2>1 DEF AllSteps, Stages
  <2>3. \A i \in 2..Len(t) : Fits(t[i], mode)
    BY <1>4, <2>1 DEF Fits
  <2>4. \A i \in 1..Len(t) - 1 :
          /\ Place(t[i]) < Place(t[i + 1])
          /\ \A s \in Required : Place(s) < Place(t[i + 1]) => Place(s) <= Place(t[i])
          /\ 8 < Place(t[i + 1]) => 8 <= Place(t[i])
    BY <2>1, Placed DEF Required
  <2>5. InOrder(t, mode)
    BY <2>1, <2>2, <2>3, <2>4 DEF InOrder
  <2> QED BY <2>5 DEF t
<1>5. CASE choice # None /\ mode # "initial" /\ policy = "backup-private"
  <2>1. /\ Len(t) = 10 /\ DOMAIN t = 1..10
        /\ t[1] = "policy" /\ t[2] = "backup" /\ t[3] = "preserve" /\ t[4] = "snapshot" /\ t[5] = "init"
        /\ t[6] = "localbackup" /\ t[7] = "apply" /\ t[8] = "restore" /\ t[9] = "baseline" /\ t[10] = "scheduler"
    BY <1>5 DEF Steps
  <2> HIDE DEF t
  <2>2. \A i \in 1..Len(t) : t[i] \in AllSteps
    BY <2>1 DEF AllSteps, Stages
  <2>3. \A i \in 2..Len(t) : Fits(t[i], mode)
    BY <1>5, <2>1 DEF Fits
  <2>4. \A i \in 1..Len(t) - 1 :
          /\ Place(t[i]) < Place(t[i + 1])
          /\ \A s \in Required : Place(s) < Place(t[i + 1]) => Place(s) <= Place(t[i])
          /\ 8 < Place(t[i + 1]) => 8 <= Place(t[i])
    BY <2>1, Placed DEF Required
  <2>5. InOrder(t, mode)
    BY <2>1, <2>2, <2>3, <2>4 DEF InOrder
  <2> QED BY <2>5 DEF t
<1>6. CASE choice # None /\ mode # "initial" /\ policy # "backup-private"
  <2>1. /\ Len(t) = 9 /\ DOMAIN t = 1..9
        /\ t[1] = "policy" /\ t[2] = "backup" /\ t[3] = "preserve" /\ t[4] = "snapshot" /\ t[5] = "init"
        /\ t[6] = "apply" /\ t[7] = "restore" /\ t[8] = "baseline" /\ t[9] = "scheduler"
    BY <1>6 DEF Steps
  <2> HIDE DEF t
  <2>2. \A i \in 1..Len(t) : t[i] \in AllSteps
    BY <2>1 DEF AllSteps, Stages
  <2>3. \A i \in 2..Len(t) : Fits(t[i], mode)
    BY <1>6, <2>1 DEF Fits
  <2>4. \A i \in 1..Len(t) - 1 :
          /\ Place(t[i]) < Place(t[i + 1])
          /\ \A s \in Required : Place(s) < Place(t[i + 1]) => Place(s) <= Place(t[i])
          /\ 8 < Place(t[i + 1]) => 8 <= Place(t[i])
    BY <2>1, Placed DEF Required
  <2>5. InOrder(t, mode)
    BY <2>1, <2>2, <2>3, <2>4 DEF InOrder
  <2> QED BY <2>5 DEF t
<1> QED BY <1>1, <1>2, <1>3, <1>4, <1>5, <1>6

\* Steps is a sequence of at least two steps, the first and only the first of which
\* chooses a policy, and each directed stage occurs in one mode.
LEMMA StageOfMode ==
  ASSUME NEW choice, NEW policy, NEW mode
  PROVE  /\ Len(Steps(choice, policy, mode)) \in Nat
         /\ Len(Steps(choice, policy, mode)) >= 2
         /\ Steps(choice, policy, mode)[1] = "policy"
         /\ \A i \in 2..Len(Steps(choice, policy, mode)) : Fits(Steps(choice, policy, mode)[i], mode)
BY StepsInOrder DEF InOrder

-----------------------------------------------------------------------------
(* What the steps do to runs and to the attempt *)

\* The stage an attempt stands at belongs to the mode its run has.
LEMMA AtItsStage ==
  ASSUME IInv, InSetup("enter"), IsStage
  PROVE  /\ job.run \in DOMAIN runs /\ RunOK(My) /\ My.policy # None
         /\ Step = "import" => My.mode = "initial"
         /\ Step \in {"restore", "localbackup"} => My.mode = "existing"
<1>1. /\ job.run \in DOMAIN runs /\ RunOK(My) /\ job.at \in 1..Len(MySteps)
      /\ job.at # 1 => My.policy # None
  BY DEF IInv, RunsOK, Chosen, My
<1>2. /\ Len(MySteps) \in Nat
      /\ MySteps[1] = "policy"
      /\ \A i \in 2..Len(MySteps) : Fits(MySteps[i], My.mode)
  BY StageOfMode DEF MySteps
<1>3. job.at # 1
  BY <1>2 DEF IsStage, Step, Stages
<1>4. Fits(Step, My.mode)
  <2>1. job.at \in 2..Len(MySteps)
    BY <1>1, <1>2, <1>3
  <2> QED BY <1>2, <2>1 DEF Step
<1> QED BY <1>1, <1>3, <1>4 DEF Fits, RunOK

\* A run whose stage is entered or completed keeps its direction.
LEMMA Marked ==
  ASSUME IInv, InSetup("enter"), IsStage, NEW status \in {"begun", "success"},
         NEW kept \in BOOLEAN,
         runs' = [runs EXCEPT ![job.run].stages[Step] = status, ![job.run].status = "open",
                              ![job.run].kept = kept]
  PROVE  /\ RunsOK' /\ DOMAIN runs' = DOMAIN runs
         /\ \A r \in DOMAIN runs : runs'[r].policy = runs[r].policy /\ runs'[r].mode = runs[r].mode
<1> DEFINE new == [My EXCEPT !.stages[Step] = status, !.status = "open", !.kept = kept]
<1>1. /\ job.run \in DOMAIN runs /\ RunOK(My) /\ My.policy # None /\ Step \in Stages
      /\ Step = "import" => My.mode = "initial"
      /\ Step \in {"restore", "localbackup"} => My.mode = "existing"
  BY AtItsStage DEF IsStage
<1>2. runs \in Seq(RunRecord)
  BY DEF IInv, RunsOK
<1>3. runs' = [runs EXCEPT ![job.run] = new]
  BY <1>1, <1>2 DEF My
<1>4. My \in RunRecord
  BY <1>1 DEF RunOK
<1>5. new \in RunRecord /\ new.policy = My.policy /\ new.mode = My.mode
      /\ \A s \in Stages : new.stages[s] = IF s = Step THEN status ELSE My.stages[s]
  BY <1>1, <1>4 DEF RunRecord
<1>6. RunOK(new)
  BY <1>1, <1>5 DEF RunOK, Directed, Stages
<1> HIDE DEF new
<1>7. DOMAIN runs' = DOMAIN runs /\ runs' \in Seq(RunRecord)
  BY <1>1, <1>2, <1>3, <1>5
<1>8. \A r \in DOMAIN runs : runs'[r] = IF r = job.run THEN new ELSE runs[r]
  BY <1>1, <1>2, <1>3
<1>9. \A r \in DOMAIN runs : RunOK(runs'[r])
  BY <1>6, <1>8 DEF IInv, RunsOK
<1>10. \A r \in DOMAIN runs : runs'[r].policy = runs[r].policy /\ runs'[r].mode = runs[r].mode
  BY <1>5, <1>8 DEF My
<1> QED BY <1>7, <1>9, <1>10 DEF RunsOK

\* A status says nothing of the direction.
LEMMA StatusSet ==
  ASSUME RunsOK, NEW r,
         NEW status \in {"open", "success", "cancelled", "rolled-back", "rollback-failed"},
         SetStatus(r, status)
  PROVE  /\ RunsOK' /\ DOMAIN runs' = DOMAIN runs
         /\ \A q \in DOMAIN runs : runs'[q].policy = runs[q].policy /\ runs'[q].mode = runs[q].mode
<1> DEFINE new == [runs[r] EXCEPT !.status = status]
<1>1. runs \in Seq(RunRecord) /\ \A q \in DOMAIN runs : RunOK(runs[q])
  BY DEF RunsOK
<1>2. runs' = [runs EXCEPT ![r] = new]
  BY DEF SetStatus
<1>3. CASE r \in DOMAIN runs
  <2>1. runs[r] \in RunRecord /\ RunOK(runs[r])
    BY <1>1, <1>3 DEF RunOK
  <2>2. /\ new \in RunRecord /\ new.policy = runs[r].policy /\ new.mode = runs[r].mode
        /\ new.stages = runs[r].stages
    BY <2>1 DEF RunRecord
  <2>3. RunOK(new)
    BY <2>1, <2>2 DEF RunOK
  <2> HIDE DEF new
  <2>4. runs' \in Seq(RunRecord) /\ DOMAIN runs' = DOMAIN runs
    BY <1>1, <1>2, <1>3, <2>2
  <2>5. \A q \in DOMAIN runs : runs'[q] = IF q = r THEN new ELSE runs[q]
    BY <1>1, <1>2, <1>3
  <2> QED BY <1>1, <2>2, <2>3, <2>4, <2>5 DEF RunsOK
<1>4. CASE r \notin DOMAIN runs
  <2>1. runs' = runs
    BY <1>1, <1>2, <1>4
  <2> QED BY <2>1, <1>1 DEF RunsOK
<1> QED BY <1>3, <1>4

\* The same where nothing is noted about protected files.
LEMMA MarkedOnly ==
  ASSUME IInv, InSetup("enter"), IsStage, NEW status \in {"begun", "success"}, Mark(status)
  PROVE  /\ RunsOK' /\ DOMAIN runs' = DOMAIN runs
         /\ \A r \in DOMAIN runs : runs'[r].policy = runs[r].policy /\ runs'[r].mode = runs[r].mode
<1> DEFINE kept == My.kept
<1>1. /\ job.run \in DOMAIN runs /\ My \in RunRecord /\ Step \in Stages /\ runs \in Seq(RunRecord)
  BY AtItsStage DEF IsStage, RunOK, IInv, RunsOK
<1>2. kept \in BOOLEAN
  BY <1>1 DEF RunRecord
<1>3. [My EXCEPT !.stages[Step] = status, !.status = "open"]
        = [My EXCEPT !.stages[Step] = status, !.status = "open", !.kept = kept]
  BY <1>1 DEF RunRecord
<1>4. runs' = [runs EXCEPT ![job.run].stages[Step] = status, ![job.run].status = "open",
                           ![job.run].kept = kept]
  <2>1. runs' = [runs EXCEPT ![job.run] = [My EXCEPT !.stages[Step] = status, !.status = "open"]]
    BY <1>1 DEF Mark, My
  <2> QED BY <1>1, <1>3, <2>1 DEF My
<1> HIDE DEF kept
<1> QED BY <1>2, <1>4, Marked

\* An attempt that goes on to its next step.
LEMMA Advanced ==
  ASSUME IInv, InSetup("enter"), job' = Advance(job), limit' = limit, late' = late,
         RunsOK', DOMAIN runs' = DOMAIN runs, runs'[job.run].policy # None,
         \/ job.at = 1
         \/ runs'[job.run].policy = My.policy /\ runs'[job.run].mode = My.mode
  PROVE  IInv'
<1>1. /\ job.run \in DOMAIN runs /\ job.at \in 1..Len(MySteps) /\ Len(MySteps) \in Nat
      /\ Len(MySteps) >= 2
  BY StageOfMode DEF IInv, Chosen, MySteps
<1>2. /\ Shaped' /\ job'.run = job.run /\ job'.kind = "setup" /\ job'.choice = job.choice
      /\ job'.at = job.at + 1
      /\ job'.pc = IF job.at < Len(MySteps) THEN "enter" ELSE "record"
  BY DEF IInv, Shaped, Fields, Advance, InSetup
<1>3. My' = runs'[job.run]
  BY <1>2 DEF My
<1>4. Len(MySteps') \in Nat /\ Len(MySteps') >= 2
  BY StageOfMode DEF MySteps
<1>5. job.at # 1 => Len(MySteps') = Len(MySteps)
  BY <1>2, <1>3 DEF MySteps
<1>6. Chosen'
  <2>1. ~InSetup("review")'
    BY <1>2 DEF InSetup
  <2>2. ASSUME InSetup("enter")'
        PROVE  job'.run \in DOMAIN runs' /\ job'.at \in 1..Len(MySteps') /\ job'.at # 1 /\ My'.policy # None
    <3>1. job.at < Len(MySteps)
      BY <1>2, <2>2 DEF InSetup
    <3> QED BY <1>1, <1>2, <1>3, <1>4, <1>5, <3>1
  <2> QED BY <2>1, <2>2 DEF Chosen
<1> QED BY <1>2, <1>6 DEF IInv, LateOK

\* A step that leaves no attempt before a stage.
LEMMA Elsewhere ==
  ASSUME IInv, RunsOK', Shaped', LateOK', limit' = limit, job'.pc \notin {"review", "enter"}
  PROVE  IInv'
BY DEF IInv, Chosen, InSetup

\* A lock given back or a machine that stopped leaves no attempt.
LEMMA IdleShaped ==
  ASSUME job' = Idle
  PROVE  Shaped' /\ job'.pc = "idle"
BY DEF Idle, Shaped, Fields

\* A step of others while an attempt stands where it stood.
LEMMA Untouched ==
  ASSUME IInv, UNCHANGED <<job, limit>>, RunsOK', LateOK', DOMAIN runs' = DOMAIN runs,
         \A r \in DOMAIN runs : runs'[r].policy = runs[r].policy /\ runs'[r].mode = runs[r].mode
  PROVE  IInv'
<1>1. Shaped'
  BY DEF IInv, Shaped
<1>2. Chosen'
  <2>1. InSetup("review")' <=> InSetup("review")
    BY DEF InSetup
  <2>2. InSetup("enter")' <=> InSetup("enter")
    BY DEF InSetup
  <2>3. ASSUME InSetup("enter")
        PROVE  /\ job'.run \in DOMAIN runs' /\ job'.at \in 1..Len(MySteps')
               /\ IF job'.at = 1 THEN ~job'.resume => My'.policy = None ELSE My'.policy # None
    <3>1. /\ job.run \in DOMAIN runs /\ job.at \in 1..Len(MySteps)
          /\ IF job.at = 1 THEN ~job.resume => My.policy = None ELSE My.policy # None
      BY <2>3 DEF IInv, Chosen
    <3>2. My'.policy = My.policy /\ My'.mode = My.mode
      BY <3>1 DEF My
    <3>3. MySteps' = MySteps
      BY <3>2 DEF MySteps
    <3> QED BY <3>1, <3>2, <3>3
  <2> QED BY <2>1, <2>2, <2>3 DEF Chosen, IInv
<1> QED BY <1>1, <1>2 DEF IInv

-----------------------------------------------------------------------------
(* The steps *)

\* A new run has no direction yet.
LEMMA NewRunOK == RunOK(NewRun)
<1>1. NewRun \in RunRecord
  BY DEF NewRun, RunRecord, Optionally
<1> QED BY <1>1 DEF RunOK, NewRun, Directed, Stages

\* The start of an attempt, which stands at its first step.
LEMMA StartStep ==
  ASSUME IInv, NEW resume \in BOOLEAN, StartSetup(resume)
  PROVE  IInv'
<1>1. UNCHANGED <<runs, late, limit>>
  BY DEF StartSetup, history, fixed
<1>2. job' = [Idle EXCEPT !.kind = "setup", !.pc = "review", !.resume = resume, !.before = tree]
  BY DEF StartSetup
<1>3. Shaped' /\ job'.pc = "review" /\ job'.at = 1
  BY <1>2 DEF Shaped, Fields, Idle
<1> QED BY <1>1, <1>3 DEF IInv, RunsOK, LateOK, Chosen, InSetup

\* The choice of the run: a new one has no policy, a resumed one may.
LEMMA ReviewStep ==
  ASSUME IInv, Review
  PROVE  IInv'
<1>1. UNCHANGED <<late, limit>>
  BY DEF Review, history, fixed
<1>2. PICK choice \in IF Changed THEN limit.policies \cap {"push-local", "backup-private"} ELSE {None} :
        \E r \in Runs :
          /\ job' = [job EXCEPT !.pc = "enter", !.run = r, !.choice = choice,
                                !.resume = @ /\ choice = None]
          /\ NewOrResumed(job'.resume)
  BY DEF Review
<1>3. /\ Shaped' /\ job'.pc = "enter" /\ job'.at = 1 /\ NewOrResumed(job'.resume)
  BY <1>2 DEF IInv, Shaped, Fields, Chosen, Review
<1>4. 1 \in 1..Len(MySteps')
  BY StageOfMode DEF MySteps
<1>5. CASE job'.resume
  <2>1. runs' = runs /\ job'.run \in DOMAIN runs
    BY <1>3, <1>5 DEF NewOrResumed, Resumable
  <2> QED BY <1>1, <1>3, <1>4, <1>5, <2>1 DEF IInv, RunsOK, LateOK, Chosen, InSetup
<1>6. CASE ~job'.resume
  <2>1. runs' = Append(runs, NewRun) /\ job'.run = Len(runs')
    BY <1>3, <1>6 DEF NewOrResumed
  <2>2. runs \in Seq(RunRecord) /\ NewRun \in RunRecord
    BY NewRunOK DEF IInv, RunsOK, RunOK
  <2>3. /\ runs' \in Seq(RunRecord) /\ DOMAIN runs' = 1..Len(runs) + 1 /\ Len(runs') = Len(runs) + 1
        /\ Len(runs) \in Nat /\ DOMAIN runs = 1..Len(runs)
        /\ \A q \in 1..Len(runs) : runs'[q] = runs[q]
        /\ runs'[Len(runs) + 1] = NewRun
    BY <2>1, <2>2
  <2>4. RunsOK'
    <3> SUFFICES ASSUME NEW q \in DOMAIN runs' PROVE RunOK(runs'[q])
      BY <2>3 DEF RunsOK
    <3>1. CASE q = Len(runs) + 1
      BY <2>3, <3>1, NewRunOK
    <3>2. CASE q # Len(runs) + 1
      <4>1. q \in 1..Len(runs)
        BY <2>3, <3>2
      <4> QED BY <2>3, <4>1 DEF IInv, RunsOK
    <3> QED BY <3>1, <3>2
  <2>5. job'.run \in DOMAIN runs' /\ My'.policy = None
    BY <2>1, <2>3 DEF My, NewRun
  <2> QED BY <1>1, <1>3, <1>4, <2>4, <2>5 DEF IInv, LateOK, Chosen, InSetup
<1> QED BY <1>5, <1>6

\* A policy is chosen only for a run that has none, before any stage of it.
LEMMA ChoosePolicyStep ==
  ASSUME IInv, ChoosePolicy
  PROVE  IInv'
<1>1. UNCHANGED <<late, limit>> /\ InSetup("enter") /\ job' = Advance(job)
  BY DEF ChoosePolicy, history, fixed
<1>2. /\ job.run \in DOMAIN runs /\ job.at \in 1..Len(MySteps) /\ RunOK(My)
      /\ IF job.at = 1 THEN ~job.resume => My.policy = None ELSE My.policy # None
      /\ runs \in Seq(RunRecord)
  BY <1>1 DEF IInv, Chosen, RunsOK, My
<1>3. job.at = 1
  <2>1. Len(MySteps) \in Nat /\ \A i \in 2..Len(MySteps) : Fits(MySteps[i], My.mode)
    BY StageOfMode DEF MySteps
  <2>2. Step = "policy"
    BY DEF ChoosePolicy
  <2> QED BY <1>2, <2>1, <2>2 DEF Step, Fits
<1>4. CASE job.resume /\ My.policy # None
  <2>1. runs' = runs
    BY <1>4 DEF ChoosePolicy
  <2> QED BY <1>1, <1>2, <1>3, <1>4, <2>1, Advanced DEF IInv, RunsOK, My
<1>5. CASE ~(job.resume /\ My.policy # None)
  <2>1. PICK p \in limit.policies : \E m \in Modes(p) :
          runs' = [runs EXCEPT ![job.run].policy = p, ![job.run].mode = m]
    BY <1>5 DEF ChoosePolicy
  <2>2. PICK m \in Modes(p) : runs' = [runs EXCEPT ![job.run].policy = p, ![job.run].mode = m]
    BY <2>1
  <2>3. p \in Policies /\ p # None
    BY <2>1, BoundAssumption, NoneAssumption DEF IInv
  <2>4. m \in {"initial", "existing"}
    BY <2>2 DEF Modes
  <2> DEFINE new == [My EXCEPT !.policy = p, !.mode = m]
  <2>5. runs' = [runs EXCEPT ![job.run] = new]
    BY <1>2, <2>2 DEF My
  <2>6. My \in RunRecord /\ \A s \in Directed : My.stages[s] = "pending"
    BY <1>2, <1>3, <1>5 DEF RunOK
  <2>7. new \in RunRecord /\ new.policy = p /\ new.mode = m /\ new.stages = My.stages
    BY <2>3, <2>4, <2>6 DEF RunRecord, Optionally
  <2>8. RunOK(new)
    BY <2>3, <2>4, <2>6, <2>7 DEF RunOK, Directed
  <2> HIDE DEF new
  <2>9. /\ runs' \in Seq(RunRecord) /\ DOMAIN runs' = DOMAIN runs
        /\ \A r \in DOMAIN runs : runs'[r] = IF r = job.run THEN new ELSE runs[r]
    BY <1>2, <2>5, <2>7
  <2>10. RunsOK'
    BY <2>8, <2>9 DEF IInv, RunsOK
  <2> QED BY <1>1, <1>2, <1>3, <2>3, <2>7, <2>9, <2>10, Advanced
<1> QED BY <1>4, <1>5

\* An attempt that skips a step or passes one that is no stage.
LEMMA PassStep ==
  ASSUME IInv, InSetup("enter"), job' = Advance(job), UNCHANGED <<runs, late, limit>>, job.at # 1
  PROVE  IInv'
<1>1. job.run \in DOMAIN runs /\ My.policy # None
  BY DEF IInv, Chosen
<1> QED BY <1>1, Advanced DEF IInv, RunsOK, My

\* The first step is the one that chooses a policy.
LEMMA FirstStep ==
  ASSUME IInv, InSetup("enter")
  PROVE  job.at = 1 => Step = "policy"
BY StageOfMode DEF Step, MySteps

\* What a stage does leaves the bounds alone.
LEMMA EffectLimit ==
  ASSUME Effect
  PROVE  limit' = limit
BY DEF Effect, BackupStage, SnapshotStage, WriteTree, WriteLive, WriteExtra, LocalBackupStage, BaselineStage,
       history, fixed

\* A completed stage.
LEMMA StageStep ==
  ASSUME IInv, AtStage, late' = late, limit' = limit, job' = Advance(job),
         RunsOK', DOMAIN runs' = DOMAIN runs,
         \A r \in DOMAIN runs : runs'[r].policy = runs[r].policy /\ runs'[r].mode = runs[r].mode
  PROVE  IInv'
<1>1. InSetup("enter") /\ job.run \in DOMAIN runs /\ My.policy # None
  BY AtItsStage DEF AtStage
<1> QED BY <1>1, Advanced DEF My

\* Every step of setup keeps the invariant.
LEMMA SetupStep ==
  ASSUME IInv, Setup
  PROVE  IInv'
<1>1. ASSUME NEW resume \in BOOLEAN, StartSetup(resume) PROVE IInv'
  BY <1>1, StartStep
<1>2. CASE Review
  BY <1>2, ReviewStep
<1>3. CASE LeaveReview
  BY <1>3, IdleShaped, Elsewhere DEF LeaveReview, Release, history, fixed, IInv, RunsOK, LateOK
<1>4. CASE ChoosePolicy
  BY <1>4, ChoosePolicyStep
<1>5. CASE CancelRun
  <2>1. RunsOK'
    BY <1>5, StatusSet DEF CancelRun, IInv
  <2> QED BY <1>5, <2>1, IdleShaped, Elsewhere DEF CancelRun, Release, history, fixed, IInv, LateOK
<1>6. CASE Preserve
  <2>1. job.at # 1
    BY <1>6, FirstStep DEF Preserve
  <2> QED BY <1>6, <2>1, PassStep DEF Preserve, history, fixed
<1>7. CASE SkipStage
  <2>1. InSetup("enter") /\ job.at # 1
    BY <1>7, FirstStep DEF SkipStage, AtStage, IsStage, Stages
  <2> QED BY <1>7, <2>1, PassStep DEF SkipStage, history, fixed
<1>8. CASE DoStage
  <2>1. limit' = limit
    BY <1>8, EffectLimit DEF DoStage
  <2> QED BY <1>8, <2>1, MarkedOnly, StageStep DEF DoStage, AtStage
<1>9. CASE KeepProtected
  <2>1. limit' = limit /\ late' = late
    BY <1>9 DEF KeepProtected, history, fixed
  <2> QED BY <1>9, <2>1, Marked, StageStep DEF KeepProtected, AtStage
<1>10. CASE FailStage
  <2>1. limit' = limit /\ late' = late
    BY <1>10, EffectLimit DEF FailStage, history, fixed
  <2>2. /\ RunsOK' /\ DOMAIN runs' = DOMAIN runs
        /\ \A r \in DOMAIN runs : runs'[r].policy = runs[r].policy /\ runs'[r].mode = runs[r].mode
    BY <1>10, MarkedOnly DEF FailStage, AtStage
  <2>3. CASE job' = Advance(job)
    BY <1>10, <2>1, <2>2, <2>3, StageStep DEF FailStage
  <2>4. CASE Release
    BY <2>1, <2>2, <2>4, IdleShaped, Elsewhere DEF Release, IInv, LateOK
  <2> QED BY <1>10, <2>3, <2>4 DEF FailStage
<1>11. CASE StopInStage
  <2>1. limit' = limit /\ late' = late
    BY <1>11, EffectLimit DEF StopInStage
  <2>2. RunsOK'
    BY <1>11, MarkedOnly DEF StopInStage, AtStage
  <2> QED BY <1>11, <2>1, <2>2, IdleShaped, Elsewhere DEF StopInStage, IInv, LateOK
<1>12. CASE FailOutside
  BY <1>12, IdleShaped, Elsewhere DEF FailOutside, Release, history, fixed, IInv, RunsOK, LateOK
<1>13. CASE RecordBaseline
  <2>1. Shaped' /\ job'.pc = "finish"
    BY <1>13 DEF RecordBaseline, IInv, Shaped, Fields
  <2> QED BY <1>13, <2>1, Elsewhere DEF RecordBaseline, history, fixed, IInv, RunsOK, LateOK
<1>14. CASE FinishRun
  <2>1. RunsOK'
    BY <1>14, StatusSet DEF FinishRun, IInv
  <2> QED BY <1>14, <2>1, IdleShaped, Elsewhere DEF FinishRun, Release, history, fixed, IInv, LateOK
<1> QED BY <1>1, <1>2, <1>3, <1>4, <1>5, <1>6, <1>7, <1>8, <1>9, <1>10, <1>11, <1>12, <1>13,
           <1>14 DEF Setup

\* An operation of recovery that leaves the records of the runs alone.
LEMMA Quiet ==
  ASSUME IInv, UNCHANGED <<runs, limit>>, LateOK', Shaped', job'.pc \notin {"review", "enter"}
  PROVE  IInv'
BY Elsewhere DEF IInv, RunsOK

\* Every step of a rollback, a restore or a snapshot keeps the invariant.
LEMMA RecoveryStep ==
  ASSUME IInv, Recovery
  PROVE  IInv'
<1> USE DEF history, fixed
<1>1. CASE StartControl
  <2>1. PICK r \in DOMAIN runs :
          LET B == OfRun(backups, r)
              S == OfRun(snapshots, r)
              j == [Idle EXCEPT !.kind = "control", !.run = r]
          IN job' = IF B = {} THEN [j EXCEPT !.pc = "release", !.ok = FALSE]
                    ELSE IF S = {} THEN [j EXCEPT !.pc = "state", !.backup = backups[Latest(B)]]
                    ELSE [j EXCEPT !.pc = "expect", !.backup = backups[Latest(B)],
                                   !.snap = snapshots[Latest(S)].id, !.want = snapshots[Latest(S)].tree]
    BY <1>1 DEF StartControl
  <2>2. Shaped' /\ job'.pc \in {"release", "state", "expect"}
    BY <2>1 DEF Shaped, Fields, Idle
  <2> QED BY <1>1, <2>2, Quiet DEF StartControl, IInv, LateOK
<1>2. CASE StartRollback
  <2>1. Shaped' /\ job'.pc = "expect"
    BY <1>2 DEF StartRollback, Shaped, Fields, Idle
  <2> QED BY <1>2, <2>1, Quiet DEF StartRollback, IInv, LateOK
<1>3. CASE StartRestore
  <2>1. Shaped' /\ job'.pc = "state"
    BY <1>3 DEF StartRestore, Shaped, Fields, Idle
  <2> QED BY <1>3, <2>1, Quiet DEF StartRestore, IInv, LateOK
<1>4. CASE Expect
  <2>1. Shaped' /\ job'.pc \in {"presnap", "release"}
    BY <1>4 DEF Expect, IInv, Shaped, Fields
  <2> QED BY <1>4, <2>1, Quiet DEF Expect, IInv, LateOK
<1>5. CASE PreSnapshot
  <2>1. Shaped' /\ job'.pc \in {"install", "guard"}
    BY <1>5 DEF PreSnapshot, IInv, Shaped, Fields
  <2> QED BY <1>5, <2>1, Quiet DEF PreSnapshot, IInv, LateOK
<1>6. CASE Guard
  <2>1. Shaped' /\ job'.pc = "install"
    BY <1>6 DEF Guard, IInv, Shaped, Fields
  <2> QED BY <1>6, <2>1, Quiet DEF Guard, IInv, LateOK
<1>7. CASE Install
  <2>1. Shaped' /\ job'.pc \in {"record", "meta"}
    BY <1>7 DEF Install, IInv, Shaped, Fields
  <2> QED BY <1>7, <2>1, Quiet DEF Install, IInv, LateOK
<1>8. CASE Meta
  <2>1. Shaped' /\ job'.pc = "apply"
    BY <1>8 DEF Meta, IInv, Shaped, Fields
  <2> QED BY <1>8, <2>1, Quiet DEF Meta, IInv, LateOK
<1>9. CASE ApplySnapshot
  <2>1. Shaped' /\ job'.pc = "record"
    BY <1>9 DEF ApplySnapshot, IInv, Shaped, Fields
  <2> QED BY <1>9, <2>1, Quiet DEF ApplySnapshot, IInv, LateOK
<1>10. CASE RecordRollback
  <2>1. Shaped' /\ job'.pc \in {"state", "release"}
    BY <1>10 DEF RecordRollback, IInv, Shaped, Fields
  <2> QED BY <1>10, <2>1, Quiet DEF RecordRollback, IInv, LateOK
<1>11. CASE RestoreState
  <2>1. Shaped' /\ job'.pc = "live"
    BY <1>11 DEF RestoreState, IInv, Shaped, Fields
  <2> QED BY <1>11, <2>1, Quiet DEF RestoreState, IInv, LateOK
<1>12. CASE RestoreLive
  <2>1. Shaped' /\ job'.pc = "release"
    BY <1>12 DEF RestoreLive, IInv, Shaped, Fields
  <2> QED BY <1>12, <2>1, Quiet DEF RestoreLive, IInv, LateOK
<1>13. CASE RestoreFails
  <2>1. Shaped' /\ job'.pc = "release"
    BY <1>13 DEF RestoreFails, IInv, Shaped, Fields
  <2> QED BY <1>13, <2>1, Quiet DEF RestoreFails, IInv, LateOK
<1>14. CASE RollbackFails
  <2>1. Shaped' /\ job'.pc = "release"
    BY <1>14 DEF RollbackFails, IInv, Shaped, Fields
  <2> QED BY <1>14, <2>1, Quiet DEF RollbackFails, IInv, LateOK
<1>15. CASE ReleaseJob
  <2>1. Shaped' /\ job'.pc = "idle"
    BY <1>15, IdleShaped DEF ReleaseJob, Release
  <2>2. LateOK'
    BY <1>15 DEF ReleaseJob, IInv, LateOK
  <2> QED BY <1>15, <2>1, <2>2, Quiet DEF ReleaseJob
<1>16. CASE LateStatus
  <2>1. late.status \in {"rolled-back", "rollback-failed"} /\ SetStatus(late.run, late.status)
    BY <1>16 DEF LateStatus, IInv, LateOK
  <2>2. /\ RunsOK' /\ DOMAIN runs' = DOMAIN runs
        /\ \A q \in DOMAIN runs : runs'[q].policy = runs[q].policy /\ runs'[q].mode = runs[q].mode
    BY <2>1, StatusSet DEF IInv
  <2> QED BY <1>16, <2>2, Untouched DEF LateStatus, LateOK
<1>17. CASE TakeSnapshot
  BY <1>17, Untouched DEF TakeSnapshot, IInv, RunsOK, LateOK
<1> QED BY <1>1, <1>2, <1>3, <1>4, <1>5, <1>6, <1>7, <1>8, <1>9, <1>10, <1>11, <1>12, <1>13,
           <1>14, <1>15, <1>16, <1>17 DEF Recovery

\* Edits, deliveries, stops and a removed lock keep the invariant.
LEMMA OthersStep ==
  ASSUME IInv, Others
  PROVE  IInv'
<1> USE DEF history, fixed
<1>1. CASE EditLive
  BY <1>1, Untouched DEF EditLive, IInv, RunsOK, LateOK
<1>2. CASE Deliver
  BY <1>2, Untouched DEF Deliver, IInv, RunsOK, LateOK
<1>3. CASE Stop
  <2>1. Shaped' /\ job'.pc = "idle"
    BY <1>3, IdleShaped DEF Stop
  <2> QED BY <1>3, <2>1, Quiet DEF Stop, LateOK
<1>4. CASE RemoveLock
  BY <1>4, Untouched DEF RemoveLock, IInv, RunsOK, LateOK
<1> QED BY <1>1, <1>2, <1>3, <1>4 DEF Others

-----------------------------------------------------------------------------
(* The invariant and what it implies *)

\* The invariant holds initially...
LEMMA InitInv == Init => IInv
<1> SUFFICES ASSUME Init PROVE IInv
  OBVIOUS
<1>1. runs \in Seq(RunRecord) /\ DOMAIN runs = {}
  BY DEF Init
<1>2. job.pc = "idle" /\ Shaped
  BY DEF Init, Idle, Shaped, Fields
<1> QED BY <1>1, <1>2 DEF Init, IInv, RunsOK, Chosen, InSetup, LateOK

\* ... every step keeps it...
LEMMA StepInv == IInv /\ [Next]_vars => IInv'
<1> SUFFICES ASSUME IInv, [Next]_vars PROVE IInv'
  OBVIOUS
<1>1. CASE Setup
  BY <1>1, SetupStep
<1>2. CASE Recovery
  BY <1>2, RecoveryStep
<1>3. CASE Others
  BY <1>3, OthersStep
<1>4. CASE UNCHANGED vars
  BY <1>4, Untouched DEF vars, history, fixed, IInv, RunsOK, LateOK
<1> QED BY <1>1, <1>2, <1>3, <1>4 DEF Next

\* ... and it implies that a run goes in one direction.
LEMMA DirectionFollows == IInv => OneDirection
<1> SUFFICES ASSUME IInv, NEW r \in DOMAIN runs, runs[r].stages["import"] # "pending"
             PROVE  runs[r].stages["restore"] = "pending" /\ runs[r].stages["localbackup"] = "pending"
  BY DEF OneDirection
<1>1. RunOK(runs[r])
  BY DEF IInv, RunsOK
<1> QED BY <1>1 DEF RunOK

\* A run goes in one direction (setup-impl, update-run-context and run-stage): however it
\* is interrupted, resumed and rolled back, and whatever people, the cloud client and other
\* runs do meanwhile, a run that once imported the live configuration never enters the
\* stages that bring the private configuration in.
THEOREM DirectionKept == Spec => []OneDirection
<1>1. Init => IInv
  BY InitInv
<1>2. IInv /\ [Next]_vars => IInv'
  BY StepInv
<1>3. IInv => OneDirection
  BY DirectionFollows
<1> QED BY <1>1, <1>2, <1>3, PTL DEF Spec
-----------------------------------------------------------------------------
(* What every state satisfies *)

\* Stages that change the live configuration or the private source.
Changing == {"init", "import", "apply", "capture", "meta", "restore"}

\* The types of the configuration and of what recovery keeps.
ConfigOK ==
  /\ live \in Contents /\ extra \in Contents /\ tree \in Trees
  /\ baseline \in Optionally(Trees) /\ sync \in Optionally(SyncState)
StoresOK ==
  /\ backups \in Seq(Backup) /\ Len(backups) <= Keep
  /\ snapshots \in Seq(Snapshot) /\ Len(snapshots) <= Keep
  /\ copies \subseteq Trees

\* The history and the counters have their types.
Found == [live : Contents, tree : Trees, baseline : Optionally(Trees)]
Counted ==
  /\ count \in [version : Contents, commands : Nat, snapshots : Nat]
  /\ found \in [Runs -> Optionally(Found)]
  /\ clean \in [Runs -> BOOLEAN]
  /\ saved \in [Runs -> [backup : Contents, snapshot : Contents]]
  /\ copied \subseteq {"live", "cfg", "extra"}
  /\ \A i \in DOMAIN snapshots : snapshots[i].id <= count.snapshots
  /\ \A r \in Runs : found[r] # None => r \in DOMAIN runs /\ saved[r].backup <= count.version
  /\ \A r \in DOMAIN runs :
       runs[r].stages["snapshot"] = "success" => saved[r].snapshot <= count.version

\* Which operation is where, and what it holds there.
SetupLabels == {"review", "enter", "record", "finish"}
ControlLabels == {"expect", "presnap", "install", "record", "state", "live", "release"}
RollbackLabels == {"expect", "presnap", "guard", "install", "meta", "apply", "record", "release"}
Before == [live : Contents, baseline : Optionally(Trees), sync : Optionally(SyncState)]
JobOK(j, held, n, D) ==
  /\ \/ j = Idle
     \/ held /\ \/ j.kind = "setup" /\ j.pc \in SetupLabels
                \/ j.kind = "control" /\ j.pc \in ControlLabels
                \/ j.kind = "rollback" /\ j.pc \in RollbackLabels
                \/ j.kind = "restore" /\ j.pc \in {"state", "live", "release"}
  /\ j.run # 0 => j.run \in D
  /\ j.kind = "control" \/ (j.kind = "setup" /\ j.pc # "review") => j.run # 0
  /\ j.kind \in {"rollback", "restore"} => j.run = 0
  /\ j.snap \in 0..n
  /\ j.pc \in {"expect", "presnap", "guard", "install", "meta", "apply"} => j.want \in Trees /\ j.snap # 0
  /\ j.kind \in {"control", "restore"} /\ j.pc # "release" => j.backup \in Backup
  /\ j.pc = "live" => j.before \in Before
Working ==
  /\ lock \in BOOLEAN /\ JobOK(job, lock, count.snapshots, DOMAIN runs)
  /\ late # None => late.run \in DOMAIN runs

Typed == ConfigOK /\ StoresOK /\ Counted /\ Working /\ Len(runs) <= MaxRuns

\* What a run has entered and completed: nothing before its backup, and nothing that
\* changes the configuration before its snapshot; the stage of the extras is not passed over
\* unentered.
RunOrdered(stages, f) ==
  /\ \A s \in Stages \ {"backup"} : stages[s] # "pending" => stages["backup"] = "success"
  /\ \A s \in Changing : stages[s] # "pending" => stages["snapshot"] = "success"
  /\ stages["backup"] = "success" => f # None
ExtraStage(mode) == IF mode = "initial" THEN "capture" ELSE "restore"
JobOrdered ==
  /\ InSetup("enter") =>
       /\ \A s \in Required : Place(s) < Place(Step) => My.stages[s] = "success"
       /\ ~job.resume => \A s \in Stages : My.stages[s] # "pending" => Place(s) < Place(Step)
       /\ 8 < Place(Step) => My.stages[ExtraStage(My.mode)] # "pending"
  /\ InSetup("record") \/ InSetup("finish") =>
       /\ \A s \in Required : My.stages[s] = "success"
       /\ My.stages[ExtraStage(My.mode)] # "pending"
Ordered ==
  /\ \A r \in DOMAIN runs : RunOrdered(runs[r].stages, found[r])
  /\ JobOrdered

\* While only the run itself has changed anything, what was applied, captured and restored
\* stays together.
Together ==
  /\ \A r \in DOMAIN runs :
       /\ clean[r] /\ runs[r].stages["apply"] = "success"
       /\ ~(job.kind = "control" /\ job.run = r)
       => runs[r].kept \/ tree.cfg \in {0, live}
  /\ \A r \in DOMAIN runs :
       /\ clean[r] /\ ~(job.kind = "control" /\ job.run = r)
       => /\ runs[r].stages["capture"] = "success" => extra \in {0, tree.extra}
          /\ runs[r].stages["restore"] = "success" => tree.extra \in {0, extra}
  /\ InSetup("finish") /\ clean[job.run] => baseline = tree

\* While only the run itself has changed anything, its backups and snapshots hold what it
\* found, and before its first change the machine has it too.
BackupsTrue ==
  \A i \in DOMAIN backups :
    LET b == backups[i] IN
    b.run # 0 => /\ found[b.run] # None
                 /\ clean[b.run] => /\ b.live = found[b.run].live
                                    /\ b.baseline = found[b.run].baseline
SnapshotsTrue ==
  \A i \in DOMAIN snapshots :
    LET s == snapshots[i] IN
    s.run # 0 => /\ found[s.run] # None
                 /\ clean[s.run] => s.tree = found[s.run].tree
FoundStill ==
  job.kind \in {"none", "setup"} => \A r \in DOMAIN runs :
    /\ clean[r] /\ found[r] # None
    /\ \A s \in Changing : runs[r].stages[s] = "pending"
    => found[r] = [live |-> live, tree |-> tree, baseline |-> baseline]
Recorded == BackupsTrue /\ SnapshotsTrue /\ FoundStill

\* How far a rollback of a run that nobody disturbed has come.
Controlling ==
  LET f == found[job.run] IN
  job.kind = "control" /\ clean[job.run] /\ (job.pc = "release" => job.ok) =>
    /\ f # None
    /\ job.pc # "release" => job.backup.live = f.live /\ job.backup.baseline = f.baseline
    /\ job.pc \in {"expect", "presnap", "install"} => job.want = f.tree
    /\ /\ job.pc \in {"record", "state", "live", "release"}
       /\ IF job.snap = 0 THEN My.stages["snapshot"] = "pending" ELSE Kept(job.snap)
       => tree = f.tree
    /\ job.pc \in {"live", "release"} => baseline = f.baseline
    /\ job.pc = "release" => live = f.live

\* Copies of the live configuration and of what the source holds.
Lives == {0} \cup {backups[i].live : i \in DOMAIN backups}
Cfgs == {0} \cup {snapshots[i].tree.cfg : i \in DOMAIN snapshots}
ExtraCfgs == {0} \cup {snapshots[i].tree.extra : i \in DOMAIN snapshots}

\* Snapshots are told apart, and a restore uses what is there.
Selected ==
  /\ \A i, k \in DOMAIN snapshots : snapshots[i].id = snapshots[k].id => i = k
  /\ job.pc \in {"expect", "presnap", "guard", "install"} =>
       \A i \in DOMAIN snapshots : snapshots[i].id = job.snap => snapshots[i].tree = job.want
  /\ job.kind \in {"control", "restore"} /\ job.pc # "release" =>
       \E i \in DOMAIN backups : backups[i] = job.backup

\* What was written on either side is in a copy or newer than a run's.
LivesCovered ==
  \A r \in Runs : found[r] # None /\ "live" \notin copied => live \in Lives \/ live > saved[r].backup
CfgsCovered ==
  \A r \in DOMAIN runs :
    limit.snapshots /\ runs[r].stages["snapshot"] = "success" =>
      /\ "cfg" \notin copied => tree.cfg \in Cfgs \/ tree.cfg > saved[r].snapshot
      /\ "extra" \notin copied => tree.extra \in ExtraCfgs \/ tree.extra > saved[r].snapshot
AttemptLive ==
  InSetup("enter") /\ ~job.resume /\ Place(Step) > 2 /\ Place(Step) <= 7 =>
    live \in Lives \/ live > saved[job.run].backup
Covered == LivesCovered /\ CfgsCovered /\ AttemptLive

-----------------------------------------------------------------------------
(* What the steps change *)

Stage == DoStage \/ KeepProtected \/ FailStage \/ StopInStage

\* The stages, one by one.
LEMMA EffectCases ==
  ASSUME Effect
  PROVE  \/ Step = "backup" /\ BackupStage
         \/ Step = "snapshot" /\ SnapshotStage
         \/ Step = "init" /\ WriteTree(Initialized(tree))
         \/ Step = "import" /\ WriteTree(Imported(tree))
         \/ Step = "capture" /\ WriteTree(Captured(tree))
         \/ Step = "meta" /\ WriteTree(Stamped(tree, job.run))
         \/ Step = "apply" /\ WriteLive(Applied)
         \/ Step = "restore" /\ WriteExtra(Restored)
         \/ Step = "localbackup" /\ LocalBackupStage
         \/ Step = "baseline" /\ BaselineStage
         \/ Step \notin {"backup", "snapshot", "init", "import", "capture", "meta", "apply",
                         "restore", "localbackup", "baseline"} /\ UNCHANGED <<config, store, count, history>>
BY DEF Effect

\* A stage does its work or nothing, and is then completed or begun.
LEMMA StageWork ==
  ASSUME Stage
  PROVE  /\ AtStage /\ ~Done /\ late' = late
         /\ \/ job' = Advance(job) /\ lock' = lock
            \/ job' = Idle
         /\ \/ Effect
            \/ UNCHANGED <<config, store, count, history>>
<1>1. CASE DoStage
  BY <1>1 DEF DoStage
<1>2. CASE KeepProtected
  BY <1>2 DEF KeepProtected
<1>3. CASE FailStage
  BY <1>3 DEF FailStage, Release
<1>4. CASE StopInStage
  BY <1>4 DEF StopInStage
<1> QED BY <1>1, <1>2, <1>3, <1>4 DEF Stage

\* Which steps change the configuration and its records...
LEMMA ConfigFoot ==
  ASSUME Next
  PROVE  \/ UNCHANGED config
         \/ Stage \/ RecordBaseline \/ Install \/ Meta \/ ApplySnapshot \/ RecordRollback
         \/ RestoreState \/ RestoreLive \/ RestoreFails \/ EditLive \/ Deliver
<1>1. CASE Setup
  BY <1>1 DEF Setup, Stage, StartSetup, Review, LeaveReview, ChoosePolicy, CancelRun, Preserve,
              SkipStage, FailOutside, FinishRun
<1>2. CASE Recovery
  BY <1>2 DEF Recovery, StartControl, StartRollback, Expect, PreSnapshot, Guard, StartRestore,
              RollbackFails, ReleaseJob, LateStatus, TakeSnapshot
<1>3. CASE Others
  BY <1>3 DEF Others, Stop, RemoveLock
<1> QED BY <1>1, <1>2, <1>3 DEF Next

\* ... which the run records...
LEMMA RunsFoot ==
  ASSUME Next
  PROVE  UNCHANGED runs \/ Stage \/ Review \/ ChoosePolicy \/ CancelRun \/ FinishRun \/ LateStatus
<1>1. CASE Setup
  BY <1>1 DEF Setup, Stage, StartSetup, LeaveReview, Preserve, SkipStage, FailOutside, RecordBaseline
<1>2. CASE Recovery
  BY <1>2 DEF Recovery, StartControl, StartRollback, Expect, PreSnapshot, Guard, Install, Meta,
              ApplySnapshot, RecordRollback, StartRestore, RestoreState, RestoreLive, RestoreFails,
              RollbackFails, ReleaseJob, TakeSnapshot
<1>3. CASE Others
  BY <1>3 DEF Others, EditLive, Deliver, Stop, RemoveLock
<1> QED BY <1>1, <1>2, <1>3 DEF Next

\* ... which the copies...
LEMMA StoreFoot ==
  ASSUME Next
  PROVE  /\ UNCHANGED backups \/ Stage \/ Guard
         /\ UNCHANGED snapshots \/ Stage \/ PreSnapshot \/ TakeSnapshot
         /\ UNCHANGED copies \/ Stage \/ Preserve \/ Install
<1>1. CASE Setup
  BY <1>1 DEF Setup, Stage, StartSetup, Review, LeaveReview, ChoosePolicy, CancelRun, Preserve,
              SkipStage, FailOutside, RecordBaseline, FinishRun, store
<1>2. CASE Recovery
  BY <1>2 DEF Recovery, StartControl, StartRollback, Expect, PreSnapshot, Guard, Install, Meta,
              ApplySnapshot, RecordRollback, StartRestore, RestoreState, RestoreLive, RestoreFails,
              RollbackFails, ReleaseJob, LateStatus, TakeSnapshot, store
<1>3. CASE Others
  BY <1>3 DEF Others, EditLive, Deliver, Stop, RemoveLock, store
<1> QED BY <1>1, <1>2, <1>3 DEF Next

\* ... which the counters...
LEMMA CountFoot ==
  ASSUME Next
  PROVE  \/ UNCHANGED count
         \/ Stage \/ StartControl \/ StartRollback \/ StartRestore \/ PreSnapshot \/ TakeSnapshot
         \/ EditLive \/ Deliver
<1>1. CASE Setup
  BY <1>1 DEF Setup, Stage, StartSetup, Review, LeaveReview, ChoosePolicy, CancelRun, Preserve,
              SkipStage, FailOutside, RecordBaseline, FinishRun
<1>2. CASE Recovery
  BY <1>2 DEF Recovery, Expect, Guard, Install, Meta, ApplySnapshot, RecordRollback,
              RestoreState, RestoreLive, RestoreFails, RollbackFails, ReleaseJob, LateStatus
<1>3. CASE Others
  BY <1>3 DEF Others, Stop, RemoveLock
<1> QED BY <1>1, <1>2, <1>3 DEF Next

\* ... and which the history.
LEMMA HistoryFoot ==
  ASSUME Next
  PROVE  /\ UNCHANGED <<found, saved>> \/ Stage
         /\ UNCHANGED clean \/ Disturb(0) \/ Disturb(job.run) \/ Stage
         /\ UNCHANGED copied \/ Stage \/ Install \/ ApplySnapshot \/ RestoreLive \/ RestoreFails
            \/ EditLive \/ Deliver
<1>1. CASE Setup
  BY <1>1 DEF Setup, Stage, StartSetup, Review, LeaveReview, ChoosePolicy, CancelRun, Preserve,
              SkipStage, FailOutside, RecordBaseline, FinishRun, history, fixed
<1>2. CASE Recovery
  BY <1>2 DEF Recovery, StartControl, StartRollback, Expect, PreSnapshot, Guard, Install, Meta,
              ApplySnapshot, RecordRollback, StartRestore, RestoreState, RestoreLive, RestoreFails,
              RollbackFails, ReleaseJob, LateStatus, TakeSnapshot, history, fixed
<1>3. CASE Others
  BY <1>3 DEF Others, EditLive, Deliver, Stop, RemoveLock, history, fixed
<1> QED BY <1>1, <1>2, <1>3 DEF Next

-----------------------------------------------------------------------------
(* Helpers *)

\* n is s with x behind it and the d oldest gone.
Shifted(n, s, x, d) ==
  /\ d \in Nat /\ Len(n) \in Nat /\ Len(n) >= 1 /\ Len(n) <= Keep /\ Len(n) + d = Len(s) + 1 /\ DOMAIN n = 1..Len(n)
  /\ \A i \in 1..Len(n) : n[i] = IF i = Len(n) THEN x ELSE s[i + d]
  /\ \A i \in 1..Len(n) : i # Len(n) => i + d \in DOMAIN s

\* Pruning keeps the newest, what was added last among them.
LEMMA Pruned ==
  ASSUME NEW S, NEW s \in Seq(S), NEW x \in S
  PROVE  /\ Newest(Append(s, x)) \in Seq(S)
         /\ \E d \in Nat : Shifted(Newest(Append(s, x)), s, x, d)
<1> DEFINE t == Append(s, x)
           m == IF Len(t) > Keep THEN Len(t) - Keep + 1 ELSE 1
           n == SubSeq(t, m, Len(t))
<1>1. /\ t \in Seq(S) /\ Len(t) = Len(s) + 1 /\ Len(s) \in Nat /\ t[Len(s) + 1] = x
      /\ \A i \in 1..Len(s) : t[i] = s[i]
      /\ DOMAIN s = 1..Len(s) /\ Len(t) \in Nat
  BY AppendProperties, LenProperties
<1>2. m \in 1..Len(t) /\ Len(t) - m + 1 \in 1..Keep /\ m - 1 \in Nat
  BY <1>1, KeepAssumption
<1>3. Newest(Append(s, x)) = n
  BY DEF Newest
<1> HIDE DEF t, m
<1>4. /\ n \in Seq(S) /\ Len(n) = Len(t) - m + 1 /\ DOMAIN n = 1..Len(n)
      /\ \A i \in 1..Len(t) - m + 1 : n[i] = t[i + m - 1]
  BY <1>1, <1>2, SubSeqProperties, LenProperties
<1> HIDE DEF n
<1>5. Shifted(n, s, x, m - 1)
  <2>1. Len(n) \in Nat /\ Len(n) >= 1 /\ Len(n) <= Keep /\ Len(n) + (m - 1) = Len(s) + 1
    BY <1>1, <1>2, <1>4
  <2>2. ASSUME NEW i \in 1..Len(n)
        PROVE  /\ n[i] = IF i = Len(n) THEN x ELSE s[i + (m - 1)]
               /\ i # Len(n) => i + (m - 1) \in DOMAIN s
    <3>1. n[i] = t[i + m - 1] /\ i + m - 1 = i + (m - 1)
      BY <1>2, <1>4
    <3>2. CASE i = Len(n)
      BY <1>1, <1>2, <1>4, <3>1, <3>2
    <3>3. CASE i # Len(n)
      <4>1. i \in Int /\ i >= 1 /\ i < Len(n) /\ m \in Int /\ m >= 1 /\ Len(n) + (m - 1) = Len(s) + 1
        BY <1>2, <2>1, <3>3
      <4>2. i + (m - 1) >= 1 /\ i + (m - 1) <= Len(s) /\ i + (m - 1) \in Int
        BY <1>1, <2>1, <4>1
      <4>3. i + (m - 1) \in 1..Len(s)
        BY <4>2
      <4> QED BY <1>1, <3>1, <3>3, <4>3
    <3> QED BY <3>2, <3>3
  <2> QED BY <1>2, <1>4, <2>1, <2>2 DEF Shifted
<1> QED BY <1>2, <1>3, <1>4, <1>5

\* What a pruned sequence holds: what was added, and otherwise what was there.
LEMMA Holds ==
  ASSUME NEW S, NEW s \in Seq(S), NEW x \in S
  PROVE  /\ Newest(Append(s, x)) \in Seq(S) /\ Len(Newest(Append(s, x))) <= Keep
         /\ \A i \in DOMAIN Newest(Append(s, x)) :
              \/ Newest(Append(s, x))[i] = x
              \/ \E k \in DOMAIN s : Newest(Append(s, x))[i] = s[k]
         /\ \E i \in DOMAIN Newest(Append(s, x)) : Newest(Append(s, x))[i] = x
<1> DEFINE n == Newest(Append(s, x))
<1>1. n \in Seq(S) /\ \E d \in Nat : Shifted(n, s, x, d)
  BY Pruned
<1> HIDE DEF n
<1>2. PICK d \in Nat : Shifted(n, s, x, d)
  BY <1>1
<1>3. Len(n) \in Nat /\ Len(n) >= 1
  BY <1>2 DEF Shifted
<1>4. Len(n) \in 1..Len(n)
  BY <1>3
<1>5. /\ n \in Seq(S) /\ Len(n) <= Keep
      /\ \A i \in DOMAIN n : n[i] = x \/ \E k \in DOMAIN s : n[i] = s[k]
      /\ \E i \in DOMAIN n : n[i] = x
  BY <1>1, <1>2, <1>4 DEF Shifted
<1> QED BY <1>5 DEF n

\* The runs are among those the bounds allow, and none of them is number 0.
LEMMA RunsBound ==
  ASSUME Len(runs) \in 0..MaxRuns, DOMAIN runs = 1..Len(runs)
  PROVE  DOMAIN runs \subseteq Runs
BY BoundAssumption DEF Runs

\* The versions a behaviour may write are contents.
LEMMA VersionBound ==
  ASSUME limit \in Limits, count.version \in Contents, count.version < 2 + limit.writes
  PROVE  count.version + 1 \in Contents /\ count.version + 1 > 0
BY BoundAssumption DEF Contents, LastVersion

\* Nobody is left undisturbed by a step that is no run's.
LEMMA DisturbAll ==
  ASSUME Disturb(0)
  PROVE  \A r \in Runs : ~clean'[r]
<1>1. \A r \in Runs : r # 0
  BY BoundAssumption DEF Runs
<1>2. \A r \in Runs : clean'[r] = (clean[r] /\ r = 0)
  BY Zenon DEF Disturb
<1> QED BY Zenon, <1>1, <1>2

\* A nonempty set of numbers has a least element, and a bounded one a greatest: the newest
\* of a run's backups exists.
LEMMA Least ==
  ASSUME NEW T, T \subseteq Nat, T # {}
  PROVE  \E x \in T : \A y \in T : x <= y
<1> DEFINE R == OpToRel(<, Nat)
<1>1. IsWellFoundedOn(R, Nat)
  BY NatLessThanWellFounded
<1>2. \A x, y \in Nat : x < y => <<x, y>> \in R
  BY DEF OpToRel
<1> HIDE DEF R
<1>3. PICK x \in T : \A y \in T : ~ (<<y, x>> \in R)
  BY <1>1, WFMin
<1>4. ASSUME NEW y \in T
      PROVE  x <= y
  <2>1. x \in Nat /\ y \in Nat /\ ~(y < x)
    BY <1>2, <1>3
  <2> QED BY <2>1
<1> QED BY <1>3, <1>4

\* The greatest.
LEMMA Greatest ==
  ASSUME NEW n \in Nat, NEW I, I \subseteq 1..n, I # {}
  PROVE  \E i \in I : \A k \in I : k <= i
<1> DEFINE T == {n - i : i \in I}
<1>1. \A i \in I : i \in Int /\ n - i \in Nat
  OBVIOUS
<1>2. T \subseteq Nat /\ T # {}
  BY <1>1
<1>3. PICK x \in T : \A y \in T : x <= y
  BY <1>2, Least
<1>4. PICK i \in I : x = n - i
  OBVIOUS
<1>5. ASSUME NEW k \in I
      PROVE  k <= i
  <2>1. n - i <= n - k
    BY <1>3, <1>4
  <2> QED BY <1>1, <2>1
<1> QED BY <1>4, <1>5

\* What a stage leaves in the run's record.
LEMMA StageMark ==
  ASSUME IInv, InSetup("enter"), IsStage, NEW status \in {"begun", "success"}, NEW kept,
         \/ kept = My.kept /\ Mark(status)
         \/ runs' = [runs EXCEPT ![job.run].stages[Step] = status, ![job.run].status = "open",
                                 ![job.run].kept = kept]
  PROVE  /\ Len(runs') = Len(runs) /\ DOMAIN runs' = DOMAIN runs
         /\ \A r \in DOMAIN runs :
              /\ runs'[r].policy = runs[r].policy /\ runs'[r].mode = runs[r].mode
              /\ runs'[r].kept = IF r = job.run THEN kept ELSE runs[r].kept
              /\ \A s \in Stages : runs'[r].stages[s] = IF r = job.run /\ s = Step THEN status
                                                        ELSE runs[r].stages[s]
<1>1. /\ job.run \in DOMAIN runs /\ My \in RunRecord /\ Step \in Stages /\ runs \in Seq(RunRecord)
  BY AtItsStage DEF IsStage, RunOK, IInv, RunsOK
<1>2. PICK new : /\ runs' = [runs EXCEPT ![job.run] = new]
                 /\ \/ kept = My.kept /\ new = [My EXCEPT !.stages[Step] = status, !.status = "open"]
                    \/ new = [My EXCEPT !.stages[Step] = status, !.status = "open", !.kept = kept]
  <2>1. CASE kept = My.kept /\ Mark(status)
    BY <1>1, <2>1 DEF Mark, My
  <2>2. CASE runs' = [runs EXCEPT ![job.run].stages[Step] = status, ![job.run].status = "open",
                                  ![job.run].kept = kept]
    BY <1>1, <2>2 DEF My
  <2> QED BY <2>1, <2>2
<1>3. /\ new.policy = My.policy /\ new.mode = My.mode /\ new.kept = kept
      /\ \A s \in Stages : new.stages[s] = IF s = Step THEN status ELSE My.stages[s]
  <2>1. CASE kept = My.kept /\ new = [My EXCEPT !.stages[Step] = status, !.status = "open"]
    BY <1>1, <2>1 DEF RunRecord
  <2>2. CASE new = [My EXCEPT !.stages[Step] = status, !.status = "open", !.kept = kept]
    BY <1>1, <2>2 DEF RunRecord
  <2> QED BY <1>2, <2>1, <2>2
<1>4. Len(runs') = Len(runs) /\ DOMAIN runs' = DOMAIN runs
  BY <1>1, <1>2
<1>5. \A r \in DOMAIN runs : runs'[r] = IF r = job.run THEN new ELSE runs[r]
  BY <1>1, <1>2
<1> QED BY <1>3, <1>4, <1>5 DEF My

\* A stage that is completed did its work, but for the one whose user keeps a file; one
\* that is not ends the attempt, but for the optional ones.
LEMMA StageRuns ==
  ASSUME IInv, Stage
  PROVE  /\ InSetup("enter") /\ job.run \in DOMAIN runs /\ Step \in Stages
         /\ job.at \in 2..Len(MySteps)
         /\ Len(runs') = Len(runs) /\ DOMAIN runs' = DOMAIN runs
         /\ \A r \in DOMAIN runs :
              /\ runs'[r].policy = runs[r].policy /\ runs'[r].mode = runs[r].mode
              /\ r = job.run \/ runs'[r].kept = runs[r].kept
              /\ runs'[r].kept = runs[r].kept \/ runs'[r].kept = TRUE
         /\ \E status \in {"begun", "success"} :
              /\ \A r \in DOMAIN runs, s \in Stages :
                   runs'[r].stages[s] = IF r = job.run /\ s = Step THEN status ELSE runs[r].stages[s]
              /\ status = "begun" => job' = Idle \/ Step \in Optional
              /\ status = "success" =>
                   \/ Effect
                   \/ Step = "apply" /\ runs'[job.run].kept = TRUE /\ UNCHANGED <<config, store, count, history>>
<1>1. InSetup("enter") /\ IsStage /\ Step \in Stages /\ job.run \in DOMAIN runs
  BY StageWork, AtItsStage DEF AtStage, IsStage
<1>2. job.at \in 2..Len(MySteps)
  <2>1. job.at \in 1..Len(MySteps) /\ Len(MySteps) \in Nat /\ job.at # 1
    BY <1>1, FirstStep, StageOfMode DEF IInv, Chosen, MySteps, Stages
  <2> QED BY <2>1
<1>3. CASE KeepProtected
  <2>1. runs' = [runs EXCEPT ![job.run].stages[Step] = "success", ![job.run].status = "open",
                             ![job.run].kept = TRUE]
    BY <1>3 DEF KeepProtected
  <2>2. Step = "apply" /\ UNCHANGED <<config, store, count, history>>
    BY <1>3 DEF KeepProtected
  <2>3. /\ Len(runs') = Len(runs) /\ DOMAIN runs' = DOMAIN runs
        /\ \A r \in DOMAIN runs :
             /\ runs'[r].policy = runs[r].policy /\ runs'[r].mode = runs[r].mode
             /\ runs'[r].kept = IF r = job.run THEN TRUE ELSE runs[r].kept
             /\ \A s \in Stages : runs'[r].stages[s] = IF r = job.run /\ s = Step THEN "success"
                                                       ELSE runs[r].stages[s]
    BY <1>1, <2>1, StageMark
  <2> QED BY <1>1, <1>2, <2>2, <2>3
<1>4. ASSUME NEW status \in {"begun", "success"}, Mark(status)
      PROVE  /\ Len(runs') = Len(runs) /\ DOMAIN runs' = DOMAIN runs
             /\ \A r \in DOMAIN runs :
                  /\ runs'[r].policy = runs[r].policy /\ runs'[r].mode = runs[r].mode
                  /\ runs'[r].kept = runs[r].kept
                  /\ \A s \in Stages : runs'[r].stages[s] = IF r = job.run /\ s = Step THEN status
                                                            ELSE runs[r].stages[s]
  <2>1. /\ Len(runs') = Len(runs) /\ DOMAIN runs' = DOMAIN runs
        /\ \A r \in DOMAIN runs :
             /\ runs'[r].policy = runs[r].policy /\ runs'[r].mode = runs[r].mode
             /\ runs'[r].kept = IF r = job.run THEN My.kept ELSE runs[r].kept
             /\ \A s \in Stages : runs'[r].stages[s] = IF r = job.run /\ s = Step THEN status
                                                       ELSE runs[r].stages[s]
    BY <1>1, <1>4, StageMark
  <2> QED BY <2>1 DEF My
<1>5. CASE DoStage
  <2>1. Mark("success") /\ Effect
    BY <1>5 DEF DoStage
  <2> QED BY <1>1, <1>2, <1>4, <2>1
<1>6. CASE FailStage
  <2>1. Mark("begun") /\ (job' = Idle \/ Step \in Optional)
    BY <1>6 DEF FailStage, Release
  <2> QED BY <1>1, <1>2, <1>4, <2>1
<1>7. CASE StopInStage
  <2>1. Mark("begun") /\ job' = Idle
    BY <1>7 DEF StopInStage
  <2> QED BY <1>1, <1>2, <1>4, <2>1
<1> QED BY <1>3, <1>5, <1>6, <1>7 DEF Stage

-----------------------------------------------------------------------------
(* Types *)

\* The runs a state knows.
LEMMA RunsKnown ==
  ASSUME IInv, Typed
  PROVE  /\ runs \in Seq(RunRecord) /\ Len(runs) \in 0..MaxRuns /\ DOMAIN runs = 1..Len(runs)
         /\ DOMAIN runs \subseteq Runs /\ job.run \in 0..MaxRuns
<1>1. runs \in Seq(RunRecord) /\ Len(runs) \in 0..MaxRuns /\ DOMAIN runs = 1..Len(runs)
  BY LenProperties, BoundAssumption DEF IInv, RunsOK, Typed
<1>2. DOMAIN runs \subseteq Runs
  BY <1>1, RunsBound
<1> QED BY <1>1, <1>2, BoundAssumption DEF Typed, Working, JobOK, Runs

\* The parts of the configuration a stage computes.
LEMMA Computed ==
  ASSUME ConfigOK
  PROVE  /\ Empty \in Trees
         /\ Initialized(tree) \in Trees
         /\ Initialized(tree).cfg = tree.cfg /\ Initialized(tree).extra = tree.extra
         /\ Imported(tree) \in Trees
         /\ Imported(tree).cfg = (IF live = 0 THEN tree.cfg ELSE live) /\ Imported(tree).extra = tree.extra
         /\ Captured(tree) \in Trees
         /\ Captured(tree).extra = (IF extra = 0 THEN tree.extra ELSE extra) /\ Captured(tree).cfg = tree.cfg
         /\ \A n \in Nat : /\ Stamped(tree, n) \in Trees
                           /\ Stamped(tree, n).cfg = tree.cfg /\ Stamped(tree, n).extra = tree.extra
         /\ Applied \in Contents /\ Applied = IF tree.cfg = 0 THEN live ELSE tree.cfg
         /\ Restored \in Contents /\ Restored = IF tree.extra = 0 THEN extra ELSE tree.extra
         /\ tree.cfg \in Contents /\ tree.extra \in Contents
<1>1. Empty \in Trees
  BY BoundAssumption DEF Empty, Trees, Contents, LastVersion
<1>2. /\ live \in Contents /\ extra \in Contents /\ tree \in Trees
      /\ tree = [cfg |-> tree.cfg, extra |-> tree.extra, stamp |-> tree.stamp]
      /\ tree.cfg \in Contents /\ tree.extra \in Contents /\ tree.stamp \in Nat
  BY DEF ConfigOK, Trees
<1>3. /\ Initialized(tree) \in Trees
      /\ Initialized(tree).cfg = tree.cfg /\ Initialized(tree).extra = tree.extra
  BY <1>2 DEF Initialized, Trees
<1>4. /\ Imported(tree) \in Trees
      /\ Imported(tree).cfg = (IF live = 0 THEN tree.cfg ELSE live) /\ Imported(tree).extra = tree.extra
  BY <1>2 DEF Imported, Trees
<1>5. /\ Captured(tree) \in Trees
      /\ Captured(tree).extra = (IF extra = 0 THEN tree.extra ELSE extra) /\ Captured(tree).cfg = tree.cfg
  BY <1>2 DEF Captured, Trees
<1>6. \A n \in Nat : /\ Stamped(tree, n) \in Trees
                    /\ Stamped(tree, n).cfg = tree.cfg /\ Stamped(tree, n).extra = tree.extra
  BY <1>2 DEF Stamped, Trees
<1>7. Applied \in Contents /\ Applied = IF tree.cfg = 0 THEN live ELSE tree.cfg
  BY <1>2 DEF Applied
<1>8. Restored \in Contents /\ Restored = IF tree.extra = 0 THEN extra ELSE tree.extra
  BY <1>2 DEF Restored
<1> QED BY <1>1, <1>2, <1>3, <1>4, <1>5, <1>6, <1>7, <1>8

\* A stage leaves a typed configuration.
LEMMA StageConfig ==
  ASSUME ConfigOK, job.run \in Nat, Effect \/ UNCHANGED config
  PROVE  ConfigOK'
<1>1. ASSUME UNCHANGED config
      PROVE  ConfigOK'
  BY <1>1 DEF config, ConfigOK
<1>2. ASSUME NEW t \in Trees, WriteTree(t)
      PROVE  ConfigOK'
  BY <1>2 DEF WriteTree, ConfigOK
<1>3. CASE WriteLive(Applied)
  BY <1>3, Computed DEF WriteLive, ConfigOK
<1>4. CASE WriteExtra(Restored)
  BY <1>4, Computed DEF WriteExtra, ConfigOK
<1>5. CASE BackupStage \/ SnapshotStage \/ LocalBackupStage
  BY <1>1, <1>5 DEF BackupStage, SnapshotStage, LocalBackupStage
<1>6. CASE BaselineStage
  BY <1>6 DEF BaselineStage, ConfigOK, Optionally, SyncState
<1>7. CASE \/ WriteTree(Initialized(tree)) \/ WriteTree(Imported(tree)) \/ WriteTree(Captured(tree))
           \/ WriteTree(Stamped(tree, job.run))
  BY <1>2, <1>7, Computed
<1> QED BY <1>1, <1>3, <1>4, <1>5, <1>6, <1>7, EffectCases

\* The configuration keeps its types.
LEMMA ConfigStep ==
  ASSUME IInv, Typed, Next
  PROVE  ConfigOK'
<1>1. ConfigOK /\ job.run \in 0..MaxRuns /\ job.snap \in Nat /\ count.version \in Contents /\ limit \in Limits
  BY RunsKnown DEF Typed, Working, JobOK, Counted, IInv
<1>2. MaxRuns \in Nat
  BY BoundAssumption
<1>3. CASE UNCHANGED config
  BY <1>1, <1>3 DEF config, ConfigOK
<1>4. CASE Stage
  BY <1>1, <1>2, <1>4, StageWork, StageConfig
<1>5. CASE RecordBaseline
  BY <1>1, <1>5 DEF RecordBaseline, ConfigOK, Optionally
<1>6. CASE Install
  <2>1. job.want \in Trees /\ Empty \in Trees
    BY <1>1, <1>6, Computed DEF Install, InJob, Typed, Working, JobOK
  <2> QED BY <1>1, <1>6, <2>1 DEF Install, ConfigOK
<1>7. CASE Meta
  <2>1. MaxRuns + job.snap \in Nat
    BY <1>1, <1>2
  <2> QED BY <1>1, <1>7, <2>1, Computed DEF Meta, ConfigOK
<1>8. CASE ApplySnapshot
  <2>1. job.want.cfg \in Contents /\ job.want.extra \in Contents
    BY <1>8 DEF ApplySnapshot, InJob, Typed, Working, JobOK, Trees
  <2> QED BY <1>1, <1>8, <2>1 DEF ApplySnapshot, ConfigOK
<1>9. CASE RecordRollback
  BY <1>1, <1>9 DEF RecordRollback, ConfigOK, Optionally, SyncState
<1>10. CASE RestoreState
  <2>1. job.backup \in Backup
    BY <1>10 DEF RestoreState, InJob, Typed, Working, JobOK, Idle, SetupLabels, RollbackLabels
  <2> QED BY <1>1, <1>10, <2>1 DEF RestoreState, ConfigOK, Backup
<1>11. CASE RestoreLive
  <2>1. job.backup \in Backup
    BY <1>11 DEF RestoreLive, InJob, Typed, Working, JobOK, Idle, SetupLabels, RollbackLabels
  <2> QED BY <1>1, <1>11, <2>1 DEF RestoreLive, ConfigOK, Backup
<1>12. CASE RestoreFails
  <2>1. job.before \in Before
    BY <1>12 DEF RestoreFails, InJob, Typed, Working, JobOK
  <2> QED BY <1>1, <1>12, <2>1 DEF RestoreFails, ConfigOK, Before
<1>13. CASE EditLive
  BY <1>1, <1>13, VersionBound DEF EditLive, ConfigOK, Typed, Counted
<1>14. CASE Deliver
  <2>1. count'.version \in Contents
    BY <1>1, <1>14, VersionBound DEF Deliver, Typed, Counted
  <2> QED BY <1>1, <1>14, <2>1 DEF Deliver, ConfigOK, Trees
<1> QED BY <1>3, <1>4, <1>5, <1>6, <1>7, <1>8, <1>9, <1>10, <1>11, <1>12, <1>13, <1>14, ConfigFoot

\* What a stage does to the copies.
LEMMA StageStores ==
  ASSUME Effect \/ UNCHANGED <<config, store, count, history>>
  PROVE  /\ \/ UNCHANGED backups
            \/ Step = "backup" /\ AddBackup(job.run)
            \/ Step = "localbackup" /\ AddBackup(0)
         /\ \/ UNCHANGED <<snapshots, count>>
            \/ Step = "snapshot" /\ AddSnapshot(job.run)
         /\ UNCHANGED copies
<1>1. CASE UNCHANGED <<config, store, count, history>>
  BY <1>1 DEF store
<1>2. CASE Effect
  BY <1>2, EffectCases DEF BackupStage, SnapshotStage, WriteTree, WriteLive, WriteExtra, LocalBackupStage, BaselineStage, store
<1> QED BY <1>1, <1>2

\* A backup is added, the oldest may go.
LEMMA BackupAdded ==
  ASSUME ConfigOK, StoresOK, NEW r \in 0..MaxRuns, AddBackup(r)
  PROVE  /\ backups' \in Seq(Backup) /\ Len(backups') <= Keep
         /\ \A i \in DOMAIN backups' :
              \/ backups'[i] = [run |-> r, live |-> live, baseline |-> baseline, sync |-> sync]
              \/ \E k \in DOMAIN backups : backups'[i] = backups[k]
         /\ \E i \in DOMAIN backups' :
              backups'[i] = [run |-> r, live |-> live, baseline |-> baseline, sync |-> sync]
<1> DEFINE new == [run |-> r, live |-> live, baseline |-> baseline, sync |-> sync]
<1>1. backups \in Seq(Backup) /\ backups' = Newest(Append(backups, new))
  BY DEF AddBackup, StoresOK
<1>2. new \in Backup
  BY DEF Backup, ConfigOK
<1> HIDE DEF new
<1>3. /\ Newest(Append(backups, new)) \in Seq(Backup) /\ Len(Newest(Append(backups, new))) <= Keep
      /\ \A i \in DOMAIN Newest(Append(backups, new)) :
           \/ Newest(Append(backups, new))[i] = new
           \/ \E k \in DOMAIN backups : Newest(Append(backups, new))[i] = backups[k]
      /\ \E i \in DOMAIN Newest(Append(backups, new)) : Newest(Append(backups, new))[i] = new
  <2>1. backups \in Seq(Backup)
    BY <1>1
  <2> QED BY ZenonT(30), <1>2, <2>1, Holds
<1>4. /\ backups' \in Seq(Backup) /\ Len(backups') <= Keep
      /\ \A i \in DOMAIN backups' : backups'[i] = new \/ \E k \in DOMAIN backups : backups'[i] = backups[k]
      /\ \E i \in DOMAIN backups' : backups'[i] = new
  BY <1>1, <1>3
<1> QED BY <1>4 DEF new

\* The same of a snapshot, whose identifier is new.
LEMMA SnapshotAdded ==
  ASSUME ConfigOK, StoresOK, count.snapshots \in Nat, NEW r \in 0..MaxRuns,
         snapshots' = Newest(Append(snapshots, [id |-> count.snapshots + 1, run |-> r, tree |-> tree]))
  PROVE  /\ snapshots' \in Seq(Snapshot) /\ Len(snapshots') <= Keep
         /\ \A i \in DOMAIN snapshots' :
              \/ snapshots'[i] = [id |-> count.snapshots + 1, run |-> r, tree |-> tree]
              \/ \E k \in DOMAIN snapshots : snapshots'[i] = snapshots[k]
         /\ \E i \in DOMAIN snapshots' :
              snapshots'[i] = [id |-> count.snapshots + 1, run |-> r, tree |-> tree]
<1> DEFINE new == [id |-> count.snapshots + 1, run |-> r, tree |-> tree]
<1>1. snapshots \in Seq(Snapshot) /\ snapshots' = Newest(Append(snapshots, new))
  BY DEF StoresOK
<1>2. new \in Snapshot
  BY DEF Snapshot, ConfigOK
<1> HIDE DEF new
<1>3. /\ Newest(Append(snapshots, new)) \in Seq(Snapshot) /\ Len(Newest(Append(snapshots, new))) <= Keep
      /\ \A i \in DOMAIN Newest(Append(snapshots, new)) :
           \/ Newest(Append(snapshots, new))[i] = new
           \/ \E k \in DOMAIN snapshots : Newest(Append(snapshots, new))[i] = snapshots[k]
      /\ \E i \in DOMAIN Newest(Append(snapshots, new)) : Newest(Append(snapshots, new))[i] = new
  <2>1. snapshots \in Seq(Snapshot)
    BY <1>1
  <2> QED BY ZenonT(30), <1>2, <2>1, Holds
<1>4. /\ snapshots' \in Seq(Snapshot) /\ Len(snapshots') <= Keep
      /\ \A i \in DOMAIN snapshots' : snapshots'[i] = new \/ \E k \in DOMAIN snapshots : snapshots'[i] = snapshots[k]
      /\ \E i \in DOMAIN snapshots' : snapshots'[i] = new
  BY <1>1, <1>3
<1> QED BY <1>4 DEF new

\* How the two sets of copies change in any step.
LEMMA StoreMoves ==
  ASSUME IInv, Typed, Next
  PROVE  /\ UNCHANGED backups \/ \E r \in 0..MaxRuns : AddBackup(r)
         /\ \/ UNCHANGED snapshots
            \/ \E r \in 0..MaxRuns :
                 /\ snapshots' = Newest(Append(snapshots, [id |-> count.snapshots + 1, run |-> r, tree |-> tree]))
                 /\ count'.snapshots = count.snapshots + 1
         /\ copies' \subseteq copies \cup {tree}
<1>1. job.run \in 0..MaxRuns /\ 0 \in 0..MaxRuns
  BY RunsKnown, BoundAssumption
<1>4. count \in [version : Contents, commands : Nat, snapshots : Nat]
  BY DEF Typed, Counted
<1>2. CASE Stage
  BY <1>1, <1>2, <1>4, StageWork, StageStores DEF AddSnapshot
<1>3. ASSUME ~Stage
      PROVE  /\ UNCHANGED backups \/ AddBackup(0)
             /\ \/ UNCHANGED snapshots
                \/ /\ snapshots' = Newest(Append(snapshots, [id |-> count.snapshots + 1, run |-> 0, tree |-> tree]))
                   /\ count'.snapshots = count.snapshots + 1
             /\ copies' \subseteq copies \cup {tree}
  BY <1>3, <1>4, StoreFoot DEF Guard, PreSnapshot, TakeSnapshot, AddSnapshot, Preserve, Install
<1> QED BY <1>1, <1>2, <1>3

\* The copies keep their types.
LEMMA StoresStep ==
  ASSUME IInv, Typed, Next
  PROVE  StoresOK'
<1>1. ConfigOK /\ StoresOK /\ count.snapshots \in Nat
  BY DEF Typed, Counted
<1>2. backups' \in Seq(Backup) /\ Len(backups') <= Keep
  <2>1. CASE UNCHANGED backups
    BY <1>1, <2>1 DEF StoresOK
  <2>2. ASSUME NEW r \in 0..MaxRuns, AddBackup(r)
        PROVE  backups' \in Seq(Backup) /\ Len(backups') <= Keep
    BY <1>1, <2>2, BackupAdded
  <2> QED BY <2>1, <2>2, StoreMoves
<1>3. snapshots' \in Seq(Snapshot) /\ Len(snapshots') <= Keep
  <2>1. CASE UNCHANGED snapshots
    BY <1>1, <2>1 DEF StoresOK
  <2>2. ASSUME NEW r \in 0..MaxRuns,
               snapshots' = Newest(Append(snapshots, [id |-> count.snapshots + 1, run |-> r, tree |-> tree]))
        PROVE  snapshots' \in Seq(Snapshot) /\ Len(snapshots') <= Keep
    BY <1>1, <2>2, SnapshotAdded
  <2> QED BY <2>1, <2>2, StoreMoves
<1>4. copies' \subseteq Trees
  BY <1>1, StoreMoves DEF StoresOK, ConfigOK
<1> QED BY <1>2, <1>3, <1>4 DEF StoresOK

\* A status leaves the rest of a record.
LEMMA StatusOnly ==
  ASSUME RunsOK, NEW r, NEW status, SetStatus(r, status)
  PROVE  /\ Len(runs') = Len(runs) /\ DOMAIN runs' = DOMAIN runs
         /\ \A q \in DOMAIN runs : runs'[q].stages = runs[q].stages /\ runs'[q].kept = runs[q].kept
                                   /\ runs'[q].policy = runs[q].policy /\ runs'[q].mode = runs[q].mode
<1>1. runs \in Seq(RunRecord) /\ \A q \in DOMAIN runs : runs[q] \in RunRecord
  BY DEF RunsOK, RunOK
<1>2. Len(runs') = Len(runs) /\ DOMAIN runs' = DOMAIN runs
      /\ \A q \in DOMAIN runs : runs'[q] = IF q = r THEN [runs[r] EXCEPT !.status = status] ELSE runs[q]
  BY <1>1 DEF SetStatus
<1> QED BY <1>1, <1>2 DEF RunRecord

\* How the run records change: a stage is marked, a new run appended, or neither stages
\* nor kept files change.
LEMMA RunsMoves ==
  ASSUME IInv, Typed, Next
  PROVE  /\ Len(runs') \in Nat /\ DOMAIN runs' = 1..Len(runs') /\ Len(runs) <= Len(runs') /\ Len(runs') <= MaxRuns
         /\ \/ Stage
            \/ \A r \in DOMAIN runs : runs'[r].stages = runs[r].stages /\ runs'[r].kept = runs[r].kept
         /\ \/ DOMAIN runs' = DOMAIN runs
            \/ /\ Review /\ ~job'.resume /\ job'.run = Len(runs') /\ Len(runs') = Len(runs) + 1
               /\ runs'[Len(runs')] = NewRun
<1> DEFINE Stays == \A r \in DOMAIN runs : runs'[r].stages = runs[r].stages /\ runs'[r].kept = runs[r].kept
<1>1. runs \in Seq(RunRecord) /\ Len(runs) \in 0..MaxRuns /\ DOMAIN runs = 1..Len(runs) /\ RunsOK
      /\ \A q \in DOMAIN runs : runs[q] \in RunRecord
  BY RunsKnown DEF IInv, RunsOK, RunOK
<1>2. Len(runs) \in Nat /\ Len(runs) <= MaxRuns
  BY <1>1
<1>3. Stage \/ UNCHANGED runs \/ Review \/ ChoosePolicy \/ CancelRun \/ FinishRun \/ LateStatus
  BY RunsFoot
<1>4. ASSUME Len(runs') = Len(runs), DOMAIN runs' = DOMAIN runs, Stage \/ Stays
      PROVE  /\ Len(runs') \in Nat /\ DOMAIN runs' = 1..Len(runs') /\ Len(runs) <= Len(runs') /\ Len(runs') <= MaxRuns
             /\ Stage \/ Stays
             /\ DOMAIN runs' = DOMAIN runs
  BY <1>1, <1>2, <1>4
<1>5. CASE UNCHANGED runs
  BY <1>4, <1>5
<1>6. CASE Stage
  <2>1. Len(runs') = Len(runs) /\ DOMAIN runs' = DOMAIN runs
    BY <1>6, StageRuns
  <2> QED BY <1>4, <1>6, <2>1
<1>7. CASE Review
  <2>1. NewOrResumed(job'.resume)
    BY <1>7 DEF Review
  <2>2. CASE job'.resume
    BY <1>5, <2>1, <2>2 DEF NewOrResumed
  <2>3. CASE ~job'.resume
    <3>1. Len(runs) < limit.runs /\ runs' = Append(runs, NewRun) /\ job'.run = Len(runs')
      BY <2>1, <2>3 DEF NewOrResumed
    <3>2. NewRun \in RunRecord
      BY NewRunOK DEF RunOK
    <3>3. limit.runs \in 0..MaxRuns
      BY BoundAssumption DEF IInv
    <3>4. /\ DOMAIN runs' = 1..Len(runs) + 1 /\ Len(runs') = Len(runs) + 1
          /\ \A q \in 1..Len(runs) : runs'[q] = runs[q]
          /\ runs'[Len(runs) + 1] = NewRun
      BY <1>1, <3>1, <3>2
    <3>5. Len(runs) + 1 <= MaxRuns
      BY <1>2, <3>1, <3>3, BoundAssumption
    <3>6. /\ Len(runs') \in Nat /\ DOMAIN runs' = 1..Len(runs') /\ Len(runs) <= Len(runs') /\ Len(runs') <= MaxRuns
          /\ runs'[Len(runs')] = NewRun
      BY <1>2, <3>4, <3>5
    <3>7. Stays
      BY <1>1, <3>4
    <3> QED BY <1>7, <2>3, <3>1, <3>4, <3>6, <3>7
  <2> QED BY <2>2, <2>3
<1>8. CASE ChoosePolicy
  <2>1. CASE job.resume /\ My.policy # None
    BY <1>5, <1>8, <2>1 DEF ChoosePolicy
  <2>2. CASE ~(job.resume /\ My.policy # None)
    <3>1. PICK p \in limit.policies : \E m \in Modes(p) :
            runs' = [runs EXCEPT ![job.run].policy = p, ![job.run].mode = m]
      BY <1>8, <2>2 DEF ChoosePolicy
    <3>2. PICK m \in Modes(p) : runs' = [runs EXCEPT ![job.run].policy = p, ![job.run].mode = m]
      BY <3>1
    <3>3. job.run \in DOMAIN runs
      BY <1>8 DEF ChoosePolicy, IInv, Chosen
    <3> DEFINE new == [runs[job.run] EXCEPT !.policy = p, !.mode = m]
    <3>4. runs' = [runs EXCEPT ![job.run] = new]
      BY <1>1, <3>2, <3>3
    <3>5. new.stages = runs[job.run].stages /\ new.kept = runs[job.run].kept
      BY <1>1, <3>3 DEF RunRecord
    <3> HIDE DEF new
    <3>6. Len(runs') = Len(runs) /\ DOMAIN runs' = DOMAIN runs
      BY <1>1, <3>3, <3>4
    <3>7. \A q \in DOMAIN runs : runs'[q] = IF q = job.run THEN new ELSE runs[q]
      BY <1>1, <3>3, <3>4
    <3>8. Stays
      BY <3>5, <3>7
    <3> QED BY <1>4, <3>6, <3>8
  <2> QED BY <2>1, <2>2
<1>9. CASE CancelRun \/ FinishRun \/ LateStatus
  <2>1. PICK r, status : SetStatus(r, status)
    BY <1>9 DEF CancelRun, FinishRun, LateStatus
  <2>2. Len(runs') = Len(runs) /\ DOMAIN runs' = DOMAIN runs /\ Stays
    BY <1>1, <2>1, StatusOnly
  <2> QED BY <1>4, <2>2
<1> QED BY <1>3, <1>5, <1>6, <1>7, <1>8, <1>9

\* What a stage does to the history.
LEMMA StageHistory ==
  ASSUME Effect \/ UNCHANGED <<config, store, count, history>>
  PROVE  /\ \/ UNCHANGED found
            \/ /\ Step = "backup" /\ AddBackup(job.run)
               /\ found' = [found EXCEPT ![job.run] = IF @ = None
                              THEN [live |-> live, tree |-> tree, baseline |-> baseline] ELSE @]
               /\ saved' = [saved EXCEPT ![job.run].backup = count.version]
               /\ UNCHANGED <<config, count, copied>>
         /\ \/ UNCHANGED saved
            \/ Step = "backup" /\ saved' = [saved EXCEPT ![job.run].backup = count.version]
            \/ Step = "snapshot" /\ saved' = [saved EXCEPT ![job.run].snapshot = count.version]
         /\ \/ UNCHANGED clean \/ Disturb(job.run)
            \/ Step = "backup" /\ clean' = [clean EXCEPT ![job.run] = found[job.run] = None \/ @]
         /\ copied' \subseteq copied \cup {"live", "cfg", "extra"}
<1>1. CASE UNCHANGED <<config, store, count, history>>
  BY <1>1 DEF history, fixed
<1>2. CASE Effect
  BY <1>2, EffectCases DEF BackupStage, SnapshotStage, WriteTree, WriteLive, WriteExtra, LocalBackupStage, BaselineStage,
     history, fixed, BroughtOver, InTree
<1> QED BY <1>1, <1>2

\* The counters only go up.
LEMMA CountMoves ==
  ASSUME IInv, Typed, Next
  PROVE  /\ count' \in [version : Contents, commands : Nat, snapshots : Nat]
         /\ count'.version >= count.version /\ count'.snapshots >= count.snapshots
<1>1. /\ count \in [version : Contents, commands : Nat, snapshots : Nat]
      /\ count.version \in Contents /\ count.version \in Nat /\ count.snapshots \in Nat /\ count.commands \in Nat
      /\ limit \in Limits
  BY BoundAssumption DEF Typed, Counted, Contents, LastVersion, IInv
<1>2. CASE UNCHANGED count
  BY <1>1, <1>2
<1>3. CASE count' = [count EXCEPT !.snapshots = @ + 1]
  BY <1>1, <1>3
<1>4. CASE count' = [count EXCEPT !.commands = @ + 1]
  BY <1>1, <1>4
<1>5. CASE count' = [count EXCEPT !.commands = @ + 1, !.snapshots = @ + 1]
  <2>1. /\ count'.version = count.version /\ count'.commands = count.commands + 1
        /\ count'.snapshots = count.snapshots + 1
    BY <1>1, <1>5
  <2>2. count' = [version |-> count.version, commands |-> count.commands + 1, snapshots |-> count.snapshots + 1]
    BY <1>1, <1>5
  <2>3. count' \in [version : Contents, commands : Nat, snapshots : Nat]
    BY <1>1, <2>2
  <2> QED BY <1>1, <2>1, <2>3
<1>6. CASE count.version < 2 + limit.writes /\ count' = [count EXCEPT !.version = @ + 1]
  <2>1. count.version + 1 \in Contents
    BY <1>1, <1>6, VersionBound
  <2> QED BY <1>1, <1>6, <2>1
<1>7. CASE Stage
  BY <1>2, <1>3, <1>7, StageWork, StageStores DEF AddSnapshot
<1>8. CASE PreSnapshot
  BY <1>2, <1>3, <1>8 DEF PreSnapshot, AddSnapshot
<1>9. CASE StartControl \/ StartRollback \/ StartRestore
  BY <1>4, <1>9 DEF StartControl, StartRollback, StartRestore
<1>10. CASE TakeSnapshot
  BY <1>5, <1>10 DEF TakeSnapshot
<1>11. CASE EditLive \/ Deliver
  BY <1>6, <1>11 DEF EditLive, Deliver
<1> QED BY <1>2, <1>7, <1>8, <1>9, <1>10, <1>11, CountFoot

\* The history and the counters keep their types.
LEMMA CountedStep ==
  ASSUME IInv, Typed, Next
  PROVE  Counted'
<1>1. /\ found \in [Runs -> Optionally(Found)] /\ clean \in [Runs -> BOOLEAN] /\ copied \subseteq {"live", "cfg", "extra"}
      /\ saved \in [Runs -> [backup : Contents, snapshot : Contents]]
      /\ count.version \in Contents /\ Contents \subseteq Nat /\ count.version \in Nat
      /\ \A r \in Runs : found[r] # None => r \in DOMAIN runs /\ saved[r].backup <= count.version
      /\ \A r \in DOMAIN runs :
           runs[r].stages["snapshot"] = "success" => saved[r].snapshot <= count.version
      /\ \A r \in Runs : saved[r].backup \in Nat /\ saved[r].snapshot \in Nat
  BY BoundAssumption DEF Typed, Counted, Contents, LastVersion
<1>2. /\ count' \in [version : Contents, commands : Nat, snapshots : Nat]
      /\ count'.version >= count.version /\ count'.version \in Nat
  BY <1>1, CountMoves
<1>3. /\ DOMAIN runs \subseteq DOMAIN runs' /\ DOMAIN runs \subseteq Runs /\ DOMAIN runs' \subseteq Runs
      /\ Stage \/ \A r \in DOMAIN runs : runs'[r].stages = runs[r].stages
      /\ \A r \in DOMAIN runs' : r \in DOMAIN runs \/ runs'[r] = NewRun
  <2>1. Len(runs') \in 0..MaxRuns /\ DOMAIN runs' = 1..Len(runs') /\ Len(runs) <= Len(runs') /\ Len(runs) \in Nat
        /\ DOMAIN runs = 1..Len(runs)
    <3>1. Len(runs') \in Nat /\ DOMAIN runs' = 1..Len(runs') /\ Len(runs) <= Len(runs') /\ Len(runs') <= MaxRuns
      BY RunsMoves
    <3> QED BY <3>1, RunsKnown, BoundAssumption
  <2>2. DOMAIN runs \subseteq Runs /\ DOMAIN runs' \subseteq Runs /\ DOMAIN runs \subseteq DOMAIN runs'
    BY <2>1, BoundAssumption DEF Runs
  <2>3. \A r \in DOMAIN runs' : r \in DOMAIN runs \/ runs'[r] = NewRun
    <3>1. CASE DOMAIN runs' = DOMAIN runs
      BY <3>1
    <3>2. CASE Len(runs') = Len(runs) + 1 /\ runs'[Len(runs')] = NewRun
      BY <2>1, <3>2
    <3> QED BY <3>1, <3>2, RunsMoves
  <2> QED BY <2>2, <2>3, RunsMoves
<1>4. Stage => /\ InSetup("enter") /\ job.run \in DOMAIN runs /\ DOMAIN runs' = DOMAIN runs
               /\ Effect \/ UNCHANGED <<config, store, count, history>>
  BY StageRuns, StageWork
<1>5. copied' \subseteq {"live", "cfg", "extra"}
  <2>1. CASE Stage
    BY <1>1, <1>4, <2>1, StageHistory
  <2>2. CASE ~Stage
    BY <1>1, <2>2, HistoryFoot DEF Install, ApplySnapshot, RestoreLive, RestoreFails, EditLive, Deliver,
       BroughtOver, WrittenThere, InTree
  <2> QED BY <2>1, <2>2
<1>6. clean' \in [Runs -> BOOLEAN]
  <2>1. ASSUME NEW r, Disturb(r)
        PROVE  clean' \in [Runs -> BOOLEAN]
    BY <1>1, <2>1 DEF Disturb
  <2>2. CASE UNCHANGED clean
    BY <1>1, <2>2
  <2>3. CASE Stage /\ clean' = [clean EXCEPT ![job.run] = found[job.run] = None \/ @]
    BY <1>1, <2>3
  <2> QED BY <1>4, <2>1, <2>2, <2>3, HistoryFoot, StageHistory
<1>7. saved' \in [Runs -> [backup : Contents, snapshot : Contents]]
  <2>1. CASE UNCHANGED saved
    BY <1>1, <2>1
  <2>2. CASE saved' = [saved EXCEPT ![job.run].backup = count.version]
    BY <1>1, <2>2
  <2>3. CASE saved' = [saved EXCEPT ![job.run].snapshot = count.version]
    BY <1>1, <2>3
  <2> QED BY <1>4, <2>1, <2>2, <2>3, HistoryFoot, StageHistory
<1>8. found' \in [Runs -> Optionally(Found)]
  <2>1. [live |-> live, tree |-> tree, baseline |-> baseline] \in Found
    BY DEF Typed, ConfigOK, Found
  <2>2. CASE UNCHANGED found
    BY <1>1, <2>2
  <2>3. CASE found' = [found EXCEPT ![job.run] = IF @ = None
                         THEN [live |-> live, tree |-> tree, baseline |-> baseline] ELSE @]
    BY <1>1, <2>1, <2>3 DEF Optionally
  <2> QED BY <1>4, <2>2, <2>3, HistoryFoot, StageHistory
<1>9. ASSUME NEW r \in Runs, found'[r] # None
      PROVE  r \in DOMAIN runs' /\ saved'[r].backup <= count'.version
  <2>1. CASE UNCHANGED <<found, saved>>
    BY <1>1, <1>2, <1>3, <1>9, <2>1
  <2>2. CASE Stage /\ saved' = [saved EXCEPT ![job.run].backup = count.version]
    <3>1. CASE r = job.run
      BY <1>1, <1>2, <1>4, <2>2, <3>1
    <3>2. CASE r # job.run
      <4>1. found'[r] = found[r]
        BY <1>1, <1>4, <2>2, <3>2, StageHistory
      <4>2. saved'[r] = saved[r]
        BY <1>1, <2>2, <3>2
      <4> QED BY <1>1, <1>2, <1>3, <1>9, <4>1, <4>2
    <3> QED BY <3>1, <3>2
  <2>3. CASE Stage /\ UNCHANGED found /\ saved' = [saved EXCEPT ![job.run].snapshot = count.version]
    <3>1. saved'[r].backup = saved[r].backup
      BY <1>1, <2>3
    <3> QED BY <1>1, <1>2, <1>3, <1>9, <2>3, <3>1
  <2> QED BY <1>4, <2>1, <2>2, <2>3, HistoryFoot, StageHistory
<1>10. ASSUME NEW r \in DOMAIN runs', runs'[r].stages["snapshot"] = "success"
       PROVE  saved'[r].snapshot <= count'.version
  <2>1. r \in DOMAIN runs
    BY <1>3, <1>10 DEF NewRun, Stages
  <2>2. CASE ~Stage
    BY <1>1, <1>2, <1>3, <1>10, <2>1, <2>2, HistoryFoot
  <2>3. CASE Stage
    <3>1. PICK status \in {"begun", "success"} :
            /\ \A q \in DOMAIN runs, s \in Stages :
                 runs'[q].stages[s] = IF q = job.run /\ s = Step THEN status ELSE runs[q].stages[s]
            /\ status = "success" =>
                 \/ Effect
                 \/ Step = "apply" /\ UNCHANGED <<config, store, count, history>>
      BY <2>3, StageRuns
    <3>2. CASE r = job.run /\ Step = "snapshot"
      <4>1. Effect
        BY <1>10, <2>1, <3>1, <3>2 DEF Stages
      <4>2. saved' = [saved EXCEPT ![job.run].snapshot = count.version]
        BY <3>2, <4>1, EffectCases DEF SnapshotStage
      <4> QED BY <1>1, <1>2, <1>3, <2>1, <3>2, <4>2
    <3>3. CASE ~(r = job.run /\ Step = "snapshot")
      <4>1. runs[r].stages["snapshot"] = "success"
        BY <1>10, <2>1, <3>1, <3>3 DEF Stages
      <4>2. saved'[r].snapshot = saved[r].snapshot
        <5>1. CASE UNCHANGED saved
          BY <5>1
        <5>2. CASE saved' = [saved EXCEPT ![job.run].backup = count.version]
          BY <1>1, <1>3, <2>1, <5>2
        <5>3. CASE r # job.run /\ saved' = [saved EXCEPT ![job.run].snapshot = count.version]
          BY <1>1, <1>3, <2>1, <5>3
        <5> QED BY <1>4, <2>3, <3>3, <5>1, <5>2, <5>3, StageHistory
      <4> QED BY <1>1, <1>2, <1>3, <2>1, <4>1, <4>2
    <3> QED BY <3>2, <3>3
  <2> QED BY <2>2, <2>3
<1>11. ASSUME NEW i \in DOMAIN snapshots'
       PROVE  snapshots'[i].id <= count'.snapshots
  <2>1. /\ \A k \in DOMAIN snapshots : snapshots[k].id <= count.snapshots /\ snapshots[k] \in Snapshot
        /\ count.snapshots \in Nat /\ count'.snapshots \in Nat /\ count.snapshots <= count'.snapshots
        /\ snapshots \in Seq(Snapshot)
    BY CountMoves, ElementOfSeq DEF Typed, Counted, StoresOK
  <2>2. \A k \in DOMAIN snapshots : snapshots[k].id \in Nat /\ snapshots[k].id <= count'.snapshots
    BY <2>1 DEF Snapshot
  <2>3. CASE UNCHANGED snapshots
    BY <2>2, <2>3
  <2>4. ASSUME NEW r \in 0..MaxRuns, count'.snapshots = count.snapshots + 1,
               snapshots' = Newest(Append(snapshots, [id |-> count.snapshots + 1, run |-> r, tree |-> tree]))
        PROVE  snapshots'[i].id <= count'.snapshots
    <3>1. \/ snapshots'[i] = [id |-> count.snapshots + 1, run |-> r, tree |-> tree]
          \/ \E k \in DOMAIN snapshots : snapshots'[i] = snapshots[k]
      BY <2>1, <2>4, SnapshotAdded DEF Typed
    <3> QED BY <2>1, <2>2, <2>4, <3>1
  <2> QED BY <2>3, <2>4, StoreMoves
<1> QED BY <1>2, <1>5, <1>6, <1>7, <1>8, <1>9, <1>10, <1>11 DEF Counted

\* The newest backup and the newest snapshot of a run are among them.
LEMMA LatestIn ==
  ASSUME NEW S, NEW s \in Seq(S), NEW r, OfRun(s, r) # {}
  PROVE  /\ Latest(OfRun(s, r)) \in DOMAIN s /\ s[Latest(OfRun(s, r))].run = r
         /\ s[Latest(OfRun(s, r))] \in S
<1>1. Len(s) \in Nat /\ DOMAIN s = 1..Len(s) /\ \A i \in DOMAIN s : s[i] \in S
  BY LenProperties, ElementOfSeq
<1>2. OfRun(s, r) \subseteq 1..Len(s)
  BY <1>1 DEF OfRun
<1>3. \E i \in OfRun(s, r) : \A k \in OfRun(s, r) : k <= i
  BY <1>1, <1>2, Greatest
<1>4. Latest(OfRun(s, r)) \in OfRun(s, r)
  BY Zenon, <1>3 DEF Latest
<1> QED BY <1>1, <1>4 DEF OfRun

\* No operation.
LEMMA NoJob ==
  ASSUME NEW held, NEW n \in Nat, NEW D
  PROVE  JobOK(Idle, held, n, D)
BY DEF JobOK, Idle

\* The same operation while others go on.
LEMMA SameJob ==
  ASSUME NEW held, NEW n \in Nat, NEW D, NEW m \in Nat, n <= m, NEW E, D \subseteq E,
         NEW j, JobOK(j, held, n, D)
  PROVE  JobOK(j, held, m, E)
<1>1. j.snap \in 0..m
  BY DEF JobOK
<1> QED BY <1>1 DEF JobOK

\* The operation goes on with what it holds.
Follows ==
  /\ job'.kind = job.kind /\ job'.run = job.run /\ job'.snap = job.snap
  /\ job'.want = job.want /\ job'.backup = job.backup

\* Setup keeps the operation in order.
LEMMA WorkingSetup ==
  ASSUME IInv, Typed, Setup, Next
  PROVE  JobOK(job', lock', count'.snapshots, DOMAIN runs') /\ lock' \in BOOLEAN /\ late' = late
<1> DEFINE n == count.snapshots
           m == count'.snapshots
           D == DOMAIN runs
           E == DOMAIN runs'
<1> SUFFICES JobOK(job', lock', m, E) /\ lock' \in BOOLEAN /\ late' = late
  OBVIOUS
<1>1. /\ n \in Nat /\ m \in Nat /\ n <= m /\ D \subseteq E /\ Shaped /\ lock \in BOOLEAN
      /\ JobOK(job, lock, n, D)
  <2>1. Len(runs') \in Nat /\ DOMAIN runs' = 1..Len(runs') /\ Len(runs) <= Len(runs')
    BY RunsMoves
  <2>2. Len(runs) \in Nat /\ DOMAIN runs = 1..Len(runs)
    BY RunsKnown
  <2> QED BY <2>1, <2>2, CountMoves DEF Typed, Counted, Working, IInv
<1> HIDE DEF n, m, D, E
<1>2. ASSUME job' = Idle
      PROVE  JobOK(job', lock', m, E)
  BY <1>1, <1>2, NoJob
<1>3. ASSUME InSetup("enter"), job' = Advance(job), lock' = lock
      PROVE  JobOK(job', lock', m, E)
  <2>1. /\ job'.kind = job.kind /\ job'.pc \in {"enter", "record"} /\ job'.run = job.run
        /\ job'.snap = job.snap /\ job' # Idle
    BY <1>1, <1>3 DEF Advance, Shaped, Fields, Idle, InSetup
  <2>2. job.snap \in 0..m
    BY <1>1 DEF JobOK
  <2> QED BY <1>1, <1>3, <2>1, <2>2 DEF JobOK, InSetup, SetupLabels, Idle
<1>4. ASSUME NEW resume \in BOOLEAN, StartSetup(resume)
      PROVE  JobOK(job', lock', m, E) /\ lock' \in BOOLEAN /\ late' = late
  <2>1. /\ job'.kind = "setup" /\ job'.pc = "review" /\ job'.run = 0 /\ job'.snap = 0 /\ lock' = TRUE
        /\ late' = late
    BY <1>4 DEF StartSetup, Idle
  <2>2. 0 \in 0..m
    BY <1>1
  <2> QED BY <2>1, <2>2 DEF JobOK, SetupLabels
<1>5. CASE Review
  <2>1. lock' = lock /\ late' = late /\ InSetup("review") /\ NewOrResumed(job'.resume)
    BY <1>5 DEF Review
  <2>2. PICK choice, r : r \in Runs /\ job' = [job EXCEPT !.pc = "enter", !.run = r, !.choice = choice,
                                                    !.resume = @ /\ choice = None]
    BY Zenon, <1>5 DEF Review
  <2>3. /\ job'.kind = "setup" /\ job'.pc = "enter" /\ job'.run = r /\ job'.snap = job.snap
    BY <1>1, <2>1, <2>2 DEF Shaped, Fields, InSetup
  <2>4. r # 0
    BY <2>2, BoundAssumption DEF Runs
  <2>5. r \in E
    <3>1. CASE job'.resume
      BY <1>1, <2>1, <2>3, <3>1 DEF NewOrResumed, Resumable, D
    <3>2. CASE ~job'.resume
      <4>1. r = Len(runs') /\ Len(runs') \in Nat /\ E = 1..Len(runs')
        BY <2>1, <2>3, <3>2, RunsMoves DEF NewOrResumed, E
      <4>2. r \in Nat
        BY <2>2, BoundAssumption DEF Runs
      <4> QED BY <2>4, <4>1, <4>2
    <3> QED BY <3>1, <3>2
  <2>6. job'.snap \in 0..m /\ lock = TRUE
    BY <1>1, <2>1, <2>3 DEF JobOK, InSetup, Idle
  <2> QED BY <1>1, <2>1, <2>3, <2>4, <2>5, <2>6 DEF JobOK, SetupLabels
<1>6. CASE LeaveReview \/ CancelRun \/ FailOutside \/ FinishRun
  BY <1>2, <1>6 DEF LeaveReview, CancelRun, FailOutside, FinishRun, Release
<1>7. CASE ChoosePolicy \/ Preserve
  BY <1>1, <1>3, <1>7 DEF ChoosePolicy, Preserve
<1>8. CASE SkipStage
  BY <1>1, <1>3, <1>8 DEF SkipStage, AtStage
<1>9. CASE Stage
  <2>1. /\ late' = late /\ InSetup("enter")
        /\ \/ job' = Advance(job) /\ lock' = lock
           \/ job' = Idle
    BY <1>9, StageWork DEF AtStage
  <2>2. lock' \in BOOLEAN
    BY <1>1, <1>9 DEF Stage, DoStage, KeepProtected, FailStage, StopInStage, Release
  <2> QED BY <1>2, <1>3, <2>1, <2>2
<1>10. CASE RecordBaseline
  <2>1. lock' = lock /\ late' = late /\ job.kind = "setup" /\ job.pc = "record"
        /\ job' = [job EXCEPT !.pc = "finish"]
    BY <1>10 DEF RecordBaseline, InSetup
  <2>2. /\ job'.kind = "setup" /\ job'.pc = "finish" /\ job'.run = job.run /\ job'.snap = job.snap
    BY <1>1, <2>1 DEF Shaped, Fields
  <2>3. job'.snap \in 0..m /\ lock = TRUE
    BY <1>1, <2>1, <2>2 DEF JobOK, Idle
  <2> QED BY <1>1, <2>1, <2>2, <2>3 DEF JobOK, SetupLabels
<1> QED BY <1>4, <1>5, <1>6, <1>7, <1>8, <1>9, <1>10 DEF Setup, Stage

\* And so do the operations of recovery and the others.
LEMMA WorkingRest ==
  ASSUME IInv, Typed, Recovery \/ Others, Next
  PROVE  JobOK(job', lock', count'.snapshots, DOMAIN runs') /\ lock' \in BOOLEAN
         /\ (late' = late \/ late' = None \/ late'.run \in DOMAIN runs)
<1> DEFINE n == count.snapshots
           m == count'.snapshots
           D == DOMAIN runs
           E == DOMAIN runs'
           LateKept == late' = late \/ late' = None \/ late'.run \in D
<1> SUFFICES JobOK(job', lock', m, E) /\ lock' \in BOOLEAN /\ LateKept
  OBVIOUS
<1>0. [live |-> live, baseline |-> baseline, sync |-> sync] \in Before
  BY DEF Typed, ConfigOK, Before
<1>1. /\ n \in Nat /\ m \in Nat /\ n <= m /\ D \subseteq E /\ Shaped /\ lock \in BOOLEAN /\ StoresOK
      /\ JobOK(job, lock, n, D)
  <2>1. Len(runs') \in Nat /\ DOMAIN runs' = 1..Len(runs') /\ Len(runs) <= Len(runs')
    BY RunsMoves
  <2>2. Len(runs) \in Nat /\ DOMAIN runs = 1..Len(runs)
    BY RunsKnown
  <2> QED BY <2>1, <2>2, CountMoves DEF Typed, Counted, Working, IInv
<1>2. \A i \in DOMAIN snapshots : snapshots[i] \in Snapshot /\ snapshots[i].id <= n
  BY <1>1, ElementOfSeq DEF StoresOK, Typed, Counted
<1>3. \A i \in DOMAIN backups : backups[i] \in Backup
  BY <1>1, ElementOfSeq DEF StoresOK
<1>4. 0 \in 0..m /\ job.snap \in 0..m /\ job.snap \in 0..n
  BY <1>1 DEF JobOK
<1>5. \A i \in DOMAIN snapshots :
        /\ snapshots[i].id \in 0..m /\ snapshots[i].id # 0 /\ snapshots[i].tree \in Trees
  BY <1>1, <1>2 DEF Snapshot
<1>6. D = 1..Len(runs) /\ Len(runs) \in Nat
  BY RunsKnown
<1> HIDE DEF n, m, D, E
<1>7. CASE StartControl
  <2>1. PICK r \in D :
          LET B == OfRun(backups, r)
              S == OfRun(snapshots, r)
              j == [Idle EXCEPT !.kind = "control", !.run = r]
          IN job' = IF B = {} THEN [j EXCEPT !.pc = "release", !.ok = FALSE]
                    ELSE IF S = {} THEN [j EXCEPT !.pc = "state", !.backup = backups[Latest(B)]]
                    ELSE [j EXCEPT !.pc = "expect", !.backup = backups[Latest(B)],
                                   !.snap = snapshots[Latest(S)].id, !.want = snapshots[Latest(S)].tree]
    BY <1>7 DEF StartControl, D
  <2>2. lock' = TRUE /\ LateKept
    BY <1>7 DEF StartControl
  <2>3. job'.kind = "control" /\ job'.run = r /\ r # 0 /\ r \in E
    BY <1>1, <1>6, <2>1 DEF Idle
  <2>4. CASE OfRun(backups, r) = {}
    <3>1. job'.pc = "release" /\ job'.snap = 0
      BY <2>1, <2>4 DEF Idle
    <3> QED BY <1>4, <2>2, <2>3, <3>1 DEF JobOK, ControlLabels
  <2>5. OfRun(backups, r) # {} => backups[Latest(OfRun(backups, r))] \in Backup
    BY <1>1, LatestIn DEF StoresOK
  <2>6. CASE OfRun(backups, r) # {} /\ OfRun(snapshots, r) = {}
    <3>1. job'.pc = "state" /\ job'.snap = 0 /\ job'.backup = backups[Latest(OfRun(backups, r))]
      BY <2>1, <2>6 DEF Idle
    <3> QED BY <1>4, <2>2, <2>3, <2>5, <2>6, <3>1 DEF JobOK, ControlLabels
  <2>7. CASE OfRun(backups, r) # {} /\ OfRun(snapshots, r) # {}
    <3>1. /\ job'.pc = "expect" /\ job'.backup = backups[Latest(OfRun(backups, r))]
          /\ job'.snap = snapshots[Latest(OfRun(snapshots, r))].id
          /\ job'.want = snapshots[Latest(OfRun(snapshots, r))].tree
      BY <2>1, <2>7 DEF Idle
    <3>2. Latest(OfRun(snapshots, r)) \in DOMAIN snapshots
      BY <1>1, <2>7, LatestIn DEF StoresOK
    <3> QED BY <1>5, <2>2, <2>3, <2>5, <2>7, <3>1, <3>2 DEF JobOK, ControlLabels
  <2> QED BY <2>4, <2>6, <2>7
<1>8. CASE StartRollback
  <2>1. PICK i \in DOMAIN snapshots :
          job' = [Idle EXCEPT !.kind = "rollback", !.pc = "expect",
                              !.snap = snapshots[i].id, !.want = snapshots[i].tree]
    BY <1>8 DEF StartRollback
  <2>2. lock' = TRUE /\ LateKept
    BY <1>8 DEF StartRollback
  <2>3. /\ job'.kind = "rollback" /\ job'.pc = "expect" /\ job'.run = 0
        /\ job'.snap = snapshots[i].id /\ job'.want = snapshots[i].tree
    BY <2>1 DEF Idle
  <2> QED BY <1>5, <2>2, <2>3 DEF JobOK, RollbackLabels
<1>9. CASE StartRestore
  <2>1. PICK i \in DOMAIN backups :
          job' = [Idle EXCEPT !.kind = "restore", !.pc = "state", !.backup = backups[i]]
    BY <1>9 DEF StartRestore
  <2>2. lock' = TRUE /\ LateKept
    BY <1>9 DEF StartRestore
  <2>3. /\ job'.kind = "restore" /\ job'.pc = "state" /\ job'.run = 0 /\ job'.snap = 0
        /\ job'.backup = backups[i]
    BY <2>1 DEF Idle
  <2> QED BY <1>3, <1>4, <2>2, <2>3 DEF JobOK
<1>10. ASSUME Follows, lock' = lock, late' = late, job.pc \notin {"idle", "release"},
              \/ job.kind = "control" /\ job'.pc \in ControlLabels
              \/ job.kind = "rollback" /\ job'.pc \in RollbackLabels
              \/ job.kind = "restore" /\ job'.pc \in {"state", "live", "release"},
              job'.pc \in {"expect", "presnap", "guard", "install", "meta", "apply"} =>
                job.pc \in {"expect", "presnap", "guard", "install", "meta", "apply"},
              job'.pc = "live" => job'.before \in Before
       PROVE  JobOK(job', lock', m, E) /\ lock' \in BOOLEAN /\ LateKept
  <2>1. /\ job # Idle /\ job'.kind = job.kind /\ job'.run = job.run /\ job'.snap = job.snap
        /\ job'.want = job.want /\ job'.backup = job.backup
    BY <1>10 DEF Idle, Follows
  <2> QED BY <1>1, <1>4, <1>10, <2>1 DEF JobOK
<1>12. /\ job.pc \in {"presnap", "expect"} => job.kind \in {"control", "rollback"}
       /\ job.pc \in {"guard", "meta", "apply"} => job.kind = "rollback"
       /\ job.pc = "install" => job.kind \in {"control", "rollback"}
       /\ job.pc \in {"state", "live"} => job.kind \in {"control", "restore"}
  BY <1>1 DEF JobOK, Idle, SetupLabels, ControlLabels, RollbackLabels
<1>13. CASE Expect
  <2>1. /\ Follows /\ lock' = lock /\ late' = late
        /\ job.pc = "expect" /\ job'.pc \in {"presnap", "release"}
    BY <1>1, <1>13 DEF Expect, Shaped, Fields, Follows, InJob, FromRun
  <2> QED BY <1>10, <1>12, <2>1 DEF ControlLabels, RollbackLabels
<1>14. CASE PreSnapshot
  <2>1. /\ Follows /\ lock' = lock /\ late' = late
        /\ job.pc = "presnap" /\ job'.pc = IF job.kind = "control" THEN "install" ELSE "guard"
    BY <1>1, <1>14 DEF PreSnapshot, Shaped, Fields, Follows, InJob, FromRun
  <2> QED BY <1>10, <1>12, <2>1 DEF ControlLabels, RollbackLabels
<1>15. CASE Guard
  <2>1. /\ Follows /\ lock' = lock /\ late' = late
        /\ job.pc = "guard" /\ job'.pc = "install"
    BY <1>1, <1>15 DEF Guard, Shaped, Fields, Follows, InJob, FromRun
  <2> QED BY <1>10, <1>12, <2>1 DEF ControlLabels, RollbackLabels
<1>16. CASE Install
  <2>1. /\ Follows /\ lock' = lock /\ late' = late
        /\ job.pc = "install" /\ job'.pc = IF job.kind = "control" THEN "record" ELSE "meta"
    BY <1>1, <1>16 DEF Install, Shaped, Fields, Follows, InJob, FromRun
  <2> QED BY <1>10, <1>12, <2>1 DEF ControlLabels, RollbackLabels
<1>17. CASE Meta
  <2>1. /\ Follows /\ lock' = lock /\ late' = late
        /\ job.pc = "meta" /\ job'.pc = "apply"
    BY <1>1, <1>17 DEF Meta, Shaped, Fields, Follows, InJob, FromRun
  <2> QED BY <1>10, <1>12, <2>1 DEF ControlLabels, RollbackLabels
<1>18. CASE ApplySnapshot
  <2>1. /\ Follows /\ lock' = lock /\ late' = late
        /\ job.pc = "apply" /\ job'.pc = "record"
    BY <1>1, <1>18 DEF ApplySnapshot, Shaped, Fields, Follows, InJob, FromRun
  <2> QED BY <1>10, <1>12, <2>1 DEF ControlLabels, RollbackLabels
<1>19. CASE RecordRollback
  <2>1. /\ Follows /\ lock' = lock /\ late' = late
        /\ job.pc = "record" /\ job.kind \in {"control", "rollback"}
        /\ job'.pc = IF job.kind = "control" THEN "state" ELSE "release"
    BY <1>1, <1>19 DEF RecordRollback, Shaped, Fields, Follows, InJob, FromRun
  <2> QED BY <1>10, <1>12, <2>1 DEF ControlLabels, RollbackLabels
<1>20. CASE RestoreState
  <2>1. /\ Follows /\ lock' = lock /\ late' = late
        /\ job.pc = "state" /\ job'.pc = "live" /\ job'.before \in Before
    BY <1>0, <1>1, <1>20 DEF RestoreState, Shaped, Fields, Follows, InJob, FromRun
  <2> QED BY <1>10, <1>12, <2>1 DEF ControlLabels, RollbackLabels
<1>21. CASE RestoreLive
  <2>1. /\ Follows /\ lock' = lock /\ late' = late
        /\ job.pc = "live" /\ job'.pc = "release"
    BY <1>1, <1>21 DEF RestoreLive, Shaped, Fields, Follows, InJob, FromRun
  <2> QED BY <1>10, <1>12, <2>1 DEF ControlLabels, RollbackLabels
<1>22. CASE RestoreFails
  <2>1. /\ Follows /\ lock' = lock /\ late' = late
        /\ job.pc = "live" /\ job'.pc = "release"
    BY <1>1, <1>22 DEF RestoreFails, Shaped, Fields, Follows, InJob, FromRun
  <2> QED BY <1>10, <1>12, <2>1 DEF ControlLabels, RollbackLabels
<1>23. CASE RollbackFails
  <2>1. /\ Follows /\ lock' = lock /\ late' = late
        /\ job.pc \in {"presnap", "guard", "install", "apply", "record", "state"}
        /\ job.kind \in {"control", "rollback", "restore"} /\ job'.pc = "release"
    BY <1>1, <1>23 DEF RollbackFails, Shaped, Fields, Follows, InJob, FromRun
  <2> QED BY <1>10, <1>12, <2>1 DEF ControlLabels, RollbackLabels
<1>24. CASE ReleaseJob
  <2>1. job' = Idle /\ lock' = FALSE /\ job.pc = "release"
    BY <1>24 DEF ReleaseJob, Release, InJob
  <2>2. LateKept
    <3>1. CASE FromRun
      <4>1. late'.run = job.run
        BY <1>24, <3>1 DEF ReleaseJob
      <4>2. job.run \in D
        BY <1>1, <3>1 DEF JobOK, FromRun
      <4> QED BY <4>1, <4>2
    <3>2. CASE ~FromRun
      BY <1>24, <3>2 DEF ReleaseJob
    <3> QED BY <3>1, <3>2
  <2> QED BY <1>1, <2>1, <2>2, NoJob
<1>25. ASSUME UNCHANGED <<job, lock>>, late' = late \/ late' = None
      PROVE  JobOK(job', lock', m, E) /\ lock' \in BOOLEAN /\ LateKept
  BY <1>1, <1>25, SameJob
<1>26. CASE LateStatus \/ TakeSnapshot \/ EditLive \/ Deliver
  BY <1>25, <1>26 DEF LateStatus, TakeSnapshot, EditLive, Deliver
<1>27. CASE Stop
  BY <1>1, <1>27, NoJob DEF Stop
<1>28. CASE RemoveLock
  BY <1>1, <1>28, NoJob DEF RemoveLock
<1> QED BY <1>7, <1>8, <1>9, <1>13, <1>14, <1>15, <1>16, <1>17, <1>18, <1>19, <1>20, <1>21, <1>22, <1>23, <1>24, <1>26, <1>27, <1>28 DEF Recovery, Others

\* The operations keep to their places.
LEMMA WorkingStep ==
  ASSUME IInv, Typed, Next
  PROVE  Working'
<1>1. DOMAIN runs \subseteq DOMAIN runs'
  <2>1. Len(runs') \in Nat /\ DOMAIN runs' = 1..Len(runs') /\ Len(runs) <= Len(runs')
    BY RunsMoves
  <2> QED BY <2>1, RunsKnown
<1>2. late # None => late.run \in DOMAIN runs
  BY DEF Typed, Working
<1>3. JobOK(job', lock', count'.snapshots, DOMAIN runs') /\ lock' \in BOOLEAN
      /\ (late' = late \/ late' = None \/ late'.run \in DOMAIN runs)
  <2>1. CASE Setup
    BY <2>1, WorkingSetup
  <2>2. CASE Recovery \/ Others
    BY <2>2, WorkingRest
  <2> QED BY <2>1, <2>2 DEF Next
<1> QED BY <1>1, <1>2, <1>3 DEF Working

\* Everything has its type, in every state.
LEMMA TypedStep ==
  ASSUME IInv, Typed, Next
  PROVE  Typed'
BY ConfigStep, StoresStep, CountedStep, WorkingStep, RunsMoves DEF Typed

\* Initially nothing is recorded.
LEMMA InitTyped == Init => Typed
<1> SUFFICES ASSUME Init PROVE Typed
  OBVIOUS
<1>1. /\ 0 \in Contents /\ 1 \in Contents /\ 2 \in Contents /\ Contents \subseteq Nat /\ LastVersion \in Contents
      /\ 0 <= MaxRuns /\ 0 <= Keep /\ MaxRuns \in Nat
  BY BoundAssumption, KeepAssumption DEF Contents, LastVersion
<1>2. Empty \in Trees /\ [cfg |-> 2, extra |-> 2, stamp |-> 1] \in Trees
  BY <1>1 DEF Empty, Trees
<1>3. ConfigOK
  BY <1>1, <1>2 DEF Init, ConfigOK, Optionally, SyncState
<1>4. /\ runs \in Seq(RunRecord) /\ Len(runs) = 0 /\ DOMAIN runs = {}
      /\ backups \in Seq(Backup) /\ Len(backups) = 0 /\ DOMAIN backups = {}
      /\ snapshots \in Seq(Snapshot) /\ Len(snapshots) = 0 /\ DOMAIN snapshots = {}
  BY DEF Init
<1>5. StoresOK
  BY <1>1, <1>4 DEF Init, StoresOK
<1>6. Counted
  BY <1>1, <1>4 DEF Init, Counted, Optionally
<1>7. JobOK(job, lock, count.snapshots, DOMAIN runs) /\ lock \in BOOLEAN /\ late = None
  BY NoJob DEF Init
<1> QED BY <1>1, <1>3, <1>4, <1>5, <1>6, <1>7 DEF Typed, Working

\* A step that changes nothing keeps the types.
LEMMA TypedStays ==
  ASSUME Typed, UNCHANGED vars
  PROVE  Typed'
BY DEF Typed, ConfigOK, StoresOK, Counted, Working, vars, config, store, history, fixed

\* What the types imply.
LEMMA TypesFollow == IInv /\ Typed => TypeOK
<1> SUFFICES ASSUME IInv, Typed PROVE TypeOK
  OBVIOUS
<1>1. runs \in Seq(RunRecord) /\ Len(runs) <= MaxRuns
  BY DEF IInv, RunsOK, Typed
<1>2. ASSUME job.kind = "setup", job.pc = "enter"
      PROVE  job.at \in DOMAIN MySteps
  <2>1. job.at \in 1..Len(MySteps)
    BY <1>2 DEF IInv, Chosen, InSetup
  <2>2. DOMAIN MySteps = 1..Len(MySteps)
    BY StepsInOrder DEF InOrder, MySteps
  <2> QED BY <2>1, <2>2
<1>3. job # Idle => lock
  BY DEF Typed, Working, JobOK
<1>4. job.run # 0 => job.run \in DOMAIN runs
  BY DEF Typed, Working, JobOK
<1> QED BY <1>1, <1>2, <1>3, <1>4 DEF TypeOK, Typed, ConfigOK, StoresOK, Working

\* The configuration, the run records and what recovery keeps have their types: versions
\* stay within those that were written, no more copies are kept than maintenance.snapshot_keep
\* says, an operation holds operation.lock and works on a run that exists, and an attempt
\* stands at a step of its run.
THEOREM TypesKept == Spec => []TypeOK
<1>1. Init => IInv /\ Typed
  BY InitInv, InitTyped
<1>2. IInv /\ Typed /\ [Next]_vars => IInv' /\ Typed'
  BY StepInv, TypedStep, TypedStays
<1>3. IInv /\ Typed => TypeOK
  BY TypesFollow
<1> QED BY <1>1, <1>2, <1>3, PTL DEF Spec

-----------------------------------------------------------------------------
(* The order of a run's stages *)

\* Places of steps are numbers, and tell the required stages and the first three apart.
LEMMA PlaceOf ==
  /\ \A s \in AllSteps : Place(s) \in 1..11
  /\ \A s \in AllSteps, q \in Required : Place(s) = Place(q) => s = q
  /\ Required \subseteq Stages /\ Stages \subseteq AllSteps /\ Changing \subseteq Stages
  /\ \A s \in Stages \ {"backup"} : Place("backup") < Place(s)
  /\ \A s \in Changing : Place("snapshot") < Place(s)
  /\ \A s \in Stages : Place(s) >= 2
  /\ \A s \in Required : Place(s) < Place("scheduler") /\ s # "scheduler"
BY Placed DEF AllSteps, Stages, Required, Changing

\* Where an attempt stands, and where it stands when it went on.
LEMMA Onwards ==
  ASSUME IInv, InSetup("enter"), job' = Advance(job),
         runs'[job.run].policy = My.policy, runs'[job.run].mode = My.mode
  PROVE  /\ job'.kind = "setup" /\ job'.run = job.run /\ job'.resume = job.resume
         /\ Step \in AllSteps
         /\ \/ /\ job'.pc = "enter" /\ Step' \in AllSteps /\ Place(Step) < Place(Step')
               /\ \A s \in Required : Place(s) < Place(Step') => Place(s) <= Place(Step)
               /\ 8 < Place(Step') => 8 <= Place(Step)
            \/ job'.pc = "record" /\ Step = "scheduler"
<1> DEFINE t == MySteps
           i == job.at
<1>1. /\ InOrder(t, My.mode) /\ i \in 1..Len(t) /\ Step = t[i]
  BY StepsInOrder DEF MySteps, IInv, Chosen, Step
<1>2. /\ job'.run = job.run /\ job'.kind = "setup" /\ job'.choice = job.choice
      /\ job'.at = i + 1 /\ job'.resume = job.resume
      /\ job'.pc = IF i < Len(t) THEN "enter" ELSE "record"
  BY DEF IInv, Shaped, Fields, Advance, InSetup
<1>3. MySteps' = t
  BY <1>2 DEF MySteps, My
<1>4. Step' = t[i + 1]
  BY <1>2, <1>3 DEF Step
<1> HIDE DEF t, i
<1>5. CASE i < Len(t)
  <2>1. i \in 1..Len(t) - 1 /\ i + 1 \in 1..Len(t)
    BY <1>1, <1>5 DEF InOrder
  <2> QED BY <1>1, <1>2, <1>4, <1>5, <2>1 DEF InOrder
<1>6. CASE ~(i < Len(t))
  <2>1. Len(t) \in Nat /\ t[Len(t)] = "scheduler" /\ t[i] \in AllSteps
    BY <1>1 DEF InOrder
  <2>2. i \in 1..Len(t)
    BY <1>1
  <2>3. i = Len(t)
    BY <1>6, <2>1, <2>2
  <2> QED BY <1>1, <1>2, <1>6, <2>1, <2>3
<1> QED BY <1>5, <1>6

\* A stage that does its work was not completed before, but for the one that always runs.
LEMMA Fresh ==
  ASSUME IInv, Ordered, Stage
  PROVE  My.stages[Step] # "success" \/ Step = "scheduler"
<1>1. InSetup("enter") /\ Step \in Stages /\ ~Done
  BY StageRuns, StageWork
<1>2. CASE job.resume
  BY <1>1, <1>2 DEF Done, AlwaysRun
<1>3. CASE ~job.resume
  <2>1. Place(Step) \in 1..11
    BY <1>1, PlaceOf
  <2>2. My.stages[Step] # "pending" => Place(Step) < Place(Step)
    BY <1>1, <1>3 DEF Ordered, JobOrdered
  <2> QED BY <2>1, <2>2
<1> QED BY <1>2, <1>3

\* A run that was not there is new.
LEMMA OldOrNew ==
  ASSUME IInv, Typed, Next
  PROVE  /\ DOMAIN runs' \subseteq Runs /\ DOMAIN runs \subseteq DOMAIN runs'
         /\ \A r \in DOMAIN runs' : r \in DOMAIN runs \/ runs'[r] = NewRun
<1>1. DOMAIN runs' = 1..Len(runs') /\ Len(runs') \in Nat /\ Len(runs) <= Len(runs') /\ Len(runs') <= MaxRuns
  BY RunsMoves
<1>2. Len(runs) \in 0..MaxRuns /\ DOMAIN runs = 1..Len(runs)
  BY RunsKnown
<1>3. DOMAIN runs' \subseteq Runs /\ DOMAIN runs \subseteq DOMAIN runs'
  BY <1>1, <1>2, BoundAssumption DEF Runs
<1>4. CASE DOMAIN runs' = DOMAIN runs
  BY <1>3, <1>4
<1>5. CASE Len(runs') = Len(runs) + 1 /\ runs'[Len(runs')] = NewRun
  BY <1>1, <1>2, <1>3, <1>5
<1> QED BY <1>4, <1>5, RunsMoves

\* What was found is found for good.
LEMMA FoundStays ==
  ASSUME IInv, Typed, Next, NEW r \in Runs, found[r] # None
  PROVE  found'[r] = found[r]
<1>1. found \in [Runs -> Optionally(Found)]
  BY DEF Typed, Counted
<1>2. CASE UNCHANGED found
  BY <1>2
<1>3. CASE found' = [found EXCEPT ![job.run] = IF @ = None
                       THEN [live |-> live, tree |-> tree, baseline |-> baseline] ELSE @]
  BY <1>1, <1>3
<1> QED BY <1>2, <1>3, HistoryFoot, StageWork, StageHistory

\* The record of a run keeps its order when a stage of it is marked.
LEMMA MarkOrdered ==
  ASSUME IInv, Typed, Ordered, Stage, Next
  PROVE  RunOrdered(runs'[job.run].stages, found'[job.run])
<1> DEFINE r == job.run
           old == runs[r].stages
           new == runs'[r].stages
           X == Step
<1>1. /\ InSetup("enter") /\ r \in DOMAIN runs /\ X \in Stages /\ r \in Runs
  BY StageRuns, RunsKnown
<1>2. PICK status \in {"begun", "success"} :
         /\ \A s \in Stages : new[s] = IF s = X THEN status ELSE old[s]
         /\ status = "success" =>
              \/ Effect
              \/ X = "apply"
  BY <1>1, StageRuns
<1>3. old[X] # "success" \/ X = "scheduler"
  BY Fresh DEF My
<1>4. RunOrdered(old, found[r])
  BY <1>1 DEF Ordered
<1>5. \A s \in Required : Place(s) < Place(X) => old[s] = "success"
  BY <1>1 DEF Ordered, JobOrdered, My
<1>6. {"backup", "snapshot"} \subseteq Required \cap Stages
  BY DEF Required, Stages
<1>7. X # "backup" => old["backup"] = "success"
  BY <1>1, <1>5, <1>6, PlaceOf
<1>8. X \in Changing => old["snapshot"] = "success" /\ X # "snapshot"
  BY <1>1, <1>5, <1>6, PlaceOf DEF Changing
<1>9. X = "backup" /\ status = "success" => found'[r] # None
  <2> SUFFICES ASSUME X = "backup", status = "success"
               PROVE  found'[r] # None
    OBVIOUS
  <2>1. BackupStage
    BY <1>2, EffectCases
  <2>2. [live |-> live, tree |-> tree, baseline |-> baseline] # None
    BY NoneAssumption DEF Typed, ConfigOK, Optionally
  <2>3. found \in [Runs -> Optionally(Found)]
    BY DEF Typed, Counted
  <2> QED BY <1>1, <2>1, <2>2, <2>3 DEF BackupStage
<1>10. found[r] # None => found'[r] # None
  BY <1>1, FoundStays
<1> HIDE DEF r, old, new, X
<1>11. ASSUME NEW s \in Stages \ {"backup"}, new[s] # "pending"
       PROVE  new["backup"] = "success"
  <2>1. CASE X = "backup"
    BY <1>2, <1>3, <1>4, <1>11, <2>1 DEF RunOrdered, Stages
  <2>2. CASE X # "backup"
    BY <1>2, <1>6, <1>7, <2>2
  <2> QED BY <2>1, <2>2
<1>12. ASSUME NEW s \in Changing, new[s] # "pending"
       PROVE  new["snapshot"] = "success"
  <2>1. s \in Stages /\ s # "snapshot"
    BY DEF Changing, Stages
  <2>2. CASE X = "snapshot"
    BY <1>2, <1>3, <1>4, <1>12, <2>1, <2>2 DEF RunOrdered
  <2>3. CASE X # "snapshot" /\ X = s
    BY <1>2, <1>6, <1>8, <2>3
  <2>4. CASE X # "snapshot" /\ X # s
    BY <1>2, <1>4, <1>6, <1>12, <2>1, <2>4 DEF RunOrdered
  <2> QED BY <2>2, <2>3, <2>4
<1>13. new["backup"] = "success" => found'[r] # None
  BY <1>2, <1>4, <1>6, <1>9, <1>10 DEF RunOrdered
<1>14. RunOrdered(new, found'[r])
  BY <1>11, <1>12, <1>13 DEF RunOrdered
<1> QED BY <1>14 DEF r, new

\* The records of all runs keep their order.
LEMMA RunsOrderedStep ==
  ASSUME IInv, Typed, Ordered, Next
  PROVE  \A r \in DOMAIN runs' : RunOrdered(runs'[r].stages, found'[r])
<1>1. /\ DOMAIN runs \subseteq Runs
      /\ \A r \in DOMAIN runs' : r \in DOMAIN runs \/ runs'[r] = NewRun
  BY OldOrNew, RunsKnown
<1>2. ASSUME NEW r \in DOMAIN runs, runs'[r].stages = runs[r].stages
      PROVE  RunOrdered(runs'[r].stages, found'[r])
  BY <1>1, <1>2, FoundStays DEF Ordered, RunOrdered
<1>3. ASSUME NEW r, runs'[r] = NewRun
      PROVE  RunOrdered(runs'[r].stages, found'[r])
  <2>1. \A s \in Stages : NewRun.stages[s] = "pending"
    BY DEF NewRun
  <2> QED BY <1>3, <2>1 DEF RunOrdered, Stages, Changing
<1>4. CASE Stage
  <2>1. PICK status \in {"begun", "success"} :
          \A r \in DOMAIN runs, s \in Stages :
            runs'[r].stages[s] = IF r = job.run /\ s = Step THEN status ELSE runs[r].stages[s]
    BY <1>4, StageRuns
  <2>2. DOMAIN runs' = DOMAIN runs
    BY <1>4, StageRuns
  <2>3. ASSUME NEW r \in DOMAIN runs, r # job.run
        PROVE  RunOrdered(runs'[r].stages, found'[r])
    <3>1. \A s \in Stages : runs'[r].stages[s] = runs[r].stages[s]
      BY <2>1, <2>3
    <3>2. RunOrdered(runs[r].stages, found[r]) /\ (found[r] # None => found'[r] # None)
      BY <1>1, FoundStays DEF Ordered
    <3> QED BY <3>1, <3>2, PlaceOf DEF RunOrdered, Stages
  <2> QED BY <1>4, <2>2, <2>3, MarkOrdered
<1>5. CASE \A r \in DOMAIN runs : runs'[r].stages = runs[r].stages
  BY <1>1, <1>2, <1>3, <1>5
<1> QED BY <1>4, <1>5, RunsMoves

\* An attempt that stands before a stage or records its end has come there by going on, or
\* only others moved.
LEMMA JobFoot ==
  ASSUME IInv, Typed, Next, job'.kind = "setup", job'.pc # "review"
  PROVE  \/ job' = job /\ (LateStatus \/ EditLive \/ Deliver)
         \/ Review \/ ChoosePolicy \/ Preserve \/ SkipStage \/ RecordBaseline
         \/ Stage /\ job' = Advance(job)
<1>1. Idle.kind # "setup"
  BY DEF Idle
<1>2. Shaped /\ (job = Idle \/ job.kind # "setup" \/ job.pc \in SetupLabels)
  BY DEF IInv, Typed, Working, JobOK
<1>3. CASE Setup
  <2>1. ASSUME NEW resume \in BOOLEAN, StartSetup(resume)
        PROVE  FALSE
    BY <2>1 DEF StartSetup, Idle
  <2>2. CASE LeaveReview \/ CancelRun \/ FailOutside \/ FinishRun
    BY <1>1, <2>2 DEF LeaveReview, CancelRun, FailOutside, FinishRun, Release
  <2>3. CASE Stage
    BY <1>1, <2>3, StageWork
  <2> QED BY <1>3, <2>1, <2>2, <2>3 DEF Setup, Stage
<1>4. CASE Recovery
  <2>1. CASE StartControl
    <3>1. PICK r \in DOMAIN runs :
          LET B == OfRun(backups, r)
              S == OfRun(snapshots, r)
              j == [Idle EXCEPT !.kind = "control", !.run = r]
          IN job' = IF B = {} THEN [j EXCEPT !.pc = "release", !.ok = FALSE]
                    ELSE IF S = {} THEN [j EXCEPT !.pc = "state", !.backup = backups[Latest(B)]]
                    ELSE [j EXCEPT !.pc = "expect", !.backup = backups[Latest(B)],
                                   !.snap = snapshots[Latest(S)].id, !.want = snapshots[Latest(S)].tree]
      BY <2>1 DEF StartControl
    <3>2. job'.kind = "control"
      BY <3>1 DEF Idle
    <3> QED BY <3>2
  <2>2. CASE StartRollback
    <3>1. job'.kind = "rollback"
      BY <2>2 DEF StartRollback, Idle
    <3> QED BY <3>1
  <2>3. CASE StartRestore
    <3>1. job'.kind = "restore"
      BY <2>3 DEF StartRestore, Idle
    <3> QED BY <3>1
  <2>4. CASE ReleaseJob
    BY <1>1, <2>4 DEF ReleaseJob, Release
  <2>5. CASE TakeSnapshot
    BY <1>1, <2>5 DEF TakeSnapshot
  <2>6. CASE RecordRollback \/ RollbackFails
    <3>1. job'.kind = job.kind
      BY <1>2, <2>6 DEF RecordRollback, RollbackFails, Shaped, Fields
    <3> QED BY <2>6, <3>1 DEF RecordRollback, RollbackFails
  <2>7. CASE Expect \/ PreSnapshot \/ Guard \/ Install \/ Meta \/ ApplySnapshot \/ RestoreState \/ RestoreLive \/ RestoreFails
    <3>1. job'.kind = job.kind /\ job.pc \notin SetupLabels /\ job.pc # "idle"
      BY <1>2, <2>7 DEF Expect, PreSnapshot, Guard, Install, Meta, ApplySnapshot, RestoreState, RestoreLive,
         RestoreFails, Shaped, Fields, InJob, SetupLabels
    <3> QED BY <1>1, <1>2, <3>1 DEF Idle
  <2>8. CASE LateStatus
    BY <2>8 DEF LateStatus
  <2> QED BY <1>4, <2>1, <2>2, <2>3, <2>4, <2>5, <2>6, <2>7, <2>8 DEF Recovery
<1>5. CASE Others
  BY <1>1, <1>5 DEF Others, EditLive, Deliver, Stop, RemoveLock
<1> QED BY <1>3, <1>4, <1>5 DEF Next

\* The attempt that goes on has completed what it must have completed by then.
LEMMA PassedOrdered ==
  ASSUME IInv, JobOrdered, InSetup("enter"), job' = Advance(job),
         runs'[job.run].policy = My.policy, runs'[job.run].mode = My.mode,
         \A s \in Stages : s # Step => runs'[job.run].stages[s] = My.stages[s],
         Step \in Required => runs'[job.run].stages[Step] = "success",
         Step \in {"capture", "restore"} => runs'[job.run].stages[Step] # "pending"
  PROVE  JobOrdered'
<1> DEFINE old == My.stages
           new == runs'[job.run].stages
<1>1. /\ job'.kind = "setup" /\ job'.run = job.run /\ job'.resume = job.resume
      /\ Step \in AllSteps
      /\ \/ /\ job'.pc = "enter" /\ Step' \in AllSteps /\ Place(Step) < Place(Step')
            /\ \A s \in Required : Place(s) < Place(Step') => Place(s) <= Place(Step)
            /\ 8 < Place(Step') => 8 <= Place(Step)
         \/ job'.pc = "record" /\ Step = "scheduler"
  BY Onwards
<1>2. My'.stages = new /\ My'.mode = My.mode
  BY <1>1 DEF My
<1>3. /\ \A s \in Required : Place(s) < Place(Step) => old[s] = "success"
      /\ ~job.resume => \A s \in Stages : old[s] # "pending" => Place(s) < Place(Step)
      /\ 8 < Place(Step) => old[ExtraStage(My.mode)] # "pending"
  BY DEF JobOrdered
<1>4. /\ \A s \in Stages : s # Step => new[s] = old[s]
      /\ Step \in Required => new[Step] = "success"
      /\ Step \in {"capture", "restore"} => new[Step] # "pending"
  OBVIOUS
<1>8. Place(Step) = 8 => Step = ExtraStage(My.mode)
  <2> SUFFICES ASSUME Place(Step) = 8
               PROVE  Step = ExtraStage(My.mode)
    OBVIOUS
  <2>1. Step \in {"capture", "restore"}
    BY <1>1, Placed DEF AllSteps, Stages
  <2>2. InOrder(MySteps, My.mode) /\ job.at \in 1..Len(MySteps) /\ Step = MySteps[job.at]
    BY StepsInOrder DEF MySteps, Step, IInv, Chosen
  <2>3. job.at \in 2..Len(MySteps)
    BY <2>1, <2>2 DEF InOrder
  <2>4. Fits(Step, My.mode)
    BY <2>2, <2>3 DEF InOrder
  <2> QED BY <2>1, <2>4 DEF Fits, ExtraStage
<1> HIDE DEF old, new
<1>9. ASSUME 8 <= Place(Step)
      PROVE  new[ExtraStage(My.mode)] # "pending"
  <2>1. Place(Step) \in Nat /\ ExtraStage(My.mode) \in Stages /\ ExtraStage(My.mode) \in {"capture", "restore"}
    BY <1>1, PlaceOf DEF ExtraStage, Stages
  <2>2. CASE Step = ExtraStage(My.mode)
    BY <1>4, <2>1, <2>2
  <2>3. CASE Step # ExtraStage(My.mode)
    <3>1. 8 < Place(Step)
      BY <1>8, <1>9, <2>1, <2>3
    <3> QED BY <1>3, <1>4, <2>1, <2>3, <3>1
  <2> QED BY <2>2, <2>3
<1>5. ASSUME NEW s \in Required, Place(s) <= Place(Step)
      PROVE  new[s] = "success"
  <2>1. /\ Place(s) \in Nat /\ Place(Step) \in Nat /\ s \in Stages
        /\ Place(Step) = Place(s) => Step = s
    BY <1>1, PlaceOf
  <2>2. CASE Place(s) = Place(Step)
    BY <1>4, <2>1, <2>2
  <2>3. CASE Place(s) < Place(Step)
    BY <1>3, <1>4, <2>1, <2>3
  <2> QED BY <1>5, <2>1, <2>2, <2>3
<1>6. CASE job'.pc = "enter"
  <2>1. /\ Step' \in AllSteps /\ Place(Step) < Place(Step')
        /\ \A s \in Required : Place(s) < Place(Step') => Place(s) <= Place(Step)
        /\ 8 < Place(Step') => 8 <= Place(Step)
    BY <1>1, <1>6
  <2>2. \A s \in Required : Place(s) < Place(Step') => new[s] = "success"
    BY <1>5, <2>1
  <2>3. ASSUME ~job.resume, NEW s \in Stages, new[s] # "pending"
        PROVE  Place(s) < Place(Step')
    <3>1. Place(s) \in Nat /\ Place(Step) \in Nat /\ Place(Step') \in Nat
      BY <1>1, <2>1, PlaceOf
    <3>2. CASE s = Step
      BY <2>1, <3>2
    <3>3. CASE s # Step
      <4>1. Place(s) < Place(Step)
        BY <1>3, <1>4, <2>3, <3>3
      <4> QED BY <2>1, <3>1, <4>1
    <3> QED BY <3>2, <3>3
  <2>4. ~InSetup("record")' /\ ~InSetup("finish")'
    BY <1>6 DEF InSetup
  <2>5. 8 < Place(Step') => new[ExtraStage(My.mode)] # "pending"
    BY <1>9, <2>1
  <2> QED BY <1>1, <1>2, <2>2, <2>3, <2>4, <2>5 DEF JobOrdered
<1>7. CASE job'.pc = "record" /\ Step = "scheduler"
  <2>1. \A s \in Required : Place(s) <= Place(Step)
    <3>1. \A s \in Required : Place(s) \in Nat /\ Place(s) < Place(Step)
      BY <1>7, PlaceOf
    <3> QED BY <3>1, <1>1, PlaceOf
  <2>2. ~InSetup("enter")'
    BY <1>7 DEF InSetup
  <2>3. new[ExtraStage(My.mode)] # "pending"
    BY <1>7, <1>9, Placed
  <2> QED BY <1>2, <1>5, <2>1, <2>2, <2>3 DEF JobOrdered
<1> QED BY <1>1, <1>6, <1>7

\* A review leaves an attempt before its first step...
LEMMA ReviewAt ==
  ASSUME IInv, Review
  PROVE  job'.pc = "enter" /\ job'.kind = "setup" /\ Step' = "policy"
<1>1. InSetup("review") /\ job.at = 1 /\ Shaped
  BY DEF IInv, Chosen, Review
<1>2. PICK choice, r : job' = [job EXCEPT !.pc = "enter", !.run = r, !.choice = choice,
                                          !.resume = @ /\ choice = None]
  BY Zenon DEF Review
<1>3. job'.pc = "enter" /\ job'.at = 1 /\ job'.kind = "setup"
  BY <1>1, <1>2 DEF Shaped, Fields, InSetup
<1> QED BY <1>3, StepsInOrder DEF Step, MySteps, InOrder

\* ... nothing of a new run is entered...
LEMMA ReviewOrdered ==
  ASSUME IInv, Typed, Review, Next
  PROVE  JobOrdered'
<1>1. job'.pc = "enter" /\ job'.kind = "setup" /\ Step' = "policy" /\ NewOrResumed(job'.resume)
  BY ReviewAt DEF Review
<1>2. (\A s \in Required : ~(Place(s) < Place(Step'))) /\ ~(8 < Place(Step'))
  BY <1>1, Placed DEF Required
<1>3. ASSUME ~job'.resume
      PROVE  \A s \in Stages : My'.stages[s] = "pending"
  <2>1. job'.run = Len(runs') /\ runs' = Append(runs, NewRun) /\ runs \in Seq(RunRecord)
    BY <1>1, <1>3, RunsKnown DEF NewOrResumed
  <2>2. NewRun \in RunRecord
    BY NewRunOK DEF RunOK
  <2>3. runs'[Len(runs')] = NewRun
    BY <2>1, <2>2
  <2> QED BY <2>1, <2>3 DEF My, NewRun
<1> QED BY <1>1, <1>2, <1>3 DEF JobOrdered, InSetup

\* ... and choosing a policy leads from the first step to the second.
LEMMA ChoiceAt ==
  ASSUME IInv, ChoosePolicy
  PROVE  /\ InSetup("enter") /\ Step = "policy" /\ job.run \in DOMAIN runs
         /\ job'.run = job.run /\ job'.kind = "setup" /\ job'.resume = job.resume
         /\ job'.pc = "enter" /\ Step' = "backup"
<1>1. InSetup("enter") /\ job' = Advance(job) /\ Step = "policy" /\ job.run \in DOMAIN runs
  BY DEF ChoosePolicy, IInv, Chosen
<1>2. InOrder(MySteps, My.mode) /\ InOrder(MySteps', My'.mode) /\ job.at \in 1..Len(MySteps)
  BY <1>1, StepsInOrder DEF MySteps, IInv, Chosen
<1>3. job.at = 1
  BY <1>1, <1>2 DEF InOrder, Step, Fits
<1>4. /\ job'.run = job.run /\ job'.kind = "setup" /\ job'.resume = job.resume /\ job'.at = 2
      /\ job'.pc = "enter"
  BY <1>1, <1>2, <1>3 DEF IInv, Shaped, Fields, Advance, InSetup, InOrder
<1>5. Step' = "backup"
  BY <1>2, <1>4 DEF InOrder, Step
<1> QED BY <1>1, <1>4, <1>5

\* The attempt that chose its policy is in order.
LEMMA ChoiceOrdered ==
  ASSUME IInv, Typed, Ordered, ChoosePolicy, Next
  PROVE  JobOrdered'
<1>1. /\ InSetup("enter") /\ Step = "policy" /\ job.run \in DOMAIN runs
      /\ job'.run = job.run /\ job'.kind = "setup" /\ job'.resume = job.resume
      /\ job'.pc = "enter" /\ Step' = "backup"
  BY ChoiceAt
<1>2. runs'[job.run].stages = runs[job.run].stages
  <2>1. ~Stage
    BY <1>1, StageWork DEF AtStage, IsStage, Stages
  <2> QED BY <1>1, <2>1, RunsMoves
<1>3. (\A s \in Required : ~(Place(s) < Place(Step'))) /\ ~(8 < Place(Step'))
  BY <1>1, Placed DEF Required
<1>4. ASSUME ~job.resume, NEW s \in Stages, runs[job.run].stages[s] # "pending"
      PROVE  FALSE
  <2>1. Place(s) < 1 /\ Place(s) \in 1..11
    BY <1>1, <1>4, Placed, PlaceOf DEF Ordered, JobOrdered, My
  <2> QED BY <2>1
<1> QED BY <1>1, <1>2, <1>3, <1>4 DEF JobOrdered, InSetup, My

\* An attempt stands where it stood while others move.
LEMMA StandsStill ==
  ASSUME IInv, Typed, job' = job, LateStatus \/ EditLive \/ Deliver,
         InSetup("enter") \/ InSetup("record") \/ InSetup("finish")
  PROVE  Step' = Step /\ My'.mode = My.mode /\ My'.stages = My.stages
<1>1. job.run \in DOMAIN runs
  BY DEF InSetup, Typed, Working, JobOK
<1>2. \A r \in DOMAIN runs : /\ runs'[r].stages = runs[r].stages
                             /\ runs'[r].policy = runs[r].policy /\ runs'[r].mode = runs[r].mode
  BY StatusOnly DEF LateStatus, EditLive, Deliver, IInv
<1>3. My'.stages = My.stages /\ My'.policy = My.policy /\ My'.mode = My.mode
  BY <1>1, <1>2 DEF My
<1>4. MySteps' = MySteps
  BY <1>3 DEF MySteps
<1> QED BY <1>3, <1>4 DEF Step

\* Attempts stay in order.
LEMMA JobOrderedStep ==
  ASSUME IInv, Typed, Ordered, Next
  PROVE  JobOrdered'
<1>1. CASE job'.kind # "setup" \/ job'.pc = "review"
  BY <1>1 DEF JobOrdered, InSetup
<1>2. CASE job' = job /\ (LateStatus \/ EditLive \/ Deliver)
  <2>1. CASE InSetup("enter") \/ InSetup("record") \/ InSetup("finish")
    <3>1. My'.stages = My.stages /\ My'.mode = My.mode /\ Step' = Step /\ job' = job
      BY <1>2, <2>1, StandsStill
    <3>2. /\ InSetup("enter")' <=> InSetup("enter")
          /\ InSetup("record")' <=> InSetup("record")
          /\ InSetup("finish")' <=> InSetup("finish")
      BY <1>2 DEF InSetup
    <3>3. job'.resume = job.resume
      BY <1>2
    <3> QED BY <3>1, <3>2, <3>3 DEF Ordered, JobOrdered
  <2>2. CASE ~(InSetup("enter") \/ InSetup("record") \/ InSetup("finish"))
    BY <1>2, <2>2 DEF JobOrdered, InSetup
  <2> QED BY <2>1, <2>2
<1>3. CASE Review
  BY <1>3, ReviewOrdered
<1>4. CASE ChoosePolicy
  BY <1>4, ChoiceOrdered
<1>5. CASE Preserve \/ SkipStage
  <2>1. InSetup("enter") /\ job' = Advance(job) /\ runs' = runs
    BY <1>5 DEF Preserve, SkipStage, AtStage
  <2>2. Step \in Required => My.stages[Step] = "success"
    BY <1>5 DEF Preserve, SkipStage, Done, Required
  <2>3. runs'[job.run] = My
    BY <2>1 DEF My
  <2>4. Step \in {"capture", "restore"} => My.stages[Step] # "pending"
    BY <1>5 DEF Preserve, SkipStage, Done
  <2> QED BY <2>1, <2>2, <2>3, <2>4, PassedOrdered DEF Ordered, My
<1>6. CASE Stage /\ job' = Advance(job)
  <2>1. PICK status \in {"begun", "success"} :
         /\ \A r \in DOMAIN runs, s \in Stages :
              runs'[r].stages[s] = IF r = job.run /\ s = Step THEN status ELSE runs[r].stages[s]
         /\ status = "begun" => job' = Idle \/ Step \in Optional
    BY <1>6, StageRuns
  <2>2. /\ InSetup("enter") /\ job.run \in DOMAIN runs /\ Step \in Stages
        /\ runs'[job.run].policy = My.policy /\ runs'[job.run].mode = My.mode
    BY <1>6, StageRuns DEF My
  <2>3. job' # Idle
    BY <1>6, <2>2, Onwards DEF Idle
  <2>4. \A s \in Stages : s # Step => runs'[job.run].stages[s] = My.stages[s]
    BY <2>1, <2>2 DEF My
  <2>5. Step \in Required => runs'[job.run].stages[Step] = "success"
    BY <2>1, <2>2, <2>3 DEF Required, Optional
  <2>6. Step \in {"capture", "restore"} => runs'[job.run].stages[Step] # "pending"
    BY <2>1, <2>2
  <2> QED BY <1>6, <2>2, <2>4, <2>5, <2>6, PassedOrdered DEF Ordered
<1>7. CASE RecordBaseline
  <2>1. /\ InSetup("record") /\ job' = [job EXCEPT !.pc = "finish"] /\ runs' = runs
    BY <1>7 DEF RecordBaseline
  <2>2. job'.pc = "finish" /\ job'.run = job.run
    BY <2>1 DEF IInv, Shaped, Fields
  <2> QED BY <2>1, <2>2 DEF Ordered, JobOrdered, InSetup, My
<1> QED BY <1>1, <1>2, <1>3, <1>4, <1>5, <1>6, <1>7, JobFoot

\* Everything stays in order.
LEMMA OrderedStep ==
  ASSUME IInv, Typed, Ordered, Next
  PROVE  Ordered'
BY RunsOrderedStep, JobOrderedStep DEF Ordered

\* Initially there is nothing to put in order.
LEMMA InitOrdered == Init => Ordered
<1> SUFFICES ASSUME Init PROVE Ordered
  OBVIOUS
<1>1. DOMAIN runs = {} /\ job.kind # "setup"
  BY DEF Init, Idle
<1> QED BY <1>1 DEF Ordered, JobOrdered, InSetup

\* Nothing moves in a step that changes nothing.
LEMMA OrderedStays ==
  ASSUME Ordered, UNCHANGED vars
  PROVE  Ordered'
<1>1. UNCHANGED <<runs, job, found>>
  BY DEF vars, history, fixed
<1>2. Step' = Step /\ My' = My
  BY <1>1 DEF Step, MySteps, My
<1> QED BY <1>1, <1>2 DEF Ordered, JobOrdered, InSetup

-----------------------------------------------------------------------------
(* What an undisturbed run keeps together *)

\* Only its first backup makes a run one that nobody disturbed, and a step of somebody
\* else ends that.
LEMMA CleanMoves ==
  ASSUME IInv, Typed, Next, NEW r \in Runs, clean'[r]
  PROVE  /\ clean[r] \/ (Stage /\ Step = "backup" /\ r = job.run /\ found[r] = None)
         /\ ~Disturb(0)
         /\ Disturb(job.run) => r = job.run
<1>1. clean \in [Runs -> BOOLEAN] /\ r # 0
  BY BoundAssumption DEF Typed, Counted, Runs
<1>2. ASSUME NEW q, Disturb(q)
      PROVE  clean[r] /\ r = q
  <2>1. clean'[r] = (clean[r] /\ r = q)
    BY Zenon, <1>2 DEF Disturb
  <2> QED BY Zenon, <2>1
<1>4. ASSUME Stage /\ Step = "backup" /\ clean' = [clean EXCEPT ![job.run] = found[job.run] = None \/ @]
      PROVE  clean[r] \/ (Stage /\ Step = "backup" /\ r = job.run /\ found[r] = None)
  <2>1. CASE r = job.run
    <3>1. clean'[r] = (found[r] = None \/ clean[r])
      BY Zenon, <1>1, <1>4, <2>1
    <3> QED BY Zenon, <1>4, <2>1, <3>1
  <2>2. CASE r # job.run
    <3>1. clean'[r] = clean[r]
      BY Zenon, <1>1, <1>4, <2>2
    <3> QED BY Zenon, <3>1
  <2> QED BY <2>1, <2>2
<1>5. clean[r] \/ (Stage /\ Step = "backup" /\ r = job.run /\ found[r] = None)
  <2>1. UNCHANGED clean \/ Disturb(0) \/ Disturb(job.run)
        \/ (Stage /\ Step = "backup" /\ clean' = [clean EXCEPT ![job.run] = found[job.run] = None \/ @])
    BY HistoryFoot, StageWork, StageHistory
  <2>2. Disturb(0) \/ Disturb(job.run) => clean[r]
    BY <1>2
  <2>3. UNCHANGED clean => clean[r]
    BY Zenon
  <2>4. Stage /\ Step = "backup" /\ clean' = [clean EXCEPT ![job.run] = found[job.run] = None \/ @]
        => clean[r] \/ (Stage /\ Step = "backup" /\ r = job.run /\ found[r] = None)
    BY Zenon, <1>4
  <2> QED BY Zenon, <2>1, <2>2, <2>3, <2>4
<1>6. ~Disturb(0)
  BY <1>1, <1>2
<1>7. Disturb(job.run) => r = job.run
  BY <1>2
<1> QED BY Zenon, <1>5, <1>6, <1>7

\* The history of a stage's effect on the two sides: what it does not leave is disturbed.
LEMMA EffectSides ==
  ASSUME ConfigOK, Effect \/ UNCHANGED <<config, store, count, history>>
  PROVE  \/ UNCHANGED <<live, extra, tree>>
         \/ /\ Disturb(job.run) /\ live' = live /\ extra' = extra
            /\ UNCHANGED <<baseline, sync, store, count, fixed>>
            /\ \/ Step \in {"init", "meta"} /\ tree'.cfg = tree.cfg /\ tree'.extra = tree.extra
               \/ Step = "import" /\ tree'.cfg = (IF live = 0 THEN tree.cfg ELSE live) /\ tree'.extra = tree.extra
               \/ Step = "capture" /\ tree'.extra = (IF extra = 0 THEN tree.extra ELSE extra) /\ tree'.cfg = tree.cfg
         \/ /\ Disturb(job.run) /\ Step = "apply"
            /\ tree' = tree /\ extra' = extra /\ live' = IF tree.cfg = 0 THEN live ELSE tree.cfg
            /\ UNCHANGED <<baseline, sync, store, count, fixed>>
         \/ /\ Disturb(job.run) /\ Step = "restore"
            /\ tree' = tree /\ live' = live /\ extra' = IF tree.extra = 0 THEN extra ELSE tree.extra
            /\ UNCHANGED <<baseline, sync, store, count, fixed>>
<1>1. CASE UNCHANGED <<config, store, count, history>>
  BY <1>1 DEF config
<1>2. ASSUME NEW t, WriteTree(t)
      PROVE  \/ UNCHANGED <<live, extra, tree>>
             \/ /\ tree' = t /\ Disturb(job.run) /\ live' = live /\ extra' = extra
                /\ UNCHANGED <<baseline, sync, store, count, fixed>>
  BY <1>2 DEF WriteTree
<1>3. ASSUME WriteLive(Applied)
      PROVE  \/ UNCHANGED <<live, extra, tree>>
             \/ /\ Disturb(job.run) /\ tree' = tree /\ extra' = extra
                /\ live' = IF tree.cfg = 0 THEN live ELSE tree.cfg
                /\ UNCHANGED <<baseline, sync, store, count, fixed>>
  BY <1>3, Computed DEF WriteLive
<1>4. ASSUME WriteExtra(Restored)
      PROVE  \/ UNCHANGED <<live, extra, tree>>
             \/ /\ Disturb(job.run) /\ tree' = tree /\ live' = live
                /\ extra' = IF tree.extra = 0 THEN extra ELSE tree.extra
                /\ UNCHANGED <<baseline, sync, store, count, fixed>>
  BY <1>4, Computed DEF WriteExtra
<1>5. /\ Initialized(tree).cfg = tree.cfg /\ Initialized(tree).extra = tree.extra
      /\ Stamped(tree, job.run).cfg = tree.cfg /\ Stamped(tree, job.run).extra = tree.extra
      /\ Imported(tree).cfg = (IF live = 0 THEN tree.cfg ELSE live) /\ Imported(tree).extra = tree.extra
      /\ Captured(tree).extra = (IF extra = 0 THEN tree.extra ELSE extra) /\ Captured(tree).cfg = tree.cfg
  BY DEF ConfigOK, Trees, Initialized, Imported, Captured, Stamped
<1>6. CASE BackupStage \/ SnapshotStage \/ LocalBackupStage \/ BaselineStage
  BY <1>6 DEF BackupStage, SnapshotStage, LocalBackupStage, BaselineStage, config
<1>7. CASE Step = "init" /\ WriteTree(Initialized(tree))
  BY <1>2, <1>5, <1>7
<1>8. CASE Step = "import" /\ WriteTree(Imported(tree))
  BY <1>2, <1>5, <1>8
<1>9. CASE Step = "capture" /\ WriteTree(Captured(tree))
  BY <1>2, <1>5, <1>9
<1>10. CASE Step = "meta" /\ WriteTree(Stamped(tree, job.run))
  BY <1>2, <1>5, <1>10
<1>11. CASE Step = "apply" /\ WriteLive(Applied)
  BY <1>3, <1>11
<1>12. CASE Step = "restore" /\ WriteExtra(Restored)
  BY <1>4, <1>12
<1> QED BY <1>1, <1>6, <1>7, <1>8, <1>9, <1>10, <1>11, <1>12, EffectCases

\* What an operation of recovery still holds, it goes on with or gives up for good.
LEMMA ControlStays ==
  ASSUME IInv, Typed, Next, job.kind \notin {"none", "setup"}
  PROVE  \/ job'.kind = job.kind /\ job'.run = job.run
         \/ Disturb(0)
<1>1. Shaped /\ job # Idle
  BY DEF IInv, Idle
<1>2. CASE Setup
  BY <1>1, <1>2, StageRuns DEF Setup, Stage, StartSetup, Review, LeaveReview, ChoosePolicy, CancelRun, Preserve,
     SkipStage, AtStage, InSetup, FailOutside, RecordBaseline, FinishRun
<1>3. CASE Recovery
  <2>1. CASE StartControl \/ StartRollback \/ StartRestore \/ TakeSnapshot
    BY <1>1, <2>1 DEF StartControl, StartRollback, StartRestore, TakeSnapshot
  <2>2. CASE ReleaseJob
    BY <2>2 DEF ReleaseJob
  <2>3. CASE LateStatus
    BY <2>3 DEF LateStatus
  <2>4. CASE Expect \/ PreSnapshot \/ Guard \/ Install \/ Meta \/ ApplySnapshot \/ RecordRollback
             \/ RestoreState \/ RestoreLive \/ RestoreFails \/ RollbackFails
    BY <1>1, <2>4 DEF Shaped, Fields, Expect, PreSnapshot, Guard, Install, Meta, ApplySnapshot, RecordRollback,
       RestoreState, RestoreLive, RestoreFails, RollbackFails
  <2> QED BY <1>3, <2>1, <2>2, <2>3, <2>4 DEF Recovery
<1>4. CASE Others
  BY <1>1, <1>4 DEF Others, EditLive, Deliver, Stop, RemoveLock
<1> QED BY <1>2, <1>3, <1>4 DEF Next

\* Which steps outside the stages touch either side, and how that counts.
LEMMA SidesFoot ==
  ASSUME IInv, Typed, Next, ~Stage
  PROVE  \/ UNCHANGED <<live, extra, tree>>
         \/ Disturb(0)
         \/ Disturb(job.run) /\ job.kind \in {"control", "rollback", "restore"}
<1>1. job = Idle \/ job.kind # "setup" \/ job.pc \in SetupLabels
  BY DEF Typed, Working, JobOK
<1>2. job = Idle \/ job.kind \in {"setup", "control", "rollback", "restore"}
  BY DEF Typed, Working, JobOK
<1>3. CASE UNCHANGED config \/ RecordBaseline \/ RecordRollback \/ RestoreState
  BY <1>3 DEF config, RecordBaseline, RecordRollback, RestoreState
<1>4. CASE Install \/ RestoreLive \/ RestoreFails
  BY <1>1, <1>2, <1>4 DEF Install, RestoreLive, RestoreFails, InJob, SetupLabels, Idle
<1>5. CASE Meta \/ ApplySnapshot \/ EditLive \/ Deliver
  BY <1>5 DEF Meta, ApplySnapshot, EditLive, Deliver
<1> QED BY <1>3, <1>4, <1>5, ConfigFoot

\* A run and the operation that rolls it back.
Controlled(r) == job.kind = "control" /\ job.run = r
Joined(r) == runs[r].kept \/ tree.cfg \in {0, live}

\* What an undisturbed run applied stays together.
LEMMA JoinedStep ==
  ASSUME IInv, Typed, Ordered, Together, Next, NEW r \in DOMAIN runs', clean'[r],
         runs'[r].stages["apply"] = "success", ~Controlled(r)'
  PROVE  Joined(r)'
<1>1. r \in DOMAIN runs /\ r \in Runs /\ r # 0
  <2>1. r \in DOMAIN runs \/ runs'[r] = NewRun
    BY OldOrNew
  <2>2. NewRun.stages["apply"] = "pending"
    BY DEF NewRun, Stages
  <2> QED BY <2>1, <2>2, RunsKnown, BoundAssumption DEF Runs
<1>2. /\ clean[r] \/ (Stage /\ Step = "backup" /\ r = job.run /\ found[r] = None)
      /\ ~Disturb(0)
      /\ Disturb(job.run) => r = job.run
  BY Zenon, <1>1, CleanMoves
<1>3. ~Controlled(r)
  BY <1>2, ControlStays DEF Controlled
<1>4. CASE ~Stage
  <2>1. runs'[r].stages = runs[r].stages /\ runs'[r].kept = runs[r].kept
    BY <1>1, <1>4, RunsMoves
  <2>2. Joined(r)
    BY <1>1, <1>2, <1>3, <1>4, <2>1 DEF Together, Joined, Controlled
  <2>3. UNCHANGED <<live, tree>>
    <3>1. job.kind \in {"rollback", "restore"} => job.run = 0
      BY DEF Typed, Working, JobOK
    <3> QED BY <1>1, <1>2, <1>3, <1>4, <3>1, SidesFoot DEF Controlled
  <2> QED BY <2>1, <2>2, <2>3 DEF Joined
<1>5. CASE Stage
  <2>1. PICK status \in {"begun", "success"} :
         /\ \A q \in DOMAIN runs, s \in Stages :
              runs'[q].stages[s] = IF q = job.run /\ s = Step THEN status ELSE runs[q].stages[s]
         /\ status = "success" =>
              \/ Effect
              \/ Step = "apply" /\ runs'[job.run].kept = TRUE /\ UNCHANGED <<config, store, count, history>>
    BY <1>5, StageRuns
  <2>2. runs'[r].kept = runs[r].kept \/ runs'[r].kept = TRUE
    BY <1>1, <1>5, StageRuns
  <2>3. ConfigOK /\ (Effect \/ UNCHANGED <<config, store, count, history>>)
    BY <1>5, StageWork DEF Typed
  <2>4. CASE r = job.run /\ Step = "apply"
    <3>1. status = "success"
      BY <1>1, <2>1, <2>4 DEF Stages
    <3>2. CASE Effect
      <4>1. live' = IF tree.cfg = 0 THEN live ELSE tree.cfg
        BY <2>3, <2>4, <3>2, EffectCases, Computed DEF WriteLive
      <4>2. tree' = tree
        BY <2>3, <2>4, <3>2, EffectCases DEF WriteLive
      <4> QED BY <4>1, <4>2 DEF Joined
    <3>3. CASE runs'[job.run].kept = TRUE
      BY <2>4, <3>3 DEF Joined
    <3> QED BY <2>1, <3>1, <3>2, <3>3
  <2>5. CASE ~(r = job.run /\ Step = "apply")
    <3>1. runs[r].stages["apply"] = "success"
      BY <1>1, <2>1, <2>5 DEF Stages
    <3>2. clean[r]
      <4> SUFFICES ASSUME Step = "backup", r = job.run
                   PROVE  FALSE
        BY Zenon, <1>2
      <4>1. runs[r].stages["backup"] = "success"
        BY <1>1, <3>1 DEF Ordered, RunOrdered, Stages
      <4>2. My.stages[Step] # "success"
        BY <1>5, Fresh
      <4> QED BY <4>1, <4>2 DEF My
    <3>3. Joined(r)
      BY <1>1, <1>3, <3>1, <3>2 DEF Together, Joined, Controlled
    <3>4. CASE live' = live /\ tree'.cfg \in {tree.cfg, live}
      BY <2>2, <3>3, <3>4 DEF Joined
    <3>5. CASE live' = live /\ tree' = tree
      BY <2>2, <3>3, <3>5 DEF Joined
    <3>6. CASE tree' = tree /\ live' = IF tree.cfg = 0 THEN live ELSE tree.cfg
      BY <3>6 DEF Joined
    <3> QED BY <2>3, <3>4, <3>5, <3>6, EffectSides
  <2> QED BY <2>4, <2>5
<1> QED BY <1>4, <1>5

\* The extras of an undisturbed run that captured or restored them.
Aside(r) ==
  /\ runs[r].stages["capture"] = "success" => extra \in {0, tree.extra}
  /\ runs[r].stages["restore"] = "success" => tree.extra \in {0, extra}

\* They stay together too; a run does only one of the two, and once.
LEMMA AsideStep ==
  ASSUME IInv, Typed, Ordered, Together, Next, NEW r \in DOMAIN runs', clean'[r], ~Controlled(r)'
  PROVE  Aside(r)'
<1>0. r \in Runs /\ r # 0
  BY OldOrNew, BoundAssumption DEF Runs
<1>1. CASE r \notin DOMAIN runs
  <2>1. runs'[r] = NewRun
    BY <1>1, OldOrNew
  <2>2. NewRun.stages["capture"] = "pending" /\ NewRun.stages["restore"] = "pending"
    BY DEF NewRun, Stages
  <2> QED BY <2>1, <2>2 DEF Aside
<1>2. /\ clean[r] \/ (Stage /\ Step = "backup" /\ r = job.run /\ found[r] = None)
      /\ ~Disturb(0)
      /\ Disturb(job.run) => r = job.run
  BY Zenon, <1>0, CleanMoves
<1>3. ~Controlled(r)
  BY <1>2, ControlStays DEF Controlled
<1>4. CASE r \in DOMAIN runs /\ ~Stage
  <2>1. runs'[r].stages = runs[r].stages
    BY <1>4, RunsMoves
  <2>2. Aside(r)
    BY <1>2, <1>3, <1>4 DEF Together, Aside, Controlled
  <2>3. UNCHANGED <<extra, tree>>
    <3>1. job.kind \in {"rollback", "restore"} => job.run = 0
      BY DEF Typed, Working, JobOK
    <3> QED BY <1>0, <1>2, <1>3, <1>4, <3>1, SidesFoot DEF Controlled
  <2> QED BY <2>1, <2>2, <2>3 DEF Aside
<1>5. CASE r \in DOMAIN runs /\ Stage
  <2>1. PICK status \in {"begun", "success"} :
         /\ \A q \in DOMAIN runs, s \in Stages :
              runs'[q].stages[s] = IF q = job.run /\ s = Step THEN status ELSE runs[q].stages[s]
         /\ status = "success" => Effect \/ Step = "apply"
    BY <1>5, StageRuns
  <2>2. {"capture", "restore"} \subseteq Stages
    BY DEF Stages
  <2>3. ConfigOK /\ (Effect \/ UNCHANGED <<config, store, count, history>>)
    BY <1>5, StageWork DEF Typed
  <2>4. ASSUME NEW s \in {"capture", "restore"}, runs[r].stages[s] = "success"
        PROVE  clean[r]
    <3> SUFFICES ASSUME Step = "backup", r = job.run
                 PROVE  FALSE
      BY Zenon, <1>2
    <3>1. runs[r].stages["backup"] = "success"
      BY <1>5, <2>2, <2>4 DEF Ordered, RunOrdered
    <3>2. My.stages[Step] # "success"
      BY <1>5, Fresh
    <3> QED BY <3>1, <3>2 DEF My
  <2>5. Aside(r)
    <3>1. clean[r] => Aside(r)
      BY <1>3, <1>5 DEF Together, Aside, Controlled
    <3>2. CASE clean[r]
      BY Zenon, <3>1, <3>2
    <3>3. CASE ~clean[r]
      BY Zenon, <2>4, <3>3 DEF Aside
    <3> QED BY Zenon, <3>2, <3>3
  <2>6. CASE r # job.run
    <3>1. UNCHANGED <<extra, tree>>
      BY <1>2, <2>3, <2>6, EffectSides
    <3>2. \A s \in {"capture", "restore"} : runs'[r].stages[s] = runs[r].stages[s]
      BY <1>5, <2>1, <2>2, <2>6
    <3> QED BY <2>5, <3>1, <3>2 DEF Aside
  <2>7. CASE r = job.run /\ Step \notin {"capture", "restore"}
    <3>1. \A s \in {"capture", "restore"} : runs'[r].stages[s] = runs[r].stages[s]
      BY <1>5, <2>1, <2>2, <2>7
    <3>2. extra' = extra /\ tree'.extra = tree.extra
      BY <2>3, <2>7, EffectSides
    <3> QED BY <2>5, <3>1, <3>2 DEF Aside
  <2>8. CASE r = job.run /\ Step = "capture"
    <3>1. /\ runs'[r].stages["capture"] = status
          /\ runs'[r].stages["restore"] = runs[r].stages["restore"]
      BY <1>5, <2>1, <2>2, <2>8
    <3>2. status = "success" => extra' = extra /\ tree'.extra = IF extra = 0 THEN tree.extra ELSE extra
      BY <2>1, <2>3, <2>8, EffectCases, Computed DEF WriteTree
    <3>3. /\ extra' = extra
          /\ tree'.extra = tree.extra \/ tree'.extra = IF extra = 0 THEN tree.extra ELSE extra
      BY <2>3, <2>8, EffectSides
    <3> QED BY <2>5, <3>1, <3>2, <3>3 DEF Aside
  <2>9. CASE r = job.run /\ Step = "restore"
    <3>1. /\ runs'[r].stages["restore"] = status
          /\ runs'[r].stages["capture"] = runs[r].stages["capture"]
      BY <1>5, <2>1, <2>2, <2>9
    <3>2. status = "success" => tree' = tree /\ extra' = IF tree.extra = 0 THEN extra ELSE tree.extra
      BY <2>1, <2>3, <2>9, EffectCases, Computed DEF WriteExtra
    <3>3. \/ extra' = extra /\ tree' = tree
          \/ tree' = tree /\ extra' = IF tree.extra = 0 THEN extra ELSE tree.extra
      BY <2>3, <2>9, EffectSides
    <3> QED BY <2>5, <3>1, <3>2, <3>3 DEF Aside
  <2> QED BY <2>6, <2>7, <2>8, <2>9
<1> QED BY <1>1, <1>4, <1>5

\* What an undisturbed run leaves as baseline is the source as it is.
LEMMA BaselineJoined ==
  ASSUME IInv, Typed, Together, Next, InSetup("finish")', clean'[job'.run]
  PROVE  baseline' = tree'
<1>1. job'.kind = "setup" /\ job'.pc = "finish"
  BY DEF InSetup
<1>2. Typed'
  BY TypedStep
<1>3. job'.run \in Runs
  <2>1. job'.run \in DOMAIN runs'
    BY <1>1, <1>2 DEF Typed, Working, JobOK
  <2> QED BY <2>1, OldOrNew
<1>4. ~Disturb(0)
  BY Zenon, <1>3, CleanMoves
<1>5. CASE job' = job /\ LateStatus
  <2>1. UNCHANGED <<baseline, tree, clean, job>>
    BY <1>5 DEF LateStatus, config, history
  <2>2. clean[job.run]
    BY Zenon, <2>1
  <2> QED BY <1>1, <2>1, <2>2 DEF Together, InSetup
<1>6. CASE EditLive \/ Deliver
  BY <1>4, <1>6 DEF EditLive, Deliver
<1>7. CASE RecordBaseline
  BY <1>7 DEF RecordBaseline
<1>8. CASE Review \/ ChoosePolicy \/ Preserve \/ SkipStage \/ (Stage /\ job' = Advance(job))
  <2>1. CASE Review
    <3>1. PICK choice, r : job' = [job EXCEPT !.pc = "enter", !.run = r, !.choice = choice,
                                              !.resume = @ /\ choice = None]
      BY Zenon, <2>1 DEF Review
    <3> QED BY <1>1, <3>1 DEF IInv, Shaped, Fields
  <2>2. CASE job' = Advance(job)
    BY <1>1, <2>2 DEF Advance, IInv, Shaped, Fields
  <2> QED BY <1>8, <2>1, <2>2 DEF ChoosePolicy, Preserve, SkipStage
<1> QED BY <1>1, <1>5, <1>6, <1>7, <1>8, JobFoot

\* What belongs together stays together.
LEMMA TogetherStep ==
  ASSUME IInv, Typed, Ordered, Together, Next
  PROVE  Together'
BY JoinedStep, AsideStep, BaselineJoined DEF Together, Joined, Aside, Controlled

-----------------------------------------------------------------------------
(* What an undisturbed run found, and its rollback *)

\* What a run found stays as it is until the run changes something itself.
LEMMA FoundStillStep ==
  ASSUME IInv, Typed, Ordered, Recorded, Next, job'.kind \in {"none", "setup"},
         NEW r \in DOMAIN runs', clean'[r], found'[r] # None,
         \A s \in Changing : runs'[r].stages[s] = "pending"
  PROVE  found'[r] = [live |-> live', tree |-> tree', baseline |-> baseline']
<1>1. r \in Runs /\ found \in [Runs -> Optionally(Found)]
  BY OldOrNew DEF Typed, Counted
<1>2. /\ clean[r] \/ (Stage /\ Step = "backup" /\ r = job.run /\ found[r] = None)
      /\ ~Disturb(0)
      /\ Disturb(job.run) => r = job.run
  BY Zenon, <1>1, CleanMoves
<1>3. job.kind \in {"none", "setup"}
  BY <1>2, ControlStays
<1>4. CASE found[r] = None
  <2>1. Stage /\ Step = "backup" /\ r = job.run /\ UNCHANGED config
        /\ found' = [found EXCEPT ![job.run] = IF @ = None
                       THEN [live |-> live, tree |-> tree, baseline |-> baseline] ELSE @]
    <3>1. ~UNCHANGED found
      BY <1>4
    <3>2. Stage /\ (Effect \/ UNCHANGED <<config, store, count, history>>)
      BY <3>1, HistoryFoot, StageWork
    <3>3. /\ Step = "backup" /\ UNCHANGED config
          /\ found' = [found EXCEPT ![job.run] = IF @ = None
                         THEN [live |-> live, tree |-> tree, baseline |-> baseline] ELSE @]
      BY <3>1, <3>2, StageHistory
    <3>4. r = job.run
      BY <1>1, <1>4, <3>3
    <3> QED BY <3>2, <3>3, <3>4
  <2> QED BY <1>1, <1>4, <2>1 DEF config
<1>5. CASE found[r] # None
  <2>1. found'[r] = found[r] /\ r \in DOMAIN runs
    BY <1>1, <1>5, FoundStays DEF Typed, Counted
  <2>2. clean[r]
    BY Zenon, <1>2, <1>5
  <2>3. \A s \in Changing : runs[r].stages[s] = "pending" /\ ~(Stage /\ r = job.run /\ s = Step)
    <3>1. CASE Stage
      <4>1. PICK status \in {"begun", "success"} :
              \A q \in DOMAIN runs, s \in Stages :
                runs'[q].stages[s] = IF q = job.run /\ s = Step THEN status ELSE runs[q].stages[s]
        BY <3>1, StageRuns
      <4> QED BY <2>1, <4>1, PlaceOf
    <3>2. CASE ~Stage
      BY <2>1, <3>2, RunsMoves
    <3> QED BY <3>1, <3>2
  <2>4. found[r] = [live |-> live, tree |-> tree, baseline |-> baseline]
    BY <1>3, <1>5, <2>1, <2>2, <2>3 DEF Recorded, FoundStill
  <2>5. UNCHANGED <<live, tree, baseline>>
    <3>1. CASE Stage
      <4>1. ConfigOK /\ (Effect \/ UNCHANGED <<config, store, count, history>>)
        BY <3>1, StageWork DEF Typed
      <4>2. baseline' = baseline
        BY <4>1, EffectCases DEF BackupStage, SnapshotStage, WriteTree, WriteLive, WriteExtra, LocalBackupStage,
           BaselineStage, config
      <4>3. UNCHANGED <<live, tree>>
        BY <1>2, <2>3, <3>1, <4>1, EffectSides DEF Changing
      <4> QED BY <4>2, <4>3
    <3>2. CASE ~Stage
      <4>1. UNCHANGED <<live, tree>>
        BY <1>2, <1>3, <3>2, SidesFoot
      <4>2. CASE UNCHANGED config
        BY <4>2 DEF config
      <4>3. CASE RecordBaseline
        <5>1. My.stages["apply"] = "success" /\ baseline' = tree
              /\ (tree = baseline \/ Disturb(job.run))
          BY <4>3 DEF RecordBaseline, Ordered, JobOrdered, Required
        <5>2. r # job.run
          BY <2>3, <5>1 DEF My, Changing
        <5> QED BY <1>2, <4>1, <5>1, <5>2
      <4>4. CASE RecordRollback \/ RestoreState \/ RestoreLive \/ RestoreFails
        <5>1. job.pc \notin {"state", "live"}
          BY <1>3 DEF Typed, Working, JobOK, Idle, SetupLabels
        <5> QED BY <1>3, <4>4, <5>1 DEF RecordRollback, RestoreState, RestoreLive, RestoreFails, InJob
      <4>5. CASE Install \/ Meta \/ ApplySnapshot \/ EditLive \/ Deliver
        BY <4>1, <4>5 DEF Install, Meta, ApplySnapshot, EditLive, Deliver
      <4> QED BY <3>2, <4>2, <4>3, <4>4, <4>5, ConfigFoot
    <3> QED BY <3>1, <3>2
  <2> QED BY <2>1, <2>4, <2>5
<1> QED BY <1>4, <1>5

\* A run that takes its backup or its snapshot has changed nothing yet.
LEMMA StillAsFound ==
  ASSUME IInv, Typed, Ordered, Recorded, Stage, Step \in {"backup", "snapshot"},
         found[job.run] # None, clean[job.run]
  PROVE  found[job.run] = [live |-> live, tree |-> tree, baseline |-> baseline]
<1>1. job.run \in DOMAIN runs /\ job.kind = "setup" /\ My.stages[Step] # "success"
  BY StageRuns, Fresh DEF InSetup
<1>2. \A s \in Changing : runs[job.run].stages[s] = "pending"
  BY <1>1, PlaceOf DEF Ordered, RunOrdered, My, Changing, Stages
<1> QED BY <1>1, <1>2 DEF Recorded, FoundStill

\* What was recorded stays recorded.
LEMMA StillRecorded ==
  ASSUME IInv, Typed, Next, NEW r \in Runs, found[r] # None
  PROVE  found'[r] = found[r] /\ (clean'[r] => clean[r])
<1>1. found'[r] = found[r]
  BY FoundStays
<1>2. ASSUME clean'[r]
      PROVE  clean[r]
  BY Zenon, <1>2, CleanMoves
<1> QED BY Zenon, <1>1, <1>2

\* Who adds a backup or a snapshot, and for which run.
LEMMA BackupMoves ==
  ASSUME IInv, Typed, Next
  PROVE  \/ UNCHANGED backups
         \/ AddBackup(0)
         \/ Stage /\ Step = "backup" /\ AddBackup(job.run) /\ UNCHANGED config
            /\ found' = [found EXCEPT ![job.run] = IF @ = None
                           THEN [live |-> live, tree |-> tree, baseline |-> baseline] ELSE @]
<1>1. CASE ~Stage
  BY <1>1, StoreFoot DEF Guard
<1>2. CASE Stage
  <2>1. Effect \/ UNCHANGED <<config, store, count, history>>
    BY <1>2, StageWork
  <2>2. CASE UNCHANGED <<config, store, count, history>>
    BY <2>2 DEF store
  <2>3. CASE Effect
    BY <1>2, <2>3, EffectCases DEF BackupStage, SnapshotStage, WriteTree, WriteLive, WriteExtra, LocalBackupStage,
       BaselineStage, store
  <2> QED BY <2>1, <2>2, <2>3
<1> QED BY <1>1, <1>2

\* The same of the snapshots.
LEMMA SnapshotMoves ==
  ASSUME IInv, Typed, Next
  PROVE  \/ UNCHANGED snapshots
         \/ \E r \in 0..MaxRuns :
              /\ snapshots' = Newest(Append(snapshots, [id |-> count.snapshots + 1, run |-> r, tree |-> tree]))
              /\ r # 0 => Stage /\ Step = "snapshot" /\ r = job.run
<1>1. CASE ~Stage
  <2>1. 0 \in 0..MaxRuns
    BY BoundAssumption
  <2> QED BY <1>1, <2>1, StoreFoot DEF PreSnapshot, TakeSnapshot, AddSnapshot
<1>2. CASE Stage
  <2>1. job.run \in 0..MaxRuns
    BY RunsKnown
  <2>2. UNCHANGED snapshots \/ (Step = "snapshot" /\ AddSnapshot(job.run))
    BY <1>2, StageWork, StageStores
  <2> QED BY <1>2, <2>1, <2>2 DEF AddSnapshot
<1> QED BY <1>1, <1>2

\* A backup of an undisturbed run holds what the run found.
LEMMA BackupsTrueStep ==
  ASSUME IInv, Typed, Ordered, Recorded, Next
  PROVE  BackupsTrue'
<1> DEFINE OK(b) == b.run # 0 => /\ found'[b.run] # None
                                 /\ clean'[b.run] => /\ b.live = found'[b.run].live
                                                     /\ b.baseline = found'[b.run].baseline
<1>1. ConfigOK /\ StoresOK /\ job.run \in 0..MaxRuns /\ 0 \in 0..MaxRuns
  BY RunsKnown, BoundAssumption DEF Typed
<1>2. ASSUME NEW k \in DOMAIN backups
      PROVE  OK(backups[k])
  <2> SUFFICES ASSUME backups[k].run # 0
               PROVE  /\ found'[backups[k].run] # None
                      /\ clean'[backups[k].run] => /\ backups[k].live = found'[backups[k].run].live
                                                   /\ backups[k].baseline = found'[backups[k].run].baseline
    OBVIOUS
  <2> DEFINE r == backups[k].run
  <2>1. backups[k] \in Backup
    BY <1>1, ElementOfSeq DEF StoresOK
  <2>2. r \in Runs
    BY <2>1, BoundAssumption DEF Backup, Runs
  <2>3. /\ found[r] # None
        /\ clean[r] => backups[k].live = found[r].live /\ backups[k].baseline = found[r].baseline
    BY DEF Recorded, BackupsTrue
  <2>4. found'[r] = found[r] /\ (clean'[r] => clean[r])
    BY <2>2, <2>3, StillRecorded
  <2> QED BY <2>3, <2>4
<1> HIDE DEF OK
<1>3. ASSUME \A i \in DOMAIN backups' : OK(backups'[i])
      PROVE  BackupsTrue'
  BY <1>3 DEF BackupsTrue, OK
<1>4. CASE UNCHANGED backups
  BY <1>2, <1>3, <1>4
<1>5. CASE AddBackup(0)
  <2>1. OK([run |-> 0, live |-> live, baseline |-> baseline, sync |-> sync])
    BY DEF OK
  <2>2. \A i \in DOMAIN backups' :
           \/ backups'[i] = [run |-> 0, live |-> live, baseline |-> baseline, sync |-> sync]
           \/ \E k \in DOMAIN backups : backups'[i] = backups[k]
    BY <1>1, <1>5, BackupAdded
  <2> QED BY <1>2, <1>3, <2>1, <2>2
<1>6. CASE Stage /\ Step = "backup" /\ AddBackup(job.run) /\ UNCHANGED config
           /\ found' = [found EXCEPT ![job.run] = IF @ = None
                          THEN [live |-> live, tree |-> tree, baseline |-> baseline] ELSE @]
  <2>1. job.run \in DOMAIN runs /\ job.run \in Runs /\ found \in [Runs -> Optionally(Found)]
    BY <1>6, StageRuns, RunsKnown DEF Typed, Counted
  <2>2. [live |-> live, tree |-> tree, baseline |-> baseline] # None
    BY NoneAssumption DEF Typed, ConfigOK, Optionally
  <2>3. /\ found'[job.run] # None
        /\ clean'[job.run] => found'[job.run] = [live |-> live, tree |-> tree, baseline |-> baseline]
    <3>1. CASE found[job.run] = None
      BY <1>6, <2>1, <2>2, <3>1
    <3>2. CASE found[job.run] # None
      <4>1. found'[job.run] = found[job.run] /\ (clean'[job.run] => clean[job.run])
        BY <2>1, <3>2, StillRecorded
      <4>2. clean[job.run] => found[job.run] = [live |-> live, tree |-> tree, baseline |-> baseline]
        BY <1>6, <3>2, StillAsFound
      <4> QED BY <3>2, <4>1, <4>2
    <3> QED BY <3>1, <3>2
  <2>4. OK([run |-> job.run, live |-> live, baseline |-> baseline, sync |-> sync])
    BY <2>3 DEF OK
  <2>5. \A i \in DOMAIN backups' :
           \/ backups'[i] = [run |-> job.run, live |-> live, baseline |-> baseline, sync |-> sync]
           \/ \E k \in DOMAIN backups : backups'[i] = backups[k]
    BY <1>1, <1>6, BackupAdded
  <2> QED BY <1>2, <1>3, <2>4, <2>5
<1> QED BY <1>4, <1>5, <1>6, BackupMoves

\* And a snapshot of it the source it found.
LEMMA SnapshotsTrueStep ==
  ASSUME IInv, Typed, Ordered, Recorded, Next
  PROVE  SnapshotsTrue'
<1> DEFINE OK(s) == s.run # 0 => /\ found'[s.run] # None
                                 /\ clean'[s.run] => s.tree = found'[s.run].tree
<1>1. ConfigOK /\ StoresOK /\ count.snapshots \in Nat
  BY DEF Typed, Counted
<1>2. ASSUME NEW k \in DOMAIN snapshots
      PROVE  OK(snapshots[k])
  <2> SUFFICES ASSUME snapshots[k].run # 0
               PROVE  /\ found'[snapshots[k].run] # None
                      /\ clean'[snapshots[k].run] => snapshots[k].tree = found'[snapshots[k].run].tree
    OBVIOUS
  <2> DEFINE r == snapshots[k].run
  <2>1. snapshots[k] \in Snapshot
    BY <1>1, ElementOfSeq DEF StoresOK
  <2>2. r \in Runs
    BY <2>1, BoundAssumption DEF Snapshot, Runs
  <2>3. found[r] # None /\ (clean[r] => snapshots[k].tree = found[r].tree)
    BY DEF Recorded, SnapshotsTrue
  <2>4. found'[r] = found[r] /\ (clean'[r] => clean[r])
    BY <2>2, <2>3, StillRecorded
  <2> QED BY <2>3, <2>4
<1> HIDE DEF OK
<1>3. ASSUME \A i \in DOMAIN snapshots' : OK(snapshots'[i])
      PROVE  SnapshotsTrue'
  BY <1>3 DEF SnapshotsTrue, OK
<1>4. CASE UNCHANGED snapshots
  BY <1>2, <1>3, <1>4
<1>5. ASSUME NEW r \in 0..MaxRuns,
             snapshots' = Newest(Append(snapshots, [id |-> count.snapshots + 1, run |-> r, tree |-> tree])),
             r # 0 => Stage /\ Step = "snapshot" /\ r = job.run
      PROVE  SnapshotsTrue'
  <2>1. OK([id |-> count.snapshots + 1, run |-> r, tree |-> tree])
    <3>1. CASE r = 0
      BY <3>1 DEF OK
    <3>2. CASE r # 0
      <4>1. job.run \in DOMAIN runs /\ job.run \in Runs /\ InSetup("enter")
        BY <1>5, <3>2, StageRuns, RunsKnown
      <4>2. found[job.run] # None
        <5>1. runs[job.run].stages["backup"] = "success"
          BY <1>5, <3>2, <4>1, Placed DEF Ordered, JobOrdered, Required, My
        <5> QED BY <4>1, <5>1 DEF Ordered, RunOrdered
      <4>3. found'[job.run] = found[job.run] /\ (clean'[job.run] => clean[job.run])
        BY <4>1, <4>2, StillRecorded
      <4>4. clean[job.run] => found[job.run] = [live |-> live, tree |-> tree, baseline |-> baseline]
        BY <1>5, <3>2, <4>2, StillAsFound
      <4> QED BY <1>5, <3>2, <4>2, <4>3, <4>4 DEF OK
    <3> QED BY <3>1, <3>2
  <2>2. \A i \in DOMAIN snapshots' :
           \/ snapshots'[i] = [id |-> count.snapshots + 1, run |-> r, tree |-> tree]
           \/ \E k \in DOMAIN snapshots : snapshots'[i] = snapshots[k]
    BY <1>1, <1>5, SnapshotAdded
  <2> QED BY <1>2, <1>3, <2>1, <2>2
<1> QED BY <1>4, <1>5, SnapshotMoves

\* Every step keeps the records.
LEMMA RecordedStep ==
  ASSUME IInv, Typed, Ordered, Recorded, Next
  PROVE  Recorded'
BY BackupsTrueStep, SnapshotsTrueStep, FoundStillStep DEF Recorded, FoundStill

\* The steps of dotrun --rollback.
LEMMA ControlFoot ==
  ASSUME IInv, Typed, Next, job'.kind = "control"
  PROVE  \/ StartControl
         \/ /\ job.kind = "control"
            /\ \/ Expect \/ PreSnapshot \/ Install \/ RecordRollback \/ RestoreState \/ RestoreLive
               \/ RestoreFails \/ RollbackFails
               \/ job' = job /\ (LateStatus \/ EditLive \/ Deliver)
<1>1. Idle.kind # "control"
  BY DEF Idle
<1>2. Shaped /\ JobOK(job, lock, count.snapshots, DOMAIN runs)
  BY DEF IInv, Typed, Working
<1>3. CASE Setup
  <2>1. ASSUME NEW resume \in BOOLEAN, StartSetup(resume)
        PROVE  FALSE
    BY <2>1 DEF StartSetup, Idle
  <2>2. CASE LeaveReview \/ CancelRun \/ FailOutside \/ FinishRun
    BY <1>1, <2>2 DEF LeaveReview, CancelRun, FailOutside, FinishRun, Release
  <2>3. CASE job' = Advance(job) /\ job.kind = "setup"
    BY <1>2, <2>3 DEF Advance, Shaped, Fields
  <2>4. CASE Stage \/ ChoosePolicy \/ Preserve \/ SkipStage
    BY <1>1, <2>3, <2>4, StageWork, StageRuns DEF ChoosePolicy, Preserve, SkipStage, AtStage, InSetup
  <2>5. CASE Review
    <3>1. PICK choice, r : job' = [job EXCEPT !.pc = "enter", !.run = r, !.choice = choice,
                                              !.resume = @ /\ choice = None]
      BY Zenon, <2>5 DEF Review
    <3>2. job.kind = "setup"
      BY <2>5 DEF Review, InSetup
    <3> QED BY <1>2, <3>1, <3>2 DEF Shaped, Fields
  <2>6. CASE RecordBaseline
    BY <1>2, <2>6 DEF RecordBaseline, InSetup, Shaped, Fields
  <2> QED BY <1>3, <2>1, <2>2, <2>4, <2>5, <2>6 DEF Setup, Stage
<1>4. CASE Recovery
  <2>1. CASE StartRollback
    <3>1. job'.kind = "rollback"
      BY <2>1 DEF StartRollback, Idle
    <3> QED BY <3>1
  <2>2. CASE StartRestore
    <3>1. job'.kind = "restore"
      BY <2>2 DEF StartRestore, Idle
    <3> QED BY <3>1
  <2>3. CASE ReleaseJob
    BY <1>1, <2>3 DEF ReleaseJob, Release
  <2>4. CASE TakeSnapshot
    BY <1>1, <2>4 DEF TakeSnapshot
  <2>5. CASE Guard \/ Meta \/ ApplySnapshot
    <3>1. job'.kind = job.kind /\ job.pc \in {"guard", "meta", "apply"}
      BY <1>2, <2>5 DEF Guard, Meta, ApplySnapshot, Shaped, Fields, InJob
    <3> QED BY <1>2, <3>1 DEF JobOK, Idle, SetupLabels, ControlLabels
  <2>6. CASE Expect \/ PreSnapshot \/ Install \/ RecordRollback \/ RestoreState \/ RestoreLive
             \/ RestoreFails \/ RollbackFails
    <3>1. job'.kind = job.kind
      BY <1>2, <2>6 DEF Expect, PreSnapshot, Install, RecordRollback, RestoreState, RestoreLive,
         RestoreFails, RollbackFails, Shaped, Fields
    <3> QED BY <2>6, <3>1
  <2>7. CASE LateStatus
    BY <2>7 DEF LateStatus
  <2> QED BY <1>4, <2>1, <2>2, <2>3, <2>4, <2>5, <2>6, <2>7 DEF Recovery
<1>5. CASE Others
  BY <1>1, <1>5 DEF Others, EditLive, Deliver, Stop, RemoveLock
<1> QED BY <1>3, <1>4, <1>5 DEF Next

\* A rollback that starts takes what the run found from the run's newest backup and snapshot.
LEMMA ControlStarts ==
  ASSUME IInv, Typed, Ordered, Recorded, StartControl, Next
  PROVE  Controlling'
<1>1. /\ job.kind = "none" /\ UNCHANGED <<config, runs, store, history>>
      /\ UNCHANGED <<live, tree, baseline, found, clean, snapshots>>
  BY DEF StartControl, Idle, config, store, history, fixed
<1>2. PICK r \in DOMAIN runs :
        LET B == OfRun(backups, r)
            S == OfRun(snapshots, r)
            j == [Idle EXCEPT !.kind = "control", !.run = r]
        IN job' = IF B = {} THEN [j EXCEPT !.pc = "release", !.ok = FALSE]
                  ELSE IF S = {} THEN [j EXCEPT !.pc = "state", !.backup = backups[Latest(B)]]
                  ELSE [j EXCEPT !.pc = "expect", !.backup = backups[Latest(B)],
                                 !.snap = snapshots[Latest(S)].id, !.want = snapshots[Latest(S)].tree]
  BY DEF StartControl
<1>3. job'.run = r /\ r \in Runs /\ r # 0
  BY <1>2, RunsKnown, BoundAssumption DEF Idle, Runs
<1>4. StoresOK
  BY DEF Typed
<1>5. CASE OfRun(backups, r) = {}
  <2>1. job'.pc = "release" /\ job'.ok = FALSE
    BY <1>2, <1>5 DEF Idle
  <2> QED BY <2>1 DEF Controlling
<1>6. CASE OfRun(backups, r) # {}
  <2>1. PICK k \in DOMAIN backups : k = Latest(OfRun(backups, r)) /\ backups[k].run = r
    BY <1>4, <1>6, LatestIn DEF StoresOK
  <2>2. /\ found[r] # None
        /\ clean[r] => backups[k].live = found[r].live /\ backups[k].baseline = found[r].baseline
    BY <1>3, <2>1 DEF Recorded, BackupsTrue
  <2>3. CASE OfRun(snapshots, r) = {}
    <3>1. job'.pc = "state" /\ job'.snap = 0 /\ job'.backup = backups[k]
      BY <1>2, <1>6, <2>1, <2>3 DEF Idle
    <3>2. ASSUME clean[r], runs[r].stages["snapshot"] = "pending"
          PROVE  tree = found[r].tree
      <4>1. \A s \in Changing : runs[r].stages[s] = "pending"
        BY <3>2 DEF Ordered, RunOrdered
      <4>2. found[r] = [live |-> live, tree |-> tree, baseline |-> baseline]
        BY <1>1, <2>2, <3>2, <4>1 DEF Recorded, FoundStill
      <4> QED BY <4>2
    <3> QED BY <1>1, <1>3, <2>2, <3>1, <3>2 DEF Controlling, My
  <2>4. CASE OfRun(snapshots, r) # {}
    <3>1. PICK m \in DOMAIN snapshots : m = Latest(OfRun(snapshots, r)) /\ snapshots[m].run = r
      BY <1>4, <2>4, LatestIn DEF StoresOK
    <3>2. job'.pc = "expect" /\ job'.want = snapshots[m].tree /\ job'.backup = backups[k]
      BY <1>2, <1>6, <2>1, <2>4, <3>1 DEF Idle
    <3>3. clean[r] => snapshots[m].tree = found[r].tree
      BY <1>3, <3>1 DEF Recorded, SnapshotsTrue
    <3> QED BY <1>1, <1>3, <2>2, <3>2, <3>3 DEF Controlling
  <2> QED BY <2>3, <2>4
<1> QED BY <1>5, <1>6

\* A rollback goes on bringing back what the run found.
LEMMA ControlGoesOn ==
  ASSUME IInv, Typed, Controlling, Next, job.kind = "control", job'.kind = "control",
         job'.run = job.run, clean'[job.run], job'.pc = "release" => job'.ok
  PROVE  Controlling'
<1> DEFINE r == job.run
           f == found[r]
           Tree(j) == IF j.snap = 0 THEN My.stages["snapshot"] = "pending" ELSE Kept(j.snap)
<1>1. r \in Runs /\ r # 0 /\ r \in DOMAIN runs /\ Shaped
  BY RunsKnown, BoundAssumption DEF Typed, Working, JobOK, Runs, IInv
<1>2. ~Stage
  BY StageRuns DEF InSetup
<1>3. /\ clean[r] /\ ~Disturb(0)
      /\ found' = found
  <2>1. /\ clean[r] \/ (Stage /\ Step = "backup" /\ r = job.run /\ found[r] = None)
        /\ ~Disturb(0)
    BY Zenon, <1>1, CleanMoves
  <2>2. found' = found
    BY <1>2, HistoryFoot
  <2> QED BY Zenon, <1>2, <2>1, <2>2
<1>4. My'.stages = My.stages
  BY <1>1, <1>2, RunsMoves DEF My
<1>5. /\ job.pc = "release" => job.ok
      => /\ f # None
         /\ job.pc # "release" => job.backup.live = f.live /\ job.backup.baseline = f.baseline
         /\ job.pc \in {"expect", "presnap", "install"} => job.want = f.tree
         /\ job.pc \in {"record", "state", "live", "release"} /\ Tree(job) => tree = f.tree
         /\ job.pc \in {"live", "release"} => baseline = f.baseline
         /\ job.pc = "release" => live = f.live
  BY <1>3 DEF Controlling
<1>6. ASSUME f # None,
             job'.pc # "release" => job'.backup.live = f.live /\ job'.backup.baseline = f.baseline,
             job'.pc \in {"expect", "presnap", "install"} => job'.want = f.tree,
             job'.pc \in {"record", "state", "live", "release"} /\ Tree(job)' => tree' = f.tree,
             job'.pc \in {"live", "release"} => baseline' = f.baseline,
             job'.pc = "release" => live' = f.live
      PROVE  Controlling'
  BY <1>3, <1>6 DEF Controlling
<1>7. UNCHANGED snapshots => (Kept(job.snap)' <=> (\E i \in DOMAIN snapshots : snapshots[i].id = job'.snap))
  BY DEF Kept
<1>8. ASSUME UNCHANGED snapshots, job'.snap = job.snap
      PROVE  Tree(job)' <=> Tree(job)
  BY <1>4, <1>8 DEF Kept
<1>9. ASSUME job'.snap # 0, job.snap = job'.snap, UNCHANGED snapshots
      PROVE  Tree(job)' => Kept(job.snap)
  BY <1>9 DEF Kept
<1> HIDE DEF Tree, r, f
<1>10. CASE Expect
  <2>1. job.pc = "expect" /\ job' \in {[job EXCEPT !.pc = "presnap"], [job EXCEPT !.pc = "release", !.ok = FALSE]}
    BY <1>10 DEF Expect, InJob
  <2>2. job'.pc = "presnap" /\ job'.backup = job.backup /\ job'.want = job.want
    BY <1>1, <2>1 DEF Shaped, Fields
  <2> QED BY <1>5, <1>6, <2>1, <2>2
<1>11. CASE PreSnapshot
  <2>1. job.pc = "presnap" /\ job'.pc = "install" /\ job'.backup = job.backup /\ job'.want = job.want
    BY <1>1, <1>11 DEF PreSnapshot, InJob, FromRun, Shaped, Fields
  <2> QED BY <1>5, <1>6, <2>1
<1>12. CASE Install
  <2>1. /\ job.pc = "install" /\ job'.pc = "record" /\ job'.backup = job.backup /\ job'.snap = job.snap
        /\ UNCHANGED snapshots /\ tree' = IF Kept(job.snap) THEN job.want ELSE Empty
    BY <1>1, <1>12 DEF Install, InJob, FromRun, Shaped, Fields
  <2>2. job.snap # 0
    BY <2>1 DEF Typed, Working, JobOK
  <2>3. Tree(job)' => Kept(job.snap)
    BY <1>9, <2>1, <2>2
  <2> QED BY <1>5, <1>6, <2>1, <2>3
<1>13. CASE RecordRollback
  <2>1. /\ job.pc = "record" /\ job'.pc = "state" /\ job'.backup = job.backup /\ job'.snap = job.snap
        /\ UNCHANGED <<snapshots, tree>>
    BY <1>1, <1>13 DEF RecordRollback, InJob, FromRun, Shaped, Fields, store
  <2>2. Tree(job)' <=> Tree(job)
    BY <1>8, <2>1
  <2> QED BY <1>5, <1>6, <2>1, <2>2
<1>14. CASE RestoreState
  <2>1. /\ job.pc = "state" /\ job'.pc = "live" /\ job'.backup = job.backup /\ job'.snap = job.snap
        /\ UNCHANGED <<snapshots, tree>> /\ baseline' = job.backup.baseline
    <3>1. job.pc = "state" /\ UNCHANGED <<snapshots, tree>> /\ baseline' = job.backup.baseline
          /\ \E b : job' = [job EXCEPT !.pc = "live", !.before = b]
      BY <1>14 DEF RestoreState, InJob, store
    <3> QED BY <1>1, <3>1 DEF Shaped, Fields
  <2>2. Tree(job)' <=> Tree(job)
    BY <1>8, <2>1
  <2> QED BY <1>5, <1>6, <2>1, <2>2
<1>15. CASE RestoreLive
  <2>1. /\ job.pc = "live" /\ job'.pc = "release" /\ job'.snap = job.snap
        /\ UNCHANGED <<snapshots, tree, baseline>> /\ live' = job.backup.live
    BY <1>1, <1>15 DEF RestoreLive, InJob, Shaped, Fields, store
  <2>2. Tree(job)' <=> Tree(job)
    BY <1>8, <2>1
  <2> QED BY <1>5, <1>6, <2>1, <2>2
<1>16. CASE RestoreFails \/ RollbackFails
  <2>1. job'.pc = "release" /\ job'.ok = FALSE
    BY <1>1, <1>16 DEF RestoreFails, RollbackFails, Shaped, Fields
  <2> QED BY <2>1
<1>17. CASE job' = job /\ LateStatus
  <2>1. UNCHANGED <<live, tree, baseline, snapshots>>
    BY <1>17 DEF LateStatus, config, store
  <2>2. Tree(job)' <=> Tree(job)
    BY <1>8, <1>17, <2>1
  <2> QED BY <1>5, <1>6, <1>17, <2>1, <2>2
<1>18. CASE EditLive \/ Deliver
  BY <1>3, <1>18 DEF EditLive, Deliver
<1>19. CASE StartControl
  BY <1>19 DEF StartControl, Idle
<1> QED BY <1>10, <1>11, <1>12, <1>13, <1>14, <1>15, <1>16, <1>17, <1>18, <1>19, ControlFoot

\* A rollback of an undisturbed run stays on course.
LEMMA ControllingStep ==
  ASSUME IInv, Typed, Ordered, Recorded, Controlling, Next
  PROVE  Controlling'
<1>1. CASE ~(job'.kind = "control" /\ clean'[job'.run] /\ (job'.pc = "release" => job'.ok))
  BY Zenon, <1>1 DEF Controlling
<1>2. CASE StartControl
  BY <1>2, ControlStarts
<1>3. CASE job.kind = "control" /\ job'.kind = "control" /\ clean'[job'.run] /\ (job'.pc = "release" => job'.ok)
  <2>1. job'.run \in Runs
    <3>1. Typed'
      BY TypedStep
    <3>2. job'.run \in DOMAIN runs'
      BY <1>3, <3>1 DEF Typed, Working, JobOK
    <3> QED BY <3>2, OldOrNew
  <2>2. ~Disturb(0)
    BY Zenon, <1>3, <2>1, CleanMoves
  <2>3. job'.run = job.run
    BY <1>3, <2>2, ControlStays
  <2> QED BY <1>3, <2>3, ControlGoesOn
<1> QED BY <1>1, <1>2, <1>3, ControlFoot

-----------------------------------------------------------------------------
(* What is selected, and what copies cover *)

\* Setup ends or stands at one of its labels.
LEMMA SetupMoves ==
  ASSUME IInv, Typed, Setup
  PROVE  job' = Idle \/ (job'.kind = "setup" /\ job'.pc \in SetupLabels)
<1>0. Shaped
  BY DEF IInv
<1>1. ASSUME NEW resume \in BOOLEAN, StartSetup(resume)
      PROVE  job'.kind = "setup" /\ job'.pc \in SetupLabels
  BY <1>1 DEF StartSetup, Idle, SetupLabels
<1>2. CASE LeaveReview \/ CancelRun \/ FailOutside \/ FinishRun
  BY <1>2 DEF LeaveReview, CancelRun, FailOutside, FinishRun, Release
<1>3. ASSUME job' = Advance(job), job.kind = "setup"
      PROVE  job'.kind = "setup" /\ job'.pc \in SetupLabels
  BY <1>0, <1>3 DEF Advance, Shaped, Fields, SetupLabels
<1>4. CASE Stage \/ ChoosePolicy \/ Preserve \/ SkipStage
  BY <1>3, <1>4, StageWork, StageRuns DEF ChoosePolicy, Preserve, SkipStage, AtStage, InSetup
<1>5. CASE Review
  <2>1. PICK choice, r : job' = [job EXCEPT !.pc = "enter", !.run = r, !.choice = choice,
                                            !.resume = @ /\ choice = None]
    BY Zenon, <1>5 DEF Review
  <2>2. job.kind = "setup"
    BY <1>5 DEF Review, InSetup
  <2> QED BY <1>0, <2>1, <2>2 DEF Shaped, Fields, SetupLabels
<1>6. CASE RecordBaseline
  BY <1>0, <1>6 DEF RecordBaseline, InSetup, Shaped, Fields, SetupLabels
<1> QED BY <1>1, <1>2, <1>4, <1>5, <1>6 DEF Setup, Stage

\* An operation starts, ends, or goes on with what it holds.
LEMMA JobMoves ==
  ASSUME IInv, Typed, Next
  PROVE  \/ StartControl \/ StartRestore \/ StartRollback
         \/ job' = Idle
         \/ job'.kind = "setup" /\ job'.pc \in SetupLabels
         \/ job' = job
         \/ job.pc # "release" /\ Follows
<1>1. Shaped /\ JobOK(job, lock, count.snapshots, DOMAIN runs)
  BY DEF IInv, Typed, Working
<1>2. CASE Setup
  BY <1>2, SetupMoves
<1>3. CASE Recovery
  <2>1. CASE ReleaseJob
    BY <2>1 DEF ReleaseJob, Release
  <2>2. CASE TakeSnapshot \/ LateStatus
    BY <2>2 DEF TakeSnapshot, LateStatus
  <2>3. CASE Expect \/ PreSnapshot \/ Guard \/ Install \/ Meta \/ ApplySnapshot \/ RecordRollback
             \/ RestoreState \/ RestoreLive \/ RestoreFails \/ RollbackFails
    BY <1>1, <2>3 DEF Shaped, Fields, Expect, PreSnapshot, Guard, Install, Meta, ApplySnapshot, RecordRollback,
       RestoreState, RestoreLive, RestoreFails, RollbackFails, InJob, Follows
  <2> QED BY <1>3, <2>1, <2>2, <2>3 DEF Recovery
<1>4. CASE Others
  BY <1>4 DEF Others, EditLive, Deliver, Stop, RemoveLock
<1> QED BY <1>2, <1>3, <1>4 DEF Next

\* Snapshots are told apart.
LEMMA SnapshotsApart ==
  ASSUME IInv, Typed, Selected, Next
  PROVE  \A i, k \in DOMAIN snapshots' : snapshots'[i].id = snapshots'[k].id => i = k
<1>1. /\ ConfigOK /\ StoresOK /\ count.snapshots \in Nat
      /\ \A i \in DOMAIN snapshots : snapshots[i].id <= count.snapshots
      /\ \A i, k \in DOMAIN snapshots : snapshots[i].id = snapshots[k].id => i = k
  BY DEF Typed, Counted, Selected
<1>2. CASE UNCHANGED snapshots
  BY <1>1, <1>2
<1>3. ASSUME NEW r \in 0..MaxRuns,
             snapshots' = Newest(Append(snapshots, [id |-> count.snapshots + 1, run |-> r, tree |-> tree]))
      PROVE  \A i, k \in DOMAIN snapshots' : snapshots'[i].id = snapshots'[k].id => i = k
  <2> DEFINE x == [id |-> count.snapshots + 1, run |-> r, tree |-> tree]
             s == snapshots
             n == snapshots'
  <2>1. x \in Snapshot /\ x.id = count.snapshots + 1 /\ s \in Seq(Snapshot)
    BY <1>1 DEF Snapshot, ConfigOK, StoresOK
  <2>2. n = Newest(Append(s, x))
    BY <1>3
  <2> HIDE DEF x
  <2>3. \E d \in Nat : Shifted(Newest(Append(s, x)), s, x, d)
    <3>1. s \in Seq(Snapshot)
      BY <2>1
    <3> QED BY ZenonT(30), <2>1, <3>1, Pruned
  <2>4. PICK d \in Nat : Shifted(n, s, x, d)
    BY <2>2, <2>3
  <2>5. /\ Len(n) \in Nat /\ DOMAIN n = 1..Len(n)
        /\ \A i \in 1..Len(n) : n[i] = IF i = Len(n) THEN x ELSE s[i + d]
        /\ \A i \in 1..Len(n) : i # Len(n) => i + d \in DOMAIN s
    BY <2>4 DEF Shifted
  <2>6. \A i \in DOMAIN s : s[i].id <= count.snapshots /\ s[i].id \in Nat
    <3>1. \A i \in DOMAIN snapshots : snapshots[i] \in Snapshot
      BY <2>1, ElementOfSeq
    <3> QED BY <1>1, <3>1 DEF Snapshot
  <2>7. \A i, k \in DOMAIN s : s[i].id = s[k].id => i = k
    BY <1>1
  <2> HIDE DEF s, n
  <2>8. ASSUME NEW i \in 1..Len(n), NEW k \in 1..Len(n), n[i].id = n[k].id
        PROVE  i = k
    <3>1. CASE i = Len(n) /\ k = Len(n)
      BY <3>1
    <3>2. CASE i # Len(n) /\ k # Len(n)
      <4>1. i + d \in DOMAIN s /\ k + d \in DOMAIN s /\ s[i + d].id = s[k + d].id
        BY <2>5, <2>8, <3>2
      <4>2. i + d = k + d
        BY <2>7, <4>1
      <4>3. i \in Int /\ k \in Int
        OBVIOUS
      <4> QED BY <4>2, <4>3
    <3>3. CASE i = Len(n) /\ k # Len(n)
      <4>1. k + d \in DOMAIN s /\ s[k + d].id = count.snapshots + 1
        BY <2>1, <2>5, <2>8, <3>3
      <4> QED BY <1>1, <2>6, <4>1
    <3>4. CASE i # Len(n) /\ k = Len(n)
      <4>1. i + d \in DOMAIN s /\ s[i + d].id = count.snapshots + 1
        BY <2>1, <2>5, <2>8, <3>4
      <4> QED BY <1>1, <2>6, <4>1
    <3> QED BY <3>1, <3>2, <3>3, <3>4
  <2> QED BY <2>5, <2>8 DEF n
<1> QED BY <1>2, <1>3, SnapshotMoves

\* A restore from a backup uses one that is there.
LEMMA BackupThere ==
  ASSUME IInv, Typed, Selected, Next, job'.kind \in {"control", "restore"}, job'.pc # "release"
  PROVE  \E i \in DOMAIN backups' : backups'[i] = job'.backup
<1>1. Shaped /\ StoresOK /\ JobOK(job, lock, count.snapshots, DOMAIN runs)
  BY DEF IInv, Typed, Working
<1>2. CASE StartControl
  <2>1. PICK r \in DOMAIN runs :
          LET B == OfRun(backups, r)
              S == OfRun(snapshots, r)
              j == [Idle EXCEPT !.kind = "control", !.run = r]
          IN job' = IF B = {} THEN [j EXCEPT !.pc = "release", !.ok = FALSE]
                    ELSE IF S = {} THEN [j EXCEPT !.pc = "state", !.backup = backups[Latest(B)]]
                    ELSE [j EXCEPT !.pc = "expect", !.backup = backups[Latest(B)],
                                   !.snap = snapshots[Latest(S)].id, !.want = snapshots[Latest(S)].tree]
    BY <1>2 DEF StartControl
  <2>2. OfRun(backups, r) # {}
    BY <2>1 DEF Idle
  <2>3. Latest(OfRun(backups, r)) \in DOMAIN backups
    BY <1>1, <2>2, LatestIn DEF StoresOK
  <2>4. job'.backup = backups[Latest(OfRun(backups, r))]
    BY <2>1, <2>2 DEF Idle
  <2>5. UNCHANGED backups
    BY <1>2 DEF StartControl, store
  <2> QED BY <2>3, <2>4, <2>5
<1>3. CASE StartRestore
  <2>1. PICK i \in DOMAIN backups :
          job' = [Idle EXCEPT !.kind = "restore", !.pc = "state", !.backup = backups[i]]
    BY <1>3 DEF StartRestore
  <2>2. job'.backup = backups[i] /\ UNCHANGED backups
    BY <1>3, <2>1 DEF StartRestore, Idle, store
  <2> QED BY <2>2
<1>4. CASE ~StartControl /\ ~StartRestore
  <2>1. job'.kind \in {"control", "restore"} /\ job'.backup = job.backup /\ job'.kind = job.kind /\ job.pc # "release"
    <3>1. StartRollback => job'.kind = "rollback"
      BY DEF StartRollback, Idle
    <3>2. Idle.kind = "none"
      BY DEF Idle
    <3> QED BY <1>4, <3>1, <3>2, JobMoves DEF Follows
  <2>2. \E i \in DOMAIN backups : backups[i] = job.backup
    BY <2>1 DEF Selected
  <2>3. UNCHANGED backups
    <3>1. ~Stage
      BY <2>1, StageRuns DEF InSetup
    <3>2. ~Guard
      BY <1>1, <2>1 DEF Guard, InJob, JobOK, Idle, ControlLabels
    <3> QED BY <3>1, <3>2, StoreFoot
  <2> QED BY <2>1, <2>2, <2>3
<1> QED BY <1>2, <1>3, <1>4

\* And a rollback one whose content is the one it selected, or is gone.
LEMMA SelectedThere ==
  ASSUME IInv, Typed, Selected, Next, job'.pc \in {"expect", "presnap", "guard", "install"},
         NEW i \in DOMAIN snapshots', snapshots'[i].id = job'.snap
  PROVE  snapshots'[i].tree = job'.want
<1>1. Shaped /\ StoresOK /\ ConfigOK /\ JobOK(job, lock, count.snapshots, DOMAIN runs) /\ count.snapshots \in Nat
  BY DEF IInv, Typed, Working, Counted
<1>2. \A j, k \in DOMAIN snapshots : snapshots[j].id = snapshots[k].id => j = k
  BY DEF Selected
<1>3. CASE StartControl
  <2>1. PICK r \in DOMAIN runs :
          LET B == OfRun(backups, r)
              S == OfRun(snapshots, r)
              j == [Idle EXCEPT !.kind = "control", !.run = r]
          IN job' = IF B = {} THEN [j EXCEPT !.pc = "release", !.ok = FALSE]
                    ELSE IF S = {} THEN [j EXCEPT !.pc = "state", !.backup = backups[Latest(B)]]
                    ELSE [j EXCEPT !.pc = "expect", !.backup = backups[Latest(B)],
                                   !.snap = snapshots[Latest(S)].id, !.want = snapshots[Latest(S)].tree]
    BY <1>3 DEF StartControl
  <2>2. OfRun(backups, r) # {} /\ OfRun(snapshots, r) # {}
    BY <2>1 DEF Idle
  <2>3. Latest(OfRun(snapshots, r)) \in DOMAIN snapshots
    BY <1>1, <2>2, LatestIn DEF StoresOK
  <2>4. /\ job'.snap = snapshots[Latest(OfRun(snapshots, r))].id
        /\ job'.want = snapshots[Latest(OfRun(snapshots, r))].tree
    BY <2>1, <2>2 DEF Idle
  <2>5. UNCHANGED snapshots
    BY <1>3 DEF StartControl, store
  <2> QED BY <1>2, <2>3, <2>4, <2>5
<1>4. CASE StartRollback
  <2>1. PICK k \in DOMAIN snapshots :
          job' = [Idle EXCEPT !.kind = "rollback", !.pc = "expect",
                              !.snap = snapshots[k].id, !.want = snapshots[k].tree]
    BY <1>4 DEF StartRollback
  <2>2. job'.snap = snapshots[k].id /\ job'.want = snapshots[k].tree /\ UNCHANGED snapshots
    BY <1>4, <2>1 DEF StartRollback, Idle, store
  <2> QED BY <1>2, <2>2
<1>5. CASE ~StartControl /\ ~StartRollback
  <2>1. /\ job'.want = job.want /\ job'.snap = job.snap /\ job.snap # 0 /\ job.snap \in 0..count.snapshots
        /\ job.pc \in {"expect", "presnap", "guard", "install"}
    <3>1. CASE StartRestore
      BY <3>1 DEF StartRestore, Idle
    <3>2. CASE job' = job
      BY <1>1, <3>2 DEF JobOK
    <3>3. CASE job' = Idle \/ (job'.kind = "setup" /\ job'.pc \in SetupLabels)
      BY <3>3 DEF Idle, SetupLabels
    <3>4. CASE job' # job /\ job' # Idle /\ ~StartRestore /\ ~(job'.kind = "setup" /\ job'.pc \in SetupLabels)
      <4>1. Follows
        BY <1>5, <3>4, JobMoves
      <4>2. Expect \/ PreSnapshot \/ Guard
        <5>1. CASE Install \/ Meta \/ ApplySnapshot \/ RecordRollback
                   \/ RestoreState \/ RestoreLive \/ RestoreFails \/ RollbackFails
          BY <1>1, <5>1 DEF Shaped, Fields, Install, Meta, ApplySnapshot, RecordRollback,
             RestoreState, RestoreLive, RestoreFails, RollbackFails, InJob
        <5>2. CASE ReleaseJob \/ TakeSnapshot \/ LateStatus
          BY <3>4, <5>2 DEF ReleaseJob, TakeSnapshot, LateStatus, Release
        <5>3. ~Setup
          <6>1. Setup => job' = Idle \/ (job'.kind = "setup" /\ job'.pc \in SetupLabels)
            BY SetupMoves
          <6> QED BY <3>4, <6>1
        <5>4. ~Others
          BY <3>4 DEF Others, EditLive, Deliver, Stop, RemoveLock
        <5> QED BY <1>5, <3>4, <5>1, <5>2, <5>3, <5>4 DEF Next, Recovery
      <4>3. job.pc \in {"expect", "presnap", "guard"}
        BY <4>2 DEF Expect, PreSnapshot, Guard, InJob
      <4> QED BY <1>1, <4>1, <4>3 DEF Follows, JobOK
    <3> QED BY <3>1, <3>2, <3>3, <3>4
  <2>2. \A k \in DOMAIN snapshots : snapshots[k].id = job.snap => snapshots[k].tree = job.want
    BY <2>1 DEF Selected
  <2>3. CASE UNCHANGED snapshots
    BY <2>1, <2>2, <2>3
  <2>4. ASSUME NEW r \in 0..MaxRuns,
               snapshots' = Newest(Append(snapshots, [id |-> count.snapshots + 1, run |-> r, tree |-> tree]))
        PROVE  snapshots'[i].tree = job'.want
    <3>1. \/ snapshots'[i] = [id |-> count.snapshots + 1, run |-> r, tree |-> tree]
          \/ \E k \in DOMAIN snapshots : snapshots'[i] = snapshots[k]
      BY <1>1, <2>4, SnapshotAdded
    <3>2. snapshots'[i] # [id |-> count.snapshots + 1, run |-> r, tree |-> tree]
      BY <1>1, <2>1
    <3> QED BY <2>1, <2>2, <3>1, <3>2
  <2> QED BY <2>3, <2>4, SnapshotMoves
<1> QED BY <1>3, <1>4, <1>5

\* Every step keeps the selection.
LEMMA SelectedStep ==
  ASSUME IInv, Typed, Selected, Next
  PROVE  Selected'
BY SnapshotsApart, BackupThere, SelectedThere DEF Selected

\* What copies cover of the live configuration stays covered: it is backed up, or newer.
LEMMA LivesKept ==
  ASSUME IInv, Typed, Next, live' = live, live \in Lives
  PROVE  live' \in Lives'
<1>1. ConfigOK /\ StoresOK
  BY DEF Typed
<1>2. CASE UNCHANGED backups
  BY <1>2 DEF Lives
<1>3. ASSUME NEW r \in 0..MaxRuns, AddBackup(r)
      PROVE  live' \in Lives'
  <2>1. \E i \in DOMAIN backups' : backups'[i] = [run |-> r, live |-> live, baseline |-> baseline, sync |-> sync]
    BY <1>1, <1>3, BackupAdded
  <2> QED BY <2>1 DEF Lives
<1> QED BY <1>2, <1>3, StoreMoves

\* The same of the source and the snapshots.
LEMMA CfgsKept ==
  ASSUME IInv, Typed, Next
  PROVE  /\ tree'.cfg = tree.cfg /\ tree.cfg \in Cfgs => tree'.cfg \in Cfgs'
         /\ tree'.extra = tree.extra /\ tree.extra \in ExtraCfgs => tree'.extra \in ExtraCfgs'
<1>1. ConfigOK /\ StoresOK /\ count.snapshots \in Nat
  BY DEF Typed, Counted
<1>2. CASE UNCHANGED snapshots
  BY <1>2 DEF Cfgs, ExtraCfgs
<1>3. ASSUME NEW r \in 0..MaxRuns,
             snapshots' = Newest(Append(snapshots, [id |-> count.snapshots + 1, run |-> r, tree |-> tree]))
      PROVE  tree.cfg \in Cfgs' /\ tree.extra \in ExtraCfgs'
  <2>1. \E i \in DOMAIN snapshots' : snapshots'[i] = [id |-> count.snapshots + 1, run |-> r, tree |-> tree]
    BY <1>1, <1>3, SnapshotAdded
  <2> QED BY <2>1 DEF Cfgs, ExtraCfgs
<1> QED BY <1>2, <1>3, SnapshotMoves

\* A new backup covers what is live, a new snapshot what is in the source.
LEMMA NewlyCovered ==
  ASSUME ConfigOK, StoresOK, count.snapshots \in Nat, NEW r \in 0..MaxRuns
  PROVE  /\ AddBackup(r) => live \in Lives'
         /\ limit.snapshots /\ AddSnapshot(r) => tree.cfg \in Cfgs' /\ tree.extra \in ExtraCfgs'
<1>1. ASSUME AddBackup(r)
      PROVE  live \in Lives'
  <2>1. \E i \in DOMAIN backups' : backups'[i] = [run |-> r, live |-> live, baseline |-> baseline, sync |-> sync]
    BY <1>1, BackupAdded
  <2> QED BY <2>1 DEF Lives
<1>2. ASSUME limit.snapshots, AddSnapshot(r)
      PROVE  tree.cfg \in Cfgs' /\ tree.extra \in ExtraCfgs'
  <2>1. CASE snapshots' = Newest(Append(snapshots, [id |-> count.snapshots + 1, run |-> r, tree |-> tree]))
    <3>1. \E i \in DOMAIN snapshots' : snapshots'[i] = [id |-> count.snapshots + 1, run |-> r, tree |-> tree]
      BY <2>1, SnapshotAdded
    <3> QED BY <3>1 DEF Cfgs, ExtraCfgs
  <2>2. CASE tree = Empty
    BY <2>2 DEF Empty, Cfgs, ExtraCfgs
  <2> QED BY <1>2, <2>1, <2>2 DEF AddSnapshot, NoSnapshot
<1> QED BY <1>1, <1>2

\* How the live configuration moves: as it was, newly written, or brought from somewhere.
LEMMA LiveMoves ==
  ASSUME IInv, Typed, Selected, Next
  PROVE  \/ live' = live /\ ("live" \in copied' <=> "live" \in copied)
         \/ "live" \in copied'
         \/ /\ live' = count.version + 1 /\ count'.version = count.version + 1 /\ EditLive
         \/ RestoreLive /\ live' \in Lives'
<1>1. CASE Stage
  <2>1. Effect \/ UNCHANGED <<config, store, count, history>>
    BY <1>1, StageWork
  <2>2. CASE UNCHANGED <<config, store, count, history>>
    BY <2>2 DEF config, history
  <2>3. CASE Effect
    <3>1. ASSUME NEW t, WriteTree(t)
          PROVE  live' = live /\ ("live" \in copied' <=> "live" \in copied)
      BY <3>1 DEF WriteTree, BroughtOver, InTree
    <3>2. CASE WriteLive(Applied)
      BY <3>2 DEF WriteLive, BroughtOver
    <3>5. CASE WriteExtra(Restored)
      BY <3>5 DEF WriteExtra
    <3>3. CASE BackupStage \/ SnapshotStage \/ LocalBackupStage \/ BaselineStage
      BY <3>3 DEF BackupStage, SnapshotStage, LocalBackupStage, BaselineStage, config, history
    <3>4. CASE UNCHANGED <<config, store, count, history>>
      BY <2>2, <3>4
    <3> QED BY <2>3, <3>1, <3>2, <3>3, <3>4, <3>5, EffectCases
  <2> QED BY <2>1, <2>2, <2>3
<1>2. CASE ~Stage
  <2>1. CASE UNCHANGED config /\ UNCHANGED copied
    BY <2>1 DEF config
  <2>2. CASE RecordBaseline \/ Meta \/ RecordRollback \/ RestoreState
    BY <2>2 DEF RecordBaseline, Meta, RecordRollback, RestoreState, history
  <2>3. CASE Install \/ Deliver
    BY <2>3 DEF Install, Deliver, WrittenThere, InTree
  <2>4. CASE ApplySnapshot \/ RestoreFails
    BY <2>4 DEF ApplySnapshot, RestoreFails, BroughtOver
  <2>5. CASE RestoreLive
    <3>1. job.kind \in {"control", "restore"} /\ job.pc # "release"
      BY <2>5 DEF RestoreLive, InJob, Typed, Working, JobOK, Idle, SetupLabels, RollbackLabels
    <3>2. live' = job.backup.live /\ UNCHANGED backups
      BY <2>5 DEF RestoreLive, store
    <3>3. \E i \in DOMAIN backups : backups[i] = job.backup
      BY <3>1 DEF Selected
    <3> QED BY <2>5, <3>2, <3>3 DEF Lives
  <2>6. CASE EditLive
    <3>1. /\ live' = count'.version \/ UNCHANGED <<live, copied>>
          /\ count' = [count EXCEPT !.version = @ + 1]
      BY <2>6 DEF EditLive
    <3>2. count'.version = count.version + 1
      BY <3>1 DEF Typed, Counted
    <3> QED BY <2>6, <3>1, <3>2
  <2> QED BY <1>2, <2>1, <2>2, <2>3, <2>4, <2>5, <2>6, ConfigFoot, HistoryFoot
<1> QED BY <1>1, <1>2

\* A content of the source is as it was or was brought there.
CfgStill == "cfg" \in copied' \/ (tree'.cfg = tree.cfg /\ ("cfg" \in copied' <=> "cfg" \in copied))
ExtraStill == "extra" \in copied' \/ (tree'.extra = tree.extra /\ ("extra" \in copied' <=> "extra" \in copied))

\* How what the source holds moves: it stays, is brought over, newly written, or restored.
LEMMA TreeMoves ==
  ASSUME IInv, Typed, Selected, Next
  PROVE  \/ CfgStill /\ ExtraStill
         \/ /\ tree'.cfg = count.version + 1 /\ tree'.extra = count.version + 1
            /\ count'.version = count.version + 1
         \/ Install /\ tree'.cfg \in Cfgs' /\ tree'.extra \in ExtraCfgs'
<1>1. CASE Stage
  <2>1. Effect \/ UNCHANGED <<config, store, count, history>>
    BY <1>1, StageWork
  <2>2. CASE UNCHANGED <<config, store, count, history>>
    BY <2>2 DEF config, history, CfgStill, ExtraStill
  <2>3. CASE Effect
    <3>1. ASSUME NEW t, WriteTree(t)
          PROVE  CfgStill /\ ExtraStill
      BY <3>1 DEF CfgStill, ExtraStill, WriteTree, BroughtOver, InTree
    <3>2. CASE WriteLive(Applied)
      BY <3>2 DEF WriteLive, BroughtOver, CfgStill, ExtraStill
    <3>5. CASE WriteExtra(Restored)
      BY <3>5 DEF WriteExtra, CfgStill, ExtraStill
    <3>3. CASE BackupStage \/ SnapshotStage \/ LocalBackupStage \/ BaselineStage
      BY <3>3 DEF BackupStage, SnapshotStage, LocalBackupStage, BaselineStage, config, history, CfgStill, ExtraStill
    <3>4. CASE UNCHANGED <<config, store, count, history>>
      BY <2>2, <3>4
    <3> QED BY <2>3, <3>1, <3>2, <3>3, <3>4, <3>5, EffectCases
  <2> QED BY <2>1, <2>2, <2>3
<1>2. CASE ~Stage
  <2>1. CASE UNCHANGED config /\ UNCHANGED copied
    BY <2>1 DEF config, CfgStill, ExtraStill
  <2>2. CASE RecordBaseline \/ RecordRollback \/ RestoreState
    BY <2>2 DEF RecordBaseline, RecordRollback, RestoreState, history, CfgStill, ExtraStill
  <2>3. CASE RestoreLive \/ EditLive \/ ApplySnapshot \/ RestoreFails
    BY <2>3 DEF RestoreLive, EditLive, ApplySnapshot, RestoreFails, WrittenThere, BroughtOver,
       CfgStill, ExtraStill
  <2>4. CASE Meta
    <3>1. tree' = [tree EXCEPT !.stamp = 1 + (MaxRuns + job.snap)] /\ UNCHANGED copied
      BY <2>4 DEF Meta, Stamped
    <3> QED BY <3>1 DEF Typed, ConfigOK, Trees, CfgStill, ExtraStill
  <2>5. CASE Install
    <3>1. job.pc = "install" /\ tree' = (IF Kept(job.snap) THEN job.want ELSE Empty) /\ UNCHANGED snapshots
      BY <2>5 DEF Install, InJob
    <3>2. \A i \in DOMAIN snapshots : snapshots[i].id = job.snap => snapshots[i].tree = job.want
      BY <3>1 DEF Selected
    <3> QED BY <2>5, <3>1, <3>2 DEF Kept, Cfgs, ExtraCfgs, Empty
  <2>6. CASE Deliver
    <3>1. /\ tree'.cfg = count'.version /\ tree'.extra = count'.version
          /\ count' = [count EXCEPT !.version = @ + 1]
      BY <2>6 DEF Deliver
    <3>2. count'.version = count.version + 1
      BY <3>1 DEF Typed, Counted
    <3> QED BY <3>1, <3>2
  <2> QED BY <1>2, <2>1, <2>2, <2>3, <2>4, <2>5, <2>6, ConfigFoot, HistoryFoot
<1> QED BY <1>1, <1>2

\* What a run's last backup and snapshot saved changes when it takes another.
LEMMA SavedMoves ==
  ASSUME IInv, Typed, Next, NEW r \in Runs
  PROVE  /\ \/ Stage /\ Step = "backup" /\ BackupStage /\ r = job.run
            \/ found'[r] = found[r] /\ saved'[r].backup = saved[r].backup
         /\ \/ Stage /\ Step = "snapshot" /\ SnapshotStage /\ r = job.run
            \/ saved'[r].snapshot = saved[r].snapshot
<1>1. saved \in [Runs -> [backup : Contents, snapshot : Contents]] /\ found \in [Runs -> Optionally(Found)]
  BY DEF Typed, Counted
<1>2. CASE UNCHANGED <<found, saved>>
  BY <1>2
<1>3. CASE Stage /\ Step = "backup" /\ BackupStage
  BY <1>1, <1>3 DEF BackupStage
<1>4. CASE Stage /\ Step = "snapshot" /\ SnapshotStage
  BY <1>1, <1>4 DEF SnapshotStage
<1>5. CASE Stage /\ Effect
  <2>1. ASSUME NEW t, WriteTree(t)
        PROVE  UNCHANGED <<found, saved>>
    BY <2>1 DEF WriteTree, fixed
  <2>2. CASE WriteLive(Applied) \/ WriteExtra(Restored) \/ LocalBackupStage \/ BaselineStage \/ UNCHANGED history
    BY <1>2, <2>2 DEF WriteLive, WriteExtra, LocalBackupStage, BaselineStage, fixed, history
  <2> QED BY <1>2, <1>3, <1>4, <1>5, <2>1, <2>2, EffectCases
<1>6. CASE Stage /\ UNCHANGED <<config, store, count, history>>
  BY <1>2, <1>6 DEF history, fixed
<1> QED BY <1>2, <1>5, <1>6, HistoryFoot, StageWork

\* The live configuration is in a backup, newer than the run's, or came from the source.
LEMMA LivesCoveredStep ==
  ASSUME IInv, Typed, Selected, LivesCovered, Next
  PROVE  LivesCovered'
<1> SUFFICES ASSUME NEW r \in Runs, found'[r] # None, "live" \notin copied'
             PROVE  live' \in Lives' \/ live' > saved'[r].backup
  BY DEF LivesCovered
<1>1. /\ ConfigOK /\ StoresOK /\ count.snapshots \in Nat /\ job.run \in 0..MaxRuns
      /\ count.version \in Nat /\ saved[r].backup \in Nat
  BY RunsKnown, BoundAssumption DEF Typed, Counted, Contents, LastVersion
<1>2. CASE Stage /\ Step = "backup" /\ BackupStage /\ r = job.run
  <2>1. AddBackup(job.run) /\ live' = live
    BY <1>2 DEF BackupStage, config
  <2> QED BY <1>1, <2>1, NewlyCovered
<1>3. CASE found'[r] = found[r] /\ saved'[r].backup = saved[r].backup
  <2>1. saved[r].backup <= count.version
    BY <1>3 DEF Typed, Counted
  <2>2. CASE live' = live /\ ("live" \in copied' <=> "live" \in copied)
    BY <1>3, <2>2, LivesKept DEF LivesCovered
  <2>3. CASE live' = count.version + 1
    BY <1>1, <1>3, <2>1, <2>3
  <2> QED BY <2>2, <2>3, LiveMoves
<1> QED BY <1>2, <1>3, SavedMoves

\* The bounds of a behaviour, maintenance.snapshots_enabled among them, are chosen once.
LEMMA LimitStays ==
  ASSUME Next
  PROVE  limit' = limit
<1>1. CASE Setup
  BY <1>1, EffectLimit DEF Setup, StartSetup, Review, LeaveReview, ChoosePolicy, CancelRun, Preserve, SkipStage,
     DoStage, KeepProtected, FailStage, StopInStage, FailOutside, RecordBaseline, FinishRun, history, fixed
<1>2. CASE Recovery
  BY <1>2 DEF Recovery, StartControl, StartRollback, Expect, PreSnapshot, Guard, Install, Meta, ApplySnapshot,
     RecordRollback, StartRestore, RestoreState, RestoreLive, RestoreFails, RollbackFails, ReleaseJob, LateStatus,
     TakeSnapshot, history, fixed
<1>3. CASE Others
  BY <1>3 DEF Others, EditLive, Deliver, Stop, RemoveLock, history, fixed
<1> QED BY <1>1, <1>2, <1>3 DEF Next

\* The same of the source and the snapshots.
LEMMA CfgsCoveredStep ==
  ASSUME IInv, Typed, Selected, CfgsCovered, Next
  PROVE  CfgsCovered'
<1> SUFFICES ASSUME NEW r \in DOMAIN runs', limit'.snapshots, runs'[r].stages["snapshot"] = "success"
             PROVE  /\ "cfg" \notin copied' => tree'.cfg \in Cfgs' \/ tree'.cfg > saved'[r].snapshot
                    /\ "extra" \notin copied' => tree'.extra \in ExtraCfgs' \/ tree'.extra > saved'[r].snapshot
  BY DEF CfgsCovered
<1>0. limit.snapshots
  <2>1. limit' = limit
    BY LimitStays
  <2> QED BY <2>1
<1>1. /\ ConfigOK /\ StoresOK /\ count.snapshots \in Nat /\ job.run \in 0..MaxRuns
      /\ count.version \in Nat /\ r \in Runs /\ saved[r].snapshot \in Nat
  BY RunsKnown, OldOrNew, BoundAssumption DEF Typed, Counted, Contents, LastVersion
<1>2. r \in DOMAIN runs
  <2>1. NewRun.stages["snapshot"] = "pending"
    BY DEF NewRun, Stages
  <2> QED BY <2>1, OldOrNew
<1>3. CASE Stage /\ Step = "snapshot" /\ r = job.run
  <2>1. PICK status \in {"begun", "success"} :
         /\ \A q \in DOMAIN runs, s \in Stages :
              runs'[q].stages[s] = IF q = job.run /\ s = Step THEN status ELSE runs[q].stages[s]
         /\ status = "success" => Effect \/ Step = "apply"
    BY <1>3, StageRuns
  <2>2. Effect
    BY <1>2, <1>3, <2>1 DEF Stages
  <2>3. AddSnapshot(job.run) /\ tree' = tree
    BY <1>3, <2>2, EffectCases DEF SnapshotStage, config
  <2> QED BY <1>0, <1>1, <2>3, NewlyCovered
<1>4. CASE ~(Stage /\ Step = "snapshot" /\ r = job.run)
  <2>1. saved'[r].snapshot = saved[r].snapshot
    BY <1>1, <1>4, SavedMoves
  <2>2. runs[r].stages["snapshot"] = "success"
    <3>1. CASE Stage
      <4>1. PICK status \in {"begun", "success"} :
             \A q \in DOMAIN runs, s \in Stages :
               runs'[q].stages[s] = IF q = job.run /\ s = Step THEN status ELSE runs[q].stages[s]
        BY <3>1, StageRuns
      <4> QED BY <1>2, <1>4, <3>1, <4>1 DEF Stages
    <3>2. CASE ~Stage
      BY <1>2, <3>2, RunsMoves
    <3> QED BY <3>1, <3>2
  <2>3. saved[r].snapshot <= count.version
    BY <1>2, <2>2 DEF Typed, Counted
  <2>4. CASE CfgStill /\ ExtraStill
    BY <1>0, <1>2, <2>1, <2>2, <2>4, CfgsKept DEF CfgsCovered, CfgStill, ExtraStill
  <2>5. CASE tree'.cfg = count.version + 1 /\ tree'.extra = count.version + 1
    BY <1>1, <2>1, <2>3, <2>5
  <2> QED BY <2>4, <2>5, TreeMoves
<1> QED BY <1>3, <1>4

\* How an attempt that started anew comes before a stage: it stood there, or it passed a
\* step, the stages among them with success unless they are optional.
LEMMA AttemptMoves ==
  ASSUME IInv, Typed, Ordered, Next, InSetup("enter")', ~job'.resume, Place(Step') > 2
  PROVE  /\ InSetup("enter") /\ ~job.resume /\ job'.run = job.run /\ Step \in AllSteps
         /\ job.run \in DOMAIN runs /\ job.run \in Runs /\ (found[job.run] # None \/ Step = "backup")
         /\ My'.mode = My.mode
         /\ \/ Step' = Step /\ (LateStatus \/ EditLive \/ Deliver)
            \/ /\ Place(Step) < Place(Step')
               /\ \A s \in Required : Place(s) < Place(Step') => Place(s) <= Place(Step)
               /\ \/ Preserve /\ Step = "preserve"
                  \/ Stage /\ (Step \in Required => Effect \/ Step = "apply")
<1>1. job'.kind = "setup" /\ job'.pc = "enter"
  BY DEF InSetup
<1>2. ASSUME InSetup("enter"), ~job.resume, Place(Step) > 2
      PROVE  found[job.run] # None
  <2>1. My.stages["backup"] = "success" /\ job.run \in DOMAIN runs
    BY <1>2, Placed DEF Ordered, JobOrdered, Required, IInv, Chosen
  <2> QED BY <2>1 DEF Ordered, RunOrdered, My
<1>3. CASE job' = job /\ (LateStatus \/ EditLive \/ Deliver)
  <2>1. InSetup("enter") /\ ~job.resume /\ Step' = Step /\ My'.mode = My.mode
    BY <1>1, <1>3, StandsStill DEF InSetup
  <2>2. job.run \in DOMAIN runs /\ job.run \in Runs /\ Step \in AllSteps
    BY <2>1, RunsKnown, StepsInOrder DEF IInv, Chosen, MySteps, InOrder, Step
  <2> QED BY <1>2, <1>3, <2>1, <2>2
<1>4. ~Review /\ ~ChoosePolicy
  BY ReviewAt, ChoiceAt, Placed
<1>5. ~SkipStage
  <2> SUFFICES ASSUME SkipStage
               PROVE  FALSE
    OBVIOUS
  <2>1. job.resume /\ job' = Advance(job)
    BY DEF SkipStage, Done
  <2> QED BY <2>1 DEF IInv, Shaped, Fields, Advance
<1>6. ~RecordBaseline
  BY <1>1 DEF RecordBaseline, IInv, Shaped, Fields
<1>7. ASSUME InSetup("enter"), job' = Advance(job), job.run \in DOMAIN runs,
             runs'[job.run].policy = My.policy, runs'[job.run].mode = My.mode
      PROVE  /\ ~job.resume /\ job'.run = job.run /\ Step \in AllSteps
             /\ job.run \in Runs /\ (found[job.run] # None \/ Step = "backup")
             /\ My'.mode = My.mode
             /\ Place(Step) < Place(Step')
             /\ \A s \in Required : Place(s) < Place(Step') => Place(s) <= Place(Step)
  <2>1. /\ job'.run = job.run /\ job'.resume = job.resume
        /\ Step \in AllSteps
        /\ Place(Step) < Place(Step')
        /\ \A s \in Required : Place(s) < Place(Step') => Place(s) <= Place(Step)
    BY <1>1, <1>7, Onwards
  <2>2. "backup" \in Required /\ Place("backup") = 2 /\ Place(Step) \in 1..11
    BY <2>1, Placed, PlaceOf DEF Required
  <2>3. Place(Step) >= 2
    BY <2>1, <2>2
  <2>4. Place(Step) = 2 => Step = "backup"
    BY <2>1, <2>2, PlaceOf
  <2>5. Step = "backup" \/ Place(Step) > 2
    BY <2>2, <2>3, <2>4
  <2>6. My'.mode = My.mode
    BY <1>7, <2>1 DEF My
  <2>7. job.run \in Runs /\ ~job.resume
    BY <1>7, <2>1, RunsKnown
  <2> QED BY <1>2, <1>7, <2>1, <2>5, <2>6, <2>7
<1>8. CASE Preserve
  <2>1. InSetup("enter") /\ Step = "preserve" /\ job' = Advance(job) /\ runs' = runs /\ job.run \in DOMAIN runs
    BY <1>8 DEF Preserve, IInv, Chosen
  <2> QED BY <1>7, <1>8, <2>1 DEF My
<1>9. CASE Stage /\ job' = Advance(job)
  <2>1. /\ InSetup("enter") /\ job.run \in DOMAIN runs
        /\ runs'[job.run].policy = My.policy /\ runs'[job.run].mode = My.mode
    BY <1>9, StageRuns DEF My
  <2>2. Step \in Required => Effect \/ Step = "apply"
    <3>1. PICK status \in {"begun", "success"} :
           /\ status = "begun" => job' = Idle \/ Step \in Optional
           /\ status = "success" => Effect \/ Step = "apply"
      BY <1>9, StageRuns
    <3>2. job' # Idle
      BY <1>1 DEF Idle
    <3> QED BY <3>1, <3>2 DEF Required, Optional
  <2> QED BY <1>7, <1>9, <2>1, <2>2
<1> QED BY <1>1, <1>3, <1>4, <1>5, <1>6, <1>8, <1>9, JobFoot

\* Which copies a stage may add.
LEMMA StageAdds ==
  ASSUME Stage
  PROVE  /\ Step \notin {"backup", "localbackup"} => UNCHANGED backups
         /\ Step # "snapshot" => UNCHANGED snapshots
BY StageWork, StageStores

\* Until it applies, an attempt that started anew has its backup of what is live.
LEMMA AttemptLiveStep ==
  ASSUME IInv, Typed, Ordered, AttemptLive, Next
  PROVE  AttemptLive'
<1> SUFFICES ASSUME InSetup("enter")', ~job'.resume, Place(Step') > 2, Place(Step') <= 7
             PROVE  live' \in Lives' \/ live' > saved'[job'.run].backup
  BY DEF AttemptLive
<1> DEFINE r == job.run
<1>1. /\ InSetup("enter") /\ ~job.resume /\ job'.run = r /\ Step \in AllSteps
      /\ r \in DOMAIN runs /\ r \in Runs /\ (found[r] # None \/ Step = "backup")
      /\ \/ Step' = Step /\ (LateStatus \/ EditLive \/ Deliver)
         \/ /\ Place(Step) < Place(Step')
            /\ \A s \in Required : Place(s) < Place(Step') => Place(s) <= Place(Step)
            /\ \/ Preserve /\ Step = "preserve"
               \/ Stage /\ (Step \in Required => Effect \/ Step = "apply")
  BY AttemptMoves
<1>2. /\ ConfigOK /\ StoresOK /\ count.snapshots \in Nat /\ r \in 0..MaxRuns
      /\ count.version \in Nat /\ saved[r].backup \in Nat /\ Place(Step) \in 1..11 /\ Place(Step') \in 1..11
      /\ found[r] # None => saved[r].backup <= count.version
  <2>1. ConfigOK /\ StoresOK /\ count.snapshots \in Nat /\ count.version \in Nat
    BY BoundAssumption DEF Typed, Counted, Contents, LastVersion
  <2>2. saved[r].backup \in Nat
    <3>1. saved[r] \in [backup : Contents, snapshot : Contents]
      BY <1>1 DEF Typed, Counted
    <3> QED BY <3>1, BoundAssumption DEF Contents, LastVersion
  <2>3. found[r] # None => saved[r].backup <= count.version
    BY <1>1 DEF Typed, Counted
  <2>4. r \in 0..MaxRuns
    BY <1>1, BoundAssumption DEF Runs
  <2>5. Place(Step) \in 1..11
    BY <1>1, PlaceOf
  <2>6. Step' \in AllSteps
    <3>1. IInv'
      BY StepInv
    <3> QED BY <3>1, StepsInOrder DEF IInv, Chosen, MySteps, InOrder, Step
  <2>7. Place(Step') \in 1..11
    BY <2>6, PlaceOf
  <2> QED BY <2>1, <2>2, <2>3, <2>4, <2>5, <2>7
<1>3. Place(Step) > 2 /\ Place(Step) <= 7 => live \in Lives \/ live > saved[r].backup
  BY <1>1 DEF AttemptLive
<1>5. ASSUME UNCHANGED <<backups, saved>>
      PROVE  Lives' = Lives /\ saved'[job'.run].backup = saved[r].backup
  BY <1>1, <1>5 DEF Lives
<1>6. CASE Step' = Step /\ (LateStatus \/ Deliver)
  <2>1. UNCHANGED <<backups, saved, live>>
    BY <1>6 DEF LateStatus, Deliver, store, history, fixed, config
  <2> QED BY <1>3, <1>5, <1>6, <2>1
<1>7. CASE Step' = Step /\ EditLive
  <2>1. UNCHANGED <<backups, saved>> /\ (live' = count.version + 1 \/ live' = live)
    BY <1>7 DEF EditLive, store, fixed, Typed, Counted
  <2>2. found[r] # None
    BY <1>1, <1>7, Placed
  <2> QED BY <1>2, <1>3, <1>5, <1>7, <2>1, <2>2
<1>8. CASE Preserve /\ Step = "preserve"
  <2>1. UNCHANGED <<backups, saved, live>>
    BY <1>8 DEF Preserve, history, fixed, config
  <2> QED BY <1>3, <1>5, <1>8, <2>1, Placed
<1>9. CASE /\ Stage /\ Step = "backup" /\ Effect
  <2>1. AddBackup(r) /\ live' = live
    BY <1>9, EffectCases DEF BackupStage, config
  <2> QED BY <1>2, <2>1, NewlyCovered
<1>10. CASE /\ Stage /\ Step # "backup" /\ Place(Step) < Place(Step')
            /\ \A s \in Required : Place(s) < Place(Step') => Place(s) <= Place(Step)
  <2>1. Place(Step) > 2 /\ Place(Step) < 7
    <3>1. 2 <= Place(Step) /\ (Place(Step) = 2 => Step = "backup")
      BY <1>1, <1>10, Placed, PlaceOf DEF Required
    <3> QED BY <1>2, <1>10, <3>1
  <2>2. saved'[job'.run].backup = saved[r].backup
    BY <1>1, <1>10, SavedMoves
  <2>3. Effect \/ UNCHANGED <<config, store, count, history>>
    BY <1>10, StageWork
  <2>4. live' = live
    BY <1>2, <2>1, <2>3, EffectSides, Placed
  <2>5. live \in Lives => live' \in Lives'
    BY <2>4, LivesKept
  <2> QED BY <1>2, <1>3, <2>1, <2>2, <2>4, <2>5
<1>11. Stage /\ Step = "backup" => "backup" \in Required
  BY DEF Required
<1> HIDE DEF r
<1> QED BY <1>1, <1>6, <1>7, <1>8, <1>9, <1>10, <1>11

\* Every step leaves both sides covered.
LEMMA CoveredStep ==
  ASSUME IInv, Typed, Ordered, Selected, Covered, Next
  PROVE  Covered'
BY LivesCoveredStep, CfgsCoveredStep, AttemptLiveStep DEF Covered

-----------------------------------------------------------------------------
(* The whole invariant and what it implies *)

Whole == IInv /\ Typed /\ Ordered /\ Together /\ Recorded /\ Controlling /\ Selected /\ Covered

\* It holds initially: nothing is recorded, kept, or under way...
LEMMA InitWhole == Init => Whole
<1> SUFFICES ASSUME Init PROVE Whole
  OBVIOUS
<1>1. DOMAIN runs = {} /\ DOMAIN backups = {} /\ DOMAIN snapshots = {}
  BY DEF Init
<1>2. job.kind = "none" /\ job.pc = "idle"
  BY DEF Init, Idle
<1>3. \A r \in Runs : found[r] = None
  BY DEF Init
<1>4. IInv /\ Typed /\ Ordered
  BY InitInv, InitTyped, InitOrdered
<1>5. Together
  BY <1>1, <1>2 DEF Together, InSetup
<1>6. Recorded
  BY <1>1 DEF Recorded, BackupsTrue, SnapshotsTrue, FoundStill
<1>7. Controlling
  BY <1>2 DEF Controlling
<1>8. Selected
  BY <1>1, <1>2 DEF Selected
<1>9. Covered
  BY <1>1, <1>2, <1>3 DEF Covered, LivesCovered, CfgsCovered, AttemptLive, InSetup
<1> QED BY <1>4, <1>5, <1>6, <1>7, <1>8, <1>9 DEF Whole

\* ... and every step keeps it.
LEMMA StepWhole == Whole /\ [Next]_vars => Whole'
<1> SUFFICES ASSUME Whole, [Next]_vars PROVE Whole'
  OBVIOUS
<1>1. IInv'
  BY StepInv DEF Whole
<1>2. CASE Next
  <2>1. Typed' /\ Ordered' /\ Together' /\ Recorded'
    BY <1>2, TypedStep, OrderedStep, TogetherStep, RecordedStep DEF Whole
  <2>2. Controlling' /\ Selected' /\ Covered'
    BY <1>2, ControllingStep, SelectedStep, CoveredStep DEF Whole
  <2> QED BY <1>1, <2>1, <2>2 DEF Whole
<1>3. CASE UNCHANGED vars
  <2>1. UNCHANGED <<live, extra, tree, baseline, runs, backups, snapshots, job, clean, copied, found, saved, limit>>
    BY <1>3 DEF vars, config, store, history, fixed
  <2>2. Typed' /\ Ordered'
    BY <1>3, TypedStays, OrderedStays DEF Whole
  <2>3. Step' = Step /\ My' = My /\ Lives' = Lives /\ Cfgs' = Cfgs /\ ExtraCfgs' = ExtraCfgs
    BY <2>1 DEF Step, MySteps, My, Lives, Cfgs, ExtraCfgs
  <2>4. Together'
    BY <2>1 DEF Whole, Together, InSetup
  <2>5. Recorded'
    BY <2>1 DEF Whole, Recorded, BackupsTrue, SnapshotsTrue, FoundStill
  <2>6. Controlling'
    BY <2>1, <2>3 DEF Whole, Controlling, Kept
  <2>7. Selected'
    BY <2>1 DEF Whole, Selected
  <2>8. Covered'
    BY <2>1, <2>3 DEF Whole, Covered, LivesCovered, CfgsCovered, AttemptLive, InSetup
  <2> QED BY <1>1, <2>2, <2>4, <2>5, <2>6, <2>7, <2>8 DEF Whole
<1> QED BY <1>2, <1>3

\* A run that is about to be called a success has brought both sides together.
LEMMA SuccessFollows == Whole => SuccessIsApplied
<1> DEFINE stage == ExtraStage(My.mode)
<1> SUFFICES ASSUME Whole, InSetup("finish"), clean[job.run]
             PROVE  /\ My.kept \/ tree.cfg \in {0, live}
                    /\ IF My.mode = "initial" THEN My.stages["capture"] = "begun" \/ extra \in {0, tree.extra}
                       ELSE My.stages["restore"] = "begun" \/ tree.extra \in {0, extra}
                    /\ baseline = tree
  BY DEF SuccessIsApplied
<1>1. job.kind = "setup" /\ job.pc = "finish" /\ job.run \in DOMAIN runs
  BY DEF Whole, Typed, Working, JobOK, InSetup, Idle
<1>2. My.stages["apply"] = "success" /\ My.stages[stage] # "pending"
  BY DEF Whole, Ordered, JobOrdered, Required
<1>3. /\ My.kept \/ tree.cfg \in {0, live}
      /\ baseline = tree
  BY <1>1, <1>2 DEF Whole, Together, My
<1>4. /\ My.stages["capture"] = "success" => extra \in {0, tree.extra}
      /\ My.stages["restore"] = "success" => tree.extra \in {0, extra}
  BY <1>1 DEF Whole, Together, My
<1>5. My \in RunRecord
  BY <1>1 DEF Whole, IInv, RunsOK, RunOK, My
<1>6. stage \in Stages /\ My.stages[stage] \in {"pending", "begun", "success"}
  BY <1>5 DEF RunRecord, ExtraStage, Stages
<1>7. CASE My.mode = "initial"
  BY <1>2, <1>3, <1>4, <1>6, <1>7 DEF ExtraStage
<1>8. CASE My.mode # "initial"
  BY <1>2, <1>3, <1>4, <1>6, <1>8 DEF ExtraStage
<1> QED BY <1>7, <1>8

\* A setup that is called a success has applied what its private source holds (setup-impl,
\* run-stage and main's baseline), in whatever attempts it got there and whatever failed or
\* stopped before: if only the run itself has changed anything since its first backup, the
\* live configuration is the source's, unless a protected file was kept, and the baseline
\* is the source.  The extras agree too, or the record names the stage of theirs that run-stage
\* passed over: no attempt, resumed or not, reaches the end without having entered it.
THEOREM SuccessMeans == Spec => []SuccessIsApplied
<1>1. Init => Whole
  BY InitWhole
<1>2. Whole /\ [Next]_vars => Whole'
  BY StepWhole
<1>3. Whole => SuccessIsApplied
  BY SuccessFollows
<1> QED BY <1>1, <1>2, <1>3, PTL DEF Spec

\* A rollback that gives its lock back without an error has put back what the run found.
LEMMA RestoresFollows == Whole => RollbackRestores
<1> SUFFICES ASSUME Whole, job.kind = "control", job.pc = "release", job.ok, clean[job.run],
                    IF job.snap = 0 THEN My.stages["snapshot"] = "pending" ELSE Kept(job.snap)
             PROVE  found[job.run] = [live |-> live, tree |-> tree, baseline |-> baseline]
  BY DEF RollbackRestores
<1> DEFINE f == found[job.run]
<1>1. f # None /\ tree = f.tree /\ baseline = f.baseline /\ live = f.live
  BY DEF Whole, Controlling
<1>2. f \in Found
  <2>1. job.run \in Runs
    <3>1. job.run # 0 /\ job.run \in DOMAIN runs
      BY DEF Whole, Typed, Working, JobOK, Idle
    <3> QED BY <3>1, RunsKnown DEF Whole
  <2> QED BY <1>1, <2>1 DEF Whole, Typed, Counted, Optionally
<1> QED BY <1>1, <1>2 DEF Found

\* dotrun --rollback restores (rollback-run, matching-backup, matching-snapshot,
\* restore-backup): whatever attempts the run made, when the rollback ends without an error
\* and nobody but the run has changed anything, the machine has the live configuration, the
\* private source and the baseline that the run found, unless its snapshot was pruned or none
\* was taken.
THEOREM RollbackMeans == Spec => []RollbackRestores
<1>1. Init => Whole
  BY InitWhole
<1>2. Whole /\ [Next]_vars => Whole'
  BY StepWhole
<1>3. Whole => RollbackRestores
  BY RestoresFollows
<1> QED BY <1>1, <1>2, <1>3, PTL DEF Spec

-----------------------------------------------------------------------------
(* What setup replaces *)

\* While an attempt is among its stages and moves on, only its stage changes a side.
LEMMA StageReplaces ==
  ASSUME Whole, Next, InSetup("enter"), job' # job, live' # live \/ tree' # tree
  PROVE  /\ Stage /\ Effect /\ job.run \in DOMAIN runs /\ job.run \in Runs
         /\ live' # live => Step = "apply"
         /\ tree'.cfg # tree.cfg => Step = "import"
         /\ tree'.extra # tree.extra => Step = "capture"
<1>1. job.pc = "enter" /\ job.kind = "setup" /\ IInv /\ Typed
  BY DEF InSetup, Whole
<1>2. ~UNCHANGED config
  BY DEF config
<1>3. Stage
  <2>1. ~(RecordBaseline \/ Install \/ Meta \/ ApplySnapshot \/ RecordRollback
          \/ RestoreState \/ RestoreLive \/ RestoreFails)
    BY <1>1 DEF RecordBaseline, Install, Meta, ApplySnapshot, RecordRollback, RestoreState,
                RestoreLive, RestoreFails, InSetup, InJob
  <2>2. ~(EditLive \/ Deliver)
    BY DEF EditLive, Deliver
  <2> QED BY <1>2, <2>1, <2>2, ConfigFoot
<1>4. Effect
  BY <1>2, <1>3, StageWork DEF config
<1>5. job.run \in DOMAIN runs /\ job.run \in Runs
  BY <1>1, <1>3, StageRuns, RunsKnown
<1>6. ConfigOK
  BY <1>1 DEF Typed
<1> QED BY <1>3, <1>4, <1>5, <1>6, EffectSides

\* What setup applies replaces only what is in a copy (chezmoi apply of setup-impl;
\* create-backup, create-snapshot and their pruning): however many runs were interrupted,
\* resumed and rolled back before, the live configuration it replaces is the source's or in a
\* copy that recovery still has, unless it was written after the run's backup, or a resumed
\* attempt replaces what an earlier one had brought in.
THEOREM AppliesWhatIsSaved == Spec => AppliedIsSaved
<1> DEFINE Saved ==
      InSetup("enter") /\ job' # job /\ live' # live
        => \/ live \in Copies \cup {tree.cfg} \/ live > saved[job.run].backup
           \/ job.resume /\ "live" \in copied
<1>1. ASSUME Whole, [Next]_vars PROVE [Saved]_vars
  <2>1. Lives \subseteq Copies
    BY DEF Lives, Copies
  <2>2. ASSUME Next, InSetup("enter"), job' # job, live' # live
        PROVE  \/ live \in Copies \cup {tree.cfg} \/ live > saved[job.run].backup
               \/ job.resume /\ "live" \in copied
    <3>1. Step = "apply" /\ job.run \in DOMAIN runs /\ job.run \in Runs
      BY <1>1, <2>2, StageReplaces
    <3>2. CASE ~job.resume
      <4>1. Place(Step) = 7
        BY <3>1, Placed
      <4> QED BY <1>1, <2>1, <2>2, <3>2, <4>1 DEF Whole, Covered, AttemptLive
    <3>3. CASE job.resume
      <4>1. My.stages["backup"] = "success"
        BY <1>1, <2>2, <3>1, Placed DEF Whole, Ordered, JobOrdered, Required
      <4>2. found[job.run] # None
        BY <1>1, <3>1, <4>1 DEF Whole, Ordered, RunOrdered, My
      <4> QED BY <1>1, <2>1, <3>1, <3>3, <4>2 DEF Whole, Covered, LivesCovered
    <3> QED BY <3>2, <3>3
  <2> QED BY <1>1, <2>2
<1>2. Whole /\ [Next]_vars => [Saved]_vars
  BY <1>1
<1>3. Spec => [][Saved]_vars
  BY <1>2, InitWhole, StepWhole, PTL DEF Spec
<1> QED BY <1>3 DEF AppliedIsSaved

\* And while snapshots are enabled, what an import (migrate-dotfiles) or a capture of extras
\* replaces in the private source is live or in a copy, unless it came from the live side
\* before or was written after the run's snapshot.
THEOREM ImportsWhatIsSaved == Spec => ImportedIsSaved
<1> DEFINE CfgSaved == \/ tree.cfg \in Copies \cup {live} \/ "cfg" \in copied
                       \/ tree.cfg > saved[job.run].snapshot
           ExtraSaved == \/ tree.extra \in Extras \cup {extra} \/ "extra" \in copied
                         \/ tree.extra > saved[job.run].snapshot
           Saved == InSetup("enter") /\ job' # job /\ limit.snapshots =>
                      /\ tree'.cfg # tree.cfg => CfgSaved
                      /\ tree'.extra # tree.extra => ExtraSaved
<1>1. ASSUME Whole, [Next]_vars PROVE [Saved]_vars
  <2>1. Cfgs \subseteq Copies /\ ExtraCfgs \subseteq Extras
    BY DEF Cfgs, Copies, ExtraCfgs, Extras
  <2>2. ASSUME Next, InSetup("enter"), job' # job, limit.snapshots, tree'.cfg # tree.cfg \/ tree'.extra # tree.extra
        PROVE  CfgSaved /\ ExtraSaved
    <3>1. tree' # tree
      BY <2>2
    <3>2. Step \in {"import", "capture"} /\ job.run \in DOMAIN runs
      BY <1>1, <2>2, <3>1, StageReplaces
    <3>3. My.stages["snapshot"] = "success"
      BY <1>1, <2>2, <3>2, Placed DEF Whole, Ordered, JobOrdered, Required
    <3>4. /\ "cfg" \notin copied => tree.cfg \in Cfgs \/ tree.cfg > saved[job.run].snapshot
          /\ "extra" \notin copied => tree.extra \in ExtraCfgs \/ tree.extra > saved[job.run].snapshot
      BY <1>1, <2>2, <3>2, <3>3 DEF Whole, Covered, CfgsCovered, My
    <3> QED BY <2>1, <3>4
  <2> HIDE DEF CfgSaved, ExtraSaved
  <2> QED BY <1>1, <2>2
<1>2. Whole /\ [Next]_vars => [Saved]_vars
  BY <1>1
<1>3. Spec => [][Saved]_vars
  BY <1>2, InitWhole, StepWhole, PTL DEF Spec
<1> QED BY <1>3 DEF ImportedIsSaved
===============================================================================
