------------------------- MODULE SyncTransportProofs -------------------------
(***************************************************************************)
(* Theorems about SyncTransport, for any machines, settings, edits,        *)
(* revisions and stops.                                                    *)
(*                                                                         *)
(* HeadHeld is not inductive: that HEAD stands still follows from the      *)
(* store lock, which MachineOK says every machine past its acquisition     *)
(* holds.  MachineOK also ties what an operation uploaded or fetched to    *)
(* the revision it expects HEAD to name, and the recorded baseline to HEAD *)
(* until the two fingerprints are written.                                 *)
(*                                                                         *)
(* EditsOK follows the live configuration through a push and a pull: past  *)
(* its check an operation that may take edits only takes known ones.       *)
(* KeptOK follows the published edits from one HEAD to the next, through   *)
(* the workspace, the live files, the staged tree and the source-only      *)
(* marker; FreshOK says no baseline names a revision before it is HEAD.    *)
(***************************************************************************)
EXTENDS SyncTransport, TLAPS

\* Phases in which an operation on a local store holds the store lock.
Holding == Phases \ {"idle", "entry", "lock"}
Closing == {"clear", "syncLocal", "syncCloud"}

Uploaded(r, t) == r \in 1..Len(revisions) /\ revisions[r].tree = t

MachineOK(m) ==
  /\ Kind = "local" /\ pc[m] \in Holding => storeLock = m
  /\ Kind = "local" /\ pc[m] \in Deciding => SameHead(m)
  /\ pc[m] \in {"confirm", "publish"} => Uploaded(job[m].rev, job[m].stage)
  /\ pc[m] \in {"readback", "guard", "install", "recheck", "apply", "record"} =>
       Uploaded(job[m].expected, job[m].stage)
  /\ Kind = "local" /\ pc[m] \in Closing => head # 0 /\ provider[m].rev = head /\ provider[m].tree = HeadTree

MachinesOK == \A m \in Machines : MachineOK(m)

IInv == TypeOK /\ MachinesOK

\* A step of machine m.
Does(m) ==
  \/ Transport(m) \/ Worker(m)
  \/ (People(m) \/ Accident(m) \/ \E e \in Edits : Edit(m, e)) /\ UNCHANGED setting

\* What it leaves alone of the other machines, the store and the history.
Effect(m) ==
  /\ UNCHANGED setting
  /\ \A n \in Machines \ {m} : /\ pc'[n] = pc[n] /\ job'[n] = job[n]
                               /\ live'[n] = live[n] /\ ws'[n] = ws[n] /\ marker'[n] = marker[n]
                               /\ provider'[n] = provider[n] /\ sync'[n] = sync[n]
  /\ Len(revisions') >= Len(revisions)
  /\ \A r \in 1..Len(revisions) : revisions'[r] = revisions[r]
  /\ \/ storeLock' = storeLock
     \/ storeLock = NoMachine /\ storeLock' = m
     \/ storeLock = m /\ storeLock' = NoMachine
  /\ head' = head \/ (pc[m] = "publish" /\ head' = job[m].rev)
  /\ \/ provider'[m] = provider[m]
     \/ /\ pc[m] \in {"idle", "readback", "record"} /\ (pc[m] = "idle" \/ SameHead(m))
        /\ provider'[m].rev = head /\ provider'[m].tree = HeadTree
  /\ sync'[m] = sync[m] \/ (pc[m] = "syncCloud" /\ sync'[m].cloud = CloudHash)
  /\ published \subseteq published' /\ acked \subseteq acked' /\ cut \subseteq cut'
  /\ \A e \in Edits : when[e] # "never" => when'[e] = when[e]

-----------------------------------------------------------------------------
(* What the operators return *)

\* Bounds are numbers, and what an operation carries has its types.
LEMMA Facts ==
  ASSUME TypeOK
  PROVE  /\ MaxRevs \in Nat /\ Len(revisions) \in Nat /\ Len(revisions) <= MaxRevs
         /\ \A r \in 1..Len(revisions) : revisions[r] \in Revisions
         /\ head \in Nat
         /\ HeadTree \in Tree /\ CloudHash \in 0..MaxRevs
         /\ NoJob \in Jobs /\ NoPlan \in Plans
<1>1. MaxRevs \in Nat /\ Len(revisions) \in Nat /\ Len(revisions) <= MaxRevs /\ head \in Nat
  BY BoundAssumption DEF TypeOK
<1>2. \A r \in 1..Len(revisions) : revisions[r] \in Revisions
  BY DEF TypeOK
<1>3. HeadTree \in Tree
  <2>1. CASE head = 0
    BY <2>1 DEF HeadTree, TreeOf, Tree
  <2>2. CASE head # 0
    <3>1. head \in 1..Len(revisions)
      BY <1>1, <2>2 DEF TypeOK
    <3>2. revisions[head].tree \in Tree
      BY <1>2, <3>1 DEF Revisions
    <3> QED BY <2>2, <3>2 DEF HeadTree, TreeOf
  <2> QED BY <2>1, <2>2
<1>4. CloudHash \in 0..MaxRevs
  BY <1>1 DEF CloudHash, TypeOK
<1>5. NoJob \in Jobs
  BY <1>1 DEF NoJob, Jobs, Tree
<1>6. NoPlan \in Plans
  BY BoundAssumption DEF NoPlan, Plans, Tree
<1> QED BY <1>1, <1>2, <1>3, <1>4, <1>5, <1>6

\* An operation changes phase and locals of its own machine only.
LEMMA GoEffect ==
  ASSUME TypeOK, NEW m \in Machines, NEW label, NEW locals, Go(m, label, locals)
  PROVE  /\ pc'[m] = label /\ job'[m] = locals
         /\ \A n \in Machines \ {m} : pc'[n] = pc[n] /\ job'[n] = job[n]
         /\ label \in Phases => pc' \in [Machines -> Phases]
         /\ locals \in Jobs => job' \in [Machines -> Jobs]
BY DEF Go, TypeOK

\* Locals keep their types when one of them is assigned.
LEMMA JobTypes ==
  ASSUME TypeOK, NEW m \in Machines
  PROVE  /\ job[m] \in Jobs /\ pc[m] \in Phases /\ Finishing(m) \in Jobs
         /\ \A e \in 0..MaxRevs : [job[m] EXCEPT !.expected = e] \in Jobs
         /\ \A t \in Tree : [job[m] EXCEPT !.local = t] \in Jobs
         /\ \A r \in 0..MaxRevs, t \in Tree :
              /\ [job[m] EXCEPT !.expected = r, !.stage = t] \in Jobs
              /\ [job[m] EXCEPT !.rev = r, !.stage = t] \in Jobs
              /\ [job[m] EXCEPT !.stage = t, !.rev = r] \in Jobs
<1>1. job[m] \in Jobs /\ pc[m] \in Phases
  BY DEF TypeOK
<1>2. job[m].rev \in 0..MaxRevs /\ job[m].mode \in {"auto", "manual", "localWins"} /\ job[m].onFail \in BOOLEAN
  BY <1>1 DEF Jobs
<1>3. Finishing(m) \in Jobs
  BY <1>2, Facts DEF Finishing, Jobs, NoJob
<1> QED BY <1>1, <1>3 DEF Jobs

-----------------------------------------------------------------------------
(* The phases an operation moves through *)

\* The steps of an operation: where each leads, and with what.
Moves(m) == \E label \in Phases, locals \in Jobs : Go(m, label, locals)

\* An operation that moves on keeps the types of phases and locals.
LEMMA MovesEffect ==
  ASSUME TypeOK, NEW m \in Machines, Moves(m)
  PROVE  /\ pc' \in [Machines -> Phases] /\ job' \in [Machines -> Jobs]
         /\ \A n \in Machines \ {m} : pc'[n] = pc[n] /\ job'[n] = job[n]
<1>1. PICK label \in Phases, locals \in Jobs : Go(m, label, locals)
  BY DEF Moves
<1> QED BY <1>1, GoEffect

\* Each of these actions is a move of its machine to a phase with typed locals.
LEMMA ActionMoves ==
  ASSUME TypeOK, MachinesOK, NEW m \in Machines,
         \/ Enter(m) \/ TakeStore(m) \/ PushCheck(m) \/ PushCapture(m) \/ PushUpload(m)
         \/ PushConfirm(m) \/ PushHead(m) \/ PushRecord(m) \/ PullFetch(m) \/ PullGuard(m)
         \/ PullInstall(m) \/ PullRecheck(m) \/ PullApply(m) \/ PullRecord(m) \/ PullMark(m)
         \/ ClearMarker(m) \/ SyncLocal(m) \/ SyncCloud(m) \/ Release(m) \/ Fail(m)
         \/ WorkerRun(m) \/ ManualPush(m) \/ ManualPull(m) \/ PushCapturePart(m) \/ PullApplyPart(m)
         \/ Crash(m)
  PROVE  Moves(m)
<1>1. CASE Enter(m)
  <2>1. Go(m, "lock", job[m])
    BY <1>1 DEF Enter, Step
  <2>2. job[m] \in Jobs
    BY JobTypes
  <2>3. "lock" \in Phases
    BY DEF Phases
  <2> QED BY <2>1, <2>2, <2>3 DEF Moves
<1>2. CASE TakeStore(m)
  <2>1. Go(m, IF job[m].action = "push" THEN "pushCheck" ELSE "pullFetch", job[m])
    BY <1>2 DEF TakeStore, Step
  <2>2. job[m] \in Jobs
    BY JobTypes
  <2>3. (IF job[m].action = "push" THEN "pushCheck" ELSE "pullFetch") \in Phases
    BY DEF Phases
  <2> QED BY <2>1, <2>2, <2>3 DEF Moves
<1>3. CASE PushCheck(m)
  <2>1. Go(m, "capture", [job[m] EXCEPT !.expected = head])
    BY <1>3 DEF PushCheck, Step
  <2>2. [job[m] EXCEPT !.expected = head] \in Jobs
    <3>1. head \in 0..MaxRevs
      BY Facts DEF TypeOK
    <3> QED BY <3>1, JobTypes
  <2>3. "capture" \in Phases
    BY DEF Phases
  <2> QED BY <2>1, <2>2, <2>3 DEF Moves
<1>4. CASE PushCapture(m)
  <2>1. Go(m, "upload", job[m])
    BY <1>4 DEF PushCapture, Step
  <2>2. job[m] \in Jobs
    BY JobTypes
  <2>3. "upload" \in Phases
    BY DEF Phases
  <2> QED BY <2>1, <2>2, <2>3 DEF Moves
<1>5. CASE PushUpload(m)
  <2>1. Go(m, "confirm", [job[m] EXCEPT !.stage = ws[m], !.rev = Len(revisions')])
    BY <1>5 DEF PushUpload, Step
  <2>2. [job[m] EXCEPT !.stage = ws[m], !.rev = Len(revisions')] \in Jobs
    <3>1. Len(revisions') \in 0..MaxRevs
      BY <1>5, Facts DEF PushUpload, TypeOK
    <3>2. ws[m] \in Tree
      BY DEF TypeOK
    <3> QED BY <3>1, <3>2, JobTypes
  <2>3. "confirm" \in Phases
    BY DEF Phases
  <2> QED BY <2>1, <2>2, <2>3 DEF Moves
<1>6. CASE PushConfirm(m)
  <2>1. Go(m, "publish", job[m])
    BY <1>6 DEF PushConfirm, Step
  <2>2. job[m] \in Jobs
    BY JobTypes
  <2>3. "publish" \in Phases
    BY DEF Phases
  <2> QED BY <2>1, <2>2, <2>3 DEF Moves
<1>7. CASE PushHead(m)
  <2>1. Go(m, "readback", [job[m] EXCEPT !.expected = job[m].rev])
    BY <1>7 DEF PushHead, Step
  <2>2. [job[m] EXCEPT !.expected = job[m].rev] \in Jobs
    <3>1. job[m].rev \in 0..MaxRevs
      BY JobTypes DEF Jobs
    <3> QED BY <3>1, JobTypes
  <2>3. "readback" \in Phases
    BY DEF Phases
  <2> QED BY <2>1, <2>2, <2>3 DEF Moves
<1>8. CASE PushRecord(m)
  <2>1. Go(m, "clear", Finishing(m))
    BY <1>8 DEF PushRecord, Step
  <2>2. Finishing(m) \in Jobs
    BY JobTypes
  <2>3. "clear" \in Phases
    BY DEF Phases
  <2> QED BY <2>1, <2>2, <2>3 DEF Moves
<1>9. CASE PullFetch(m)
  <2>1. Go(m, IF job[m].sourceOnly THEN "install" ELSE "guard", [job[m] EXCEPT !.expected = head, !.stage = HeadTree])
    BY <1>9 DEF PullFetch, Step
  <2>2. [job[m] EXCEPT !.expected = head, !.stage = HeadTree] \in Jobs
    <3>1. head \in 0..MaxRevs /\ HeadTree \in Tree
      BY Facts DEF TypeOK
    <3> QED BY <3>1, JobTypes
  <2>3. (IF job[m].sourceOnly THEN "install" ELSE "guard") \in Phases
    BY DEF Phases
  <2> QED BY <2>1, <2>2, <2>3 DEF Moves
<1>10. CASE PullGuard(m)
  <2>1. Go(m, "install", [job[m] EXCEPT !.local = live[m]])
    BY <1>10 DEF PullGuard, Step
  <2>2. [job[m] EXCEPT !.local = live[m]] \in Jobs
    <3>1. live[m] \in Tree
      BY DEF TypeOK
    <3> QED BY <3>1, JobTypes
  <2>3. "install" \in Phases
    BY DEF Phases
  <2> QED BY <2>1, <2>2, <2>3 DEF Moves
<1>11. CASE PullInstall(m)
  <2>1. Go(m, IF job[m].sourceOnly THEN "record" ELSE "recheck", job[m])
    BY <1>11 DEF PullInstall, Step
  <2>2. job[m] \in Jobs
    BY JobTypes
  <2>3. (IF job[m].sourceOnly THEN "record" ELSE "recheck") \in Phases
    BY DEF Phases
  <2> QED BY <2>1, <2>2, <2>3 DEF Moves
<1>12. CASE PullRecheck(m)
  <2>1. Go(m, "apply", job[m])
    BY <1>12 DEF PullRecheck, Step
  <2>2. job[m] \in Jobs
    BY JobTypes
  <2>3. "apply" \in Phases
    BY DEF Phases
  <2> QED BY <2>1, <2>2, <2>3 DEF Moves
<1>13. CASE PullApply(m)
  <2>1. Go(m, "record", job[m])
    BY <1>13 DEF PullApply, Step
  <2>2. job[m] \in Jobs
    BY JobTypes
  <2>3. "record" \in Phases
    BY DEF Phases
  <2> QED BY <2>1, <2>2, <2>3 DEF Moves
<1>14. CASE PullRecord(m)
  <2>1. PICK label \in {"clear", "mark", "release"} : Go(m, label, Finishing(m))
    <3> DEFINE advanced == IF provider[m] = None THEN TRUE
                           ELSE provider[m].rev # head \/ provider[m].tree # HeadTree
    <3>1. Go(m, IF ~job[m].sourceOnly THEN "clear" ELSE IF advanced THEN "mark" ELSE "release", Finishing(m))
      BY <1>14 DEF PullRecord
    <3> HIDE DEF advanced
    <3> QED BY <3>1
  <2>2. label \in Phases /\ Finishing(m) \in Jobs
    BY <2>1, JobTypes DEF Phases
  <2> QED BY <2>1, <2>2 DEF Moves
<1>15. CASE PullMark(m)
  <2>1. Go(m, "release", job[m])
    BY <1>15 DEF PullMark, Step
  <2>2. job[m] \in Jobs
    BY JobTypes
  <2>3. "release" \in Phases
    BY DEF Phases
  <2> QED BY <2>1, <2>2, <2>3 DEF Moves
<1>16. CASE ClearMarker(m)
  <2>1. Go(m, "syncLocal", job[m])
    BY <1>16 DEF ClearMarker, Step
  <2>2. job[m] \in Jobs
    BY JobTypes
  <2>3. "syncLocal" \in Phases
    BY DEF Phases
  <2> QED BY <2>1, <2>2, <2>3 DEF Moves
<1>17. CASE SyncLocal(m)
  <2>1. Go(m, "syncCloud", [job[m] EXCEPT !.local = live[m]])
    BY <1>17 DEF SyncLocal, Step
  <2>2. [job[m] EXCEPT !.local = live[m]] \in Jobs
    <3>1. live[m] \in Tree
      BY DEF TypeOK
    <3> QED BY <3>1, JobTypes
  <2>3. "syncCloud" \in Phases
    BY DEF Phases
  <2> QED BY <2>1, <2>2, <2>3 DEF Moves
<1>18. CASE SyncCloud(m)
  <2>1. Go(m, "release", job[m])
    BY <1>18 DEF SyncCloud, Step
  <2>2. job[m] \in Jobs
    BY JobTypes
  <2>3. "release" \in Phases
    BY DEF Phases
  <2> QED BY <2>1, <2>2, <2>3 DEF Moves
<1>19. CASE Release(m)
  <2>1. Go(m, "idle", NoJob)
    BY <1>19 DEF Release, Step
  <2>2. NoJob \in Jobs
    BY Facts
  <2>3. "idle" \in Phases
    BY DEF Phases
  <2> QED BY <2>1, <2>2, <2>3 DEF Moves
<1>20. CASE Fail(m)
  <2>1. Go(m, "idle", NoJob)
    BY <1>20 DEF Fail, Step
  <2>2. NoJob \in Jobs
    BY Facts
  <2>3. "idle" \in Phases
    BY DEF Phases
  <2> QED BY <2>1, <2>2, <2>3 DEF Moves
<1>21. CASE WorkerRun(m)
  <2> DEFINE locals == [NoJob EXCEPT !.action = worker[m].act,
                                     !.onFail = worker[m].act = "pull" \/ worker[m].both]
  <2>1. Go(m, "entry", locals)
    BY <1>21 DEF WorkerRun, Start
  <2>2. worker[m].act \in {"none", "push", "pull"} /\ worker[m].both \in BOOLEAN
    BY DEF TypeOK, Plans
  <2>3. locals \in Jobs
    BY <2>2, Facts DEF NoJob, Jobs, Tree
  <2>4. "entry" \in Phases
    BY DEF Phases
  <2> HIDE DEF locals
  <2> QED BY <2>1, <2>3, <2>4 DEF Moves
<1>22. CASE ManualPush(m)
  <2>1. PICK mode \in {"manual", "localWins"} :
          Start(m, [NoJob EXCEPT !.action = "push", !.mode = mode])
    BY <1>22 DEF ManualPush
  <2>2. [NoJob EXCEPT !.action = "push", !.mode = mode] \in Jobs
    BY <2>1, Facts DEF NoJob, Jobs, Tree
  <2>3. "entry" \in Phases
    BY DEF Phases
  <2> QED BY <2>1, <2>2, <2>3 DEF Moves, Start
<1>23. CASE ManualPull(m)
  <2>1. PICK d \in BOOLEAN, s \in BOOLEAN, so \in BOOLEAN :
          Start(m, [NoJob EXCEPT !.action = "pull", !.mode = "manual", !.discard = d,
                                 !.discardSource = s, !.sourceOnly = so])
    BY <1>23 DEF ManualPull
  <2>2. [NoJob EXCEPT !.action = "pull", !.mode = "manual", !.discard = d,
                      !.discardSource = s, !.sourceOnly = so] \in Jobs
    BY <2>1, Facts DEF NoJob, Jobs, Tree
  <2>3. "entry" \in Phases
    BY DEF Phases
  <2> QED BY <2>1, <2>2, <2>3 DEF Moves, Start
<1>24. CASE PushCapturePart(m)
  <2>1. Go(m, "failed", job[m])
    BY <1>24 DEF PushCapturePart, Step
  <2>2. job[m] \in Jobs
    BY JobTypes
  <2>3. "failed" \in Phases
    BY DEF Phases
  <2> QED BY <2>1, <2>2, <2>3 DEF Moves
<1>25. CASE PullApplyPart(m)
  <2>1. Go(m, "failed", job[m])
    BY <1>25 DEF PullApplyPart, Step
  <2>2. job[m] \in Jobs
    BY JobTypes
  <2>3. "failed" \in Phases
    BY DEF Phases
  <2> QED BY <2>1, <2>2, <2>3 DEF Moves
<1>26. CASE Crash(m)
  <2>1. Go(m, "idle", NoJob)
    BY <1>26 DEF Crash, Step
  <2>2. NoJob \in Jobs
    BY Facts
  <2>3. "idle" \in Phases
    BY DEF Phases
  <2> QED BY <2>1, <2>2, <2>3 DEF Moves
<1> QED
  BY <1>1, <1>2, <1>3, <1>4, <1>5, <1>6, <1>7, <1>8, <1>9, <1>10, <1>11, <1>12, <1>13, <1>14, <1>15, <1>16, <1>17, <1>18, <1>19, <1>20, <1>21, <1>22, <1>23, <1>24, <1>25, <1>26

\* Every step keeps the types; that the baseline is never recorded for an empty
\* store needs MachineOK.
LEMMA TypeStep ==
  ASSUME IInv, [Next]_vars
  PROVE  TypeOK'
<1> USE DEF IInv
<1>1. ASSUME NEW m \in Machines, UNCHANGED setting, Enter(m) PROVE TypeOK'
  <2>1. /\ setting' \in Settings /\ revisions' \in Seq(Revisions) /\ Len(revisions') <= MaxRevs
        /\ head' \in 0..Len(revisions') /\ storeLock' \in Machines \cup {NoMachine}
    BY <1>1 DEF Enter, TypeOK, storeVars, Start, Resolving, Decide, Unlock
  <2>2. published' \in Tree /\ acked' \in Tree /\ cut' \in Tree /\ crashes' \in 0..MaxCrashes
    BY <1>1 DEF Enter, TypeOK, history, Start, Resolving, Decide, Unlock
  <2>3. /\ live' \in [Machines -> Tree] /\ ws' \in [Machines -> Tree] /\ stamp' \in [Machines -> Stamps]
        /\ marker' \in [Machines -> BOOLEAN] /\ conflict' \in [Machines -> BOOLEAN]
    BY <1>1 DEF Enter, TypeOK, machineVars, Start, Resolving, Decide, Unlock
  <2>4. provider' \in [Machines -> Baselines] /\ sync' \in [Machines -> Fingerprints]
    BY <1>1 DEF Enter, TypeOK, machineVars, Start, Resolving, Decide, Unlock
  <2>5. /\ opLock' \in [Machines -> BOOLEAN] /\ worker' \in [Machines -> Plans]
        /\ when' \in [Edits -> {"never", "idle", "apply", "busy"}]
    BY <1>1 DEF Enter, TypeOK, history, Start, Resolving, Decide, Unlock
  <2>6. pc' \in [Machines -> Phases] /\ job' \in [Machines -> Jobs]
    BY <1>1, ActionMoves, MovesEffect
  <2> QED BY <2>1, <2>2, <2>3, <2>4, <2>5, <2>6 DEF TypeOK
<1>2. ASSUME NEW m \in Machines, UNCHANGED setting, TakeStore(m) PROVE TypeOK'
  <2>1. /\ setting' \in Settings /\ revisions' \in Seq(Revisions) /\ Len(revisions') <= MaxRevs
        /\ head' \in 0..Len(revisions') /\ storeLock' \in Machines \cup {NoMachine}
    BY <1>2 DEF TakeStore, TypeOK, storeVars, Start, Resolving, Decide, Unlock
  <2>2. published' \in Tree /\ acked' \in Tree /\ cut' \in Tree /\ crashes' \in 0..MaxCrashes
    BY <1>2 DEF TakeStore, TypeOK, history, Start, Resolving, Decide, Unlock
  <2>3. /\ live' \in [Machines -> Tree] /\ ws' \in [Machines -> Tree] /\ stamp' \in [Machines -> Stamps]
        /\ marker' \in [Machines -> BOOLEAN] /\ conflict' \in [Machines -> BOOLEAN]
    BY <1>2 DEF TakeStore, TypeOK, machineVars, Start, Resolving, Decide, Unlock
  <2>4. provider' \in [Machines -> Baselines] /\ sync' \in [Machines -> Fingerprints]
    BY <1>2 DEF TakeStore, TypeOK, machineVars, Start, Resolving, Decide, Unlock
  <2>5. /\ opLock' \in [Machines -> BOOLEAN] /\ worker' \in [Machines -> Plans]
        /\ when' \in [Edits -> {"never", "idle", "apply", "busy"}]
    BY <1>2 DEF TakeStore, TypeOK, history, Start, Resolving, Decide, Unlock
  <2>6. pc' \in [Machines -> Phases] /\ job' \in [Machines -> Jobs]
    BY <1>2, ActionMoves, MovesEffect
  <2> QED BY <2>1, <2>2, <2>3, <2>4, <2>5, <2>6 DEF TypeOK
<1>3. ASSUME NEW m \in Machines, UNCHANGED setting, PushCheck(m) PROVE TypeOK'
  <2>1. /\ setting' \in Settings /\ revisions' \in Seq(Revisions) /\ Len(revisions') <= MaxRevs
        /\ head' \in 0..Len(revisions') /\ storeLock' \in Machines \cup {NoMachine}
    BY <1>3 DEF PushCheck, TypeOK, storeVars, Start, Resolving, Decide, Unlock
  <2>2. published' \in Tree /\ acked' \in Tree /\ cut' \in Tree /\ crashes' \in 0..MaxCrashes
    BY <1>3 DEF PushCheck, TypeOK, history, Start, Resolving, Decide, Unlock
  <2>3. /\ live' \in [Machines -> Tree] /\ ws' \in [Machines -> Tree] /\ stamp' \in [Machines -> Stamps]
        /\ marker' \in [Machines -> BOOLEAN] /\ conflict' \in [Machines -> BOOLEAN]
    BY <1>3 DEF PushCheck, TypeOK, machineVars, Start, Resolving, Decide, Unlock
  <2>4. provider' \in [Machines -> Baselines] /\ sync' \in [Machines -> Fingerprints]
    BY <1>3 DEF PushCheck, TypeOK, machineVars, Start, Resolving, Decide, Unlock
  <2>5. /\ opLock' \in [Machines -> BOOLEAN] /\ worker' \in [Machines -> Plans]
        /\ when' \in [Edits -> {"never", "idle", "apply", "busy"}]
    BY <1>3 DEF PushCheck, TypeOK, history, Start, Resolving, Decide, Unlock
  <2>6. pc' \in [Machines -> Phases] /\ job' \in [Machines -> Jobs]
    BY <1>3, ActionMoves, MovesEffect
  <2> QED BY <2>1, <2>2, <2>3, <2>4, <2>5, <2>6 DEF TypeOK
<1>4. ASSUME NEW m \in Machines, UNCHANGED setting, PushCapture(m) PROVE TypeOK'
  <2>1. /\ setting' \in Settings /\ revisions' \in Seq(Revisions) /\ Len(revisions') <= MaxRevs
        /\ head' \in 0..Len(revisions') /\ storeLock' \in Machines \cup {NoMachine}
    BY <1>4 DEF PushCapture, TypeOK, storeVars, Start, Resolving, Decide, Unlock
  <2>2. published' \in Tree /\ acked' \in Tree /\ cut' \in Tree /\ crashes' \in 0..MaxCrashes
    BY <1>4 DEF PushCapture, TypeOK, history, Start, Resolving, Decide, Unlock
  <2>3. /\ live' \in [Machines -> Tree] /\ ws' \in [Machines -> Tree] /\ stamp' \in [Machines -> Stamps]
        /\ marker' \in [Machines -> BOOLEAN] /\ conflict' \in [Machines -> BOOLEAN]
    <3> DEFINE new == IF provider[m] # None /\ provider[m].stamp = -1 THEN -2 ELSE -1
    <3>1. new \in Stamps
      BY BoundAssumption DEF Stamps
    <3>2. stamp' = [stamp EXCEPT ![m] = new]
      BY <1>4 DEF PushCapture
    <3> HIDE DEF new
    <3> QED BY <1>4, <3>1, <3>2 DEF PushCapture, TypeOK
  <2>4. provider' \in [Machines -> Baselines] /\ sync' \in [Machines -> Fingerprints]
    BY <1>4 DEF PushCapture, TypeOK, machineVars, Start, Resolving, Decide, Unlock
  <2>5. /\ opLock' \in [Machines -> BOOLEAN] /\ worker' \in [Machines -> Plans]
        /\ when' \in [Edits -> {"never", "idle", "apply", "busy"}]
    BY <1>4 DEF PushCapture, TypeOK, history, Start, Resolving, Decide, Unlock
  <2>6. pc' \in [Machines -> Phases] /\ job' \in [Machines -> Jobs]
    BY <1>4, ActionMoves, MovesEffect
  <2> QED BY <2>1, <2>2, <2>3, <2>4, <2>5, <2>6 DEF TypeOK
<1>5. ASSUME NEW m \in Machines, UNCHANGED setting, PushUpload(m) PROVE TypeOK'
  <2>1. /\ setting' \in Settings /\ revisions' \in Seq(Revisions) /\ Len(revisions') <= MaxRevs
        /\ head' \in 0..Len(revisions') /\ storeLock' \in Machines \cup {NoMachine}
    <3>1. ws[m] \in Tree /\ head \in 0..MaxRevs
      BY Facts DEF TypeOK
    <3>2. [tree |-> ws[m], parent |-> head] \in Revisions
      BY <3>1 DEF Revisions
    <3>3. revisions' \in Seq(Revisions) /\ Len(revisions') = Len(revisions) + 1 /\ Len(revisions) < MaxRevs
      BY <1>5, <3>2 DEF PushUpload, TypeOK
    <3> QED BY <1>5, <3>3, Facts DEF PushUpload, TypeOK
  <2>2. published' \in Tree /\ acked' \in Tree /\ cut' \in Tree /\ crashes' \in 0..MaxCrashes
    BY <1>5 DEF PushUpload, TypeOK, history, Start, Resolving, Decide, Unlock
  <2>3. /\ live' \in [Machines -> Tree] /\ ws' \in [Machines -> Tree] /\ stamp' \in [Machines -> Stamps]
        /\ marker' \in [Machines -> BOOLEAN] /\ conflict' \in [Machines -> BOOLEAN]
    <3>1. Len(revisions') \in Stamps
      BY <1>5, Facts DEF PushUpload, TypeOK, Stamps
    <3> QED BY <1>5, <3>1 DEF PushUpload, TypeOK
  <2>4. provider' \in [Machines -> Baselines] /\ sync' \in [Machines -> Fingerprints]
    BY <1>5 DEF PushUpload, TypeOK, machineVars, Start, Resolving, Decide, Unlock
  <2>5. /\ opLock' \in [Machines -> BOOLEAN] /\ worker' \in [Machines -> Plans]
        /\ when' \in [Edits -> {"never", "idle", "apply", "busy"}]
    BY <1>5 DEF PushUpload, TypeOK, history, Start, Resolving, Decide, Unlock
  <2>6. pc' \in [Machines -> Phases] /\ job' \in [Machines -> Jobs]
    BY <1>5, ActionMoves, MovesEffect
  <2> QED BY <2>1, <2>2, <2>3, <2>4, <2>5, <2>6 DEF TypeOK
<1>6. ASSUME NEW m \in Machines, UNCHANGED setting, PushConfirm(m) PROVE TypeOK'
  <2>1. /\ setting' \in Settings /\ revisions' \in Seq(Revisions) /\ Len(revisions') <= MaxRevs
        /\ head' \in 0..Len(revisions') /\ storeLock' \in Machines \cup {NoMachine}
    BY <1>6 DEF PushConfirm, TypeOK, storeVars, Start, Resolving, Decide, Unlock
  <2>2. published' \in Tree /\ acked' \in Tree /\ cut' \in Tree /\ crashes' \in 0..MaxCrashes
    BY <1>6 DEF PushConfirm, TypeOK, history, Start, Resolving, Decide, Unlock
  <2>3. /\ live' \in [Machines -> Tree] /\ ws' \in [Machines -> Tree] /\ stamp' \in [Machines -> Stamps]
        /\ marker' \in [Machines -> BOOLEAN] /\ conflict' \in [Machines -> BOOLEAN]
    BY <1>6 DEF PushConfirm, TypeOK, machineVars, Start, Resolving, Decide, Unlock
  <2>4. provider' \in [Machines -> Baselines] /\ sync' \in [Machines -> Fingerprints]
    BY <1>6 DEF PushConfirm, TypeOK, machineVars, Start, Resolving, Decide, Unlock
  <2>5. /\ opLock' \in [Machines -> BOOLEAN] /\ worker' \in [Machines -> Plans]
        /\ when' \in [Edits -> {"never", "idle", "apply", "busy"}]
    BY <1>6 DEF PushConfirm, TypeOK, history, Start, Resolving, Decide, Unlock
  <2>6. pc' \in [Machines -> Phases] /\ job' \in [Machines -> Jobs]
    BY <1>6, ActionMoves, MovesEffect
  <2> QED BY <2>1, <2>2, <2>3, <2>4, <2>5, <2>6 DEF TypeOK
<1>7. ASSUME NEW m \in Machines, UNCHANGED setting, PushHead(m) PROVE TypeOK'
  <2>1. /\ setting' \in Settings /\ revisions' \in Seq(Revisions) /\ Len(revisions') <= MaxRevs
        /\ head' \in 0..Len(revisions') /\ storeLock' \in Machines \cup {NoMachine}
    <3>1. job[m].rev \in 1..Len(revisions)
      BY <1>7 DEF PushHead, MachinesOK, MachineOK, Uploaded
    <3> QED BY <1>7, <3>1, Facts DEF PushHead, TypeOK
  <2>2. published' \in Tree /\ acked' \in Tree /\ cut' \in Tree /\ crashes' \in 0..MaxCrashes
    <3>1. job[m].stage \in Tree
      BY JobTypes DEF Jobs
    <3> QED BY <1>7, <3>1 DEF PushHead, TypeOK, Tree
  <2>3. /\ live' \in [Machines -> Tree] /\ ws' \in [Machines -> Tree] /\ stamp' \in [Machines -> Stamps]
        /\ marker' \in [Machines -> BOOLEAN] /\ conflict' \in [Machines -> BOOLEAN]
    BY <1>7 DEF PushHead, TypeOK, machineVars, Start, Resolving, Decide, Unlock
  <2>4. provider' \in [Machines -> Baselines] /\ sync' \in [Machines -> Fingerprints]
    BY <1>7 DEF PushHead, TypeOK, machineVars, Start, Resolving, Decide, Unlock
  <2>5. /\ opLock' \in [Machines -> BOOLEAN] /\ worker' \in [Machines -> Plans]
        /\ when' \in [Edits -> {"never", "idle", "apply", "busy"}]
    BY <1>7 DEF PushHead, TypeOK, history, Start, Resolving, Decide, Unlock
  <2>6. pc' \in [Machines -> Phases] /\ job' \in [Machines -> Jobs]
    BY <1>7, ActionMoves, MovesEffect
  <2> QED BY <2>1, <2>2, <2>3, <2>4, <2>5, <2>6 DEF TypeOK
<1>8. ASSUME NEW m \in Machines, UNCHANGED setting, PushRecord(m) PROVE TypeOK'
  <2>1. /\ setting' \in Settings /\ revisions' \in Seq(Revisions) /\ Len(revisions') <= MaxRevs
        /\ head' \in 0..Len(revisions') /\ storeLock' \in Machines \cup {NoMachine}
    BY <1>8 DEF PushRecord, TypeOK, storeVars, Start, Resolving, Decide, Unlock
  <2>2. published' \in Tree /\ acked' \in Tree /\ cut' \in Tree /\ crashes' \in 0..MaxCrashes
    BY <1>8 DEF PushRecord, TypeOK, history, Start, Resolving, Decide, Unlock
  <2>3. /\ live' \in [Machines -> Tree] /\ ws' \in [Machines -> Tree] /\ stamp' \in [Machines -> Stamps]
        /\ marker' \in [Machines -> BOOLEAN] /\ conflict' \in [Machines -> BOOLEAN]
    BY <1>8 DEF PushRecord, TypeOK, machineVars, Start, Resolving, Decide, Unlock
  <2>4. provider' \in [Machines -> Baselines] /\ sync' \in [Machines -> Fingerprints]
    <3> DEFINE b == BaselineNow(m)
    <3>1. head \in 1..MaxRevs
      <4>1. head = job[m].expected /\ Uploaded(job[m].expected, job[m].stage)
        BY <1>8 DEF PushRecord, SameHead, MachinesOK, MachineOK
      <4> QED BY <4>1, Facts DEF Uploaded
    <3>2. b \in Baselines
      BY <3>1, Facts DEF BaselineNow, Baselines, TypeOK
    <3>3. provider' = [provider EXCEPT ![m] = b] /\ UNCHANGED sync
      BY <1>8 DEF PushRecord
    <3> HIDE DEF b
    <3> QED BY <3>2, <3>3 DEF TypeOK
  <2>5. /\ opLock' \in [Machines -> BOOLEAN] /\ worker' \in [Machines -> Plans]
        /\ when' \in [Edits -> {"never", "idle", "apply", "busy"}]
    BY <1>8 DEF PushRecord, TypeOK, history, Start, Resolving, Decide, Unlock
  <2>6. pc' \in [Machines -> Phases] /\ job' \in [Machines -> Jobs]
    BY <1>8, ActionMoves, MovesEffect
  <2> QED BY <2>1, <2>2, <2>3, <2>4, <2>5, <2>6 DEF TypeOK
<1>9. ASSUME NEW m \in Machines, UNCHANGED setting, PullFetch(m) PROVE TypeOK'
  <2>1. /\ setting' \in Settings /\ revisions' \in Seq(Revisions) /\ Len(revisions') <= MaxRevs
        /\ head' \in 0..Len(revisions') /\ storeLock' \in Machines \cup {NoMachine}
    BY <1>9 DEF PullFetch, TypeOK, storeVars, Start, Resolving, Decide, Unlock
  <2>2. published' \in Tree /\ acked' \in Tree /\ cut' \in Tree /\ crashes' \in 0..MaxCrashes
    BY <1>9 DEF PullFetch, TypeOK, history, Start, Resolving, Decide, Unlock
  <2>3. /\ live' \in [Machines -> Tree] /\ ws' \in [Machines -> Tree] /\ stamp' \in [Machines -> Stamps]
        /\ marker' \in [Machines -> BOOLEAN] /\ conflict' \in [Machines -> BOOLEAN]
    BY <1>9 DEF PullFetch, TypeOK, machineVars, Start, Resolving, Decide, Unlock
  <2>4. provider' \in [Machines -> Baselines] /\ sync' \in [Machines -> Fingerprints]
    BY <1>9 DEF PullFetch, TypeOK, machineVars, Start, Resolving, Decide, Unlock
  <2>5. /\ opLock' \in [Machines -> BOOLEAN] /\ worker' \in [Machines -> Plans]
        /\ when' \in [Edits -> {"never", "idle", "apply", "busy"}]
    BY <1>9 DEF PullFetch, TypeOK, history, Start, Resolving, Decide, Unlock
  <2>6. pc' \in [Machines -> Phases] /\ job' \in [Machines -> Jobs]
    BY <1>9, ActionMoves, MovesEffect
  <2> QED BY <2>1, <2>2, <2>3, <2>4, <2>5, <2>6 DEF TypeOK
<1>10. ASSUME NEW m \in Machines, UNCHANGED setting, PullGuard(m) PROVE TypeOK'
  <2>1. /\ setting' \in Settings /\ revisions' \in Seq(Revisions) /\ Len(revisions') <= MaxRevs
        /\ head' \in 0..Len(revisions') /\ storeLock' \in Machines \cup {NoMachine}
    BY <1>10 DEF PullGuard, TypeOK, storeVars, Start, Resolving, Decide, Unlock
  <2>2. published' \in Tree /\ acked' \in Tree /\ cut' \in Tree /\ crashes' \in 0..MaxCrashes
    BY <1>10 DEF PullGuard, TypeOK, history, Start, Resolving, Decide, Unlock
  <2>3. /\ live' \in [Machines -> Tree] /\ ws' \in [Machines -> Tree] /\ stamp' \in [Machines -> Stamps]
        /\ marker' \in [Machines -> BOOLEAN] /\ conflict' \in [Machines -> BOOLEAN]
    BY <1>10 DEF PullGuard, TypeOK, machineVars, Start, Resolving, Decide, Unlock
  <2>4. provider' \in [Machines -> Baselines] /\ sync' \in [Machines -> Fingerprints]
    BY <1>10 DEF PullGuard, TypeOK, machineVars, Start, Resolving, Decide, Unlock
  <2>5. /\ opLock' \in [Machines -> BOOLEAN] /\ worker' \in [Machines -> Plans]
        /\ when' \in [Edits -> {"never", "idle", "apply", "busy"}]
    BY <1>10 DEF PullGuard, TypeOK, history, Start, Resolving, Decide, Unlock
  <2>6. pc' \in [Machines -> Phases] /\ job' \in [Machines -> Jobs]
    BY <1>10, ActionMoves, MovesEffect
  <2> QED BY <2>1, <2>2, <2>3, <2>4, <2>5, <2>6 DEF TypeOK
<1>11. ASSUME NEW m \in Machines, UNCHANGED setting, PullInstall(m) PROVE TypeOK'
  <2>1. /\ setting' \in Settings /\ revisions' \in Seq(Revisions) /\ Len(revisions') <= MaxRevs
        /\ head' \in 0..Len(revisions') /\ storeLock' \in Machines \cup {NoMachine}
    BY <1>11 DEF PullInstall, TypeOK, storeVars, Start, Resolving, Decide, Unlock
  <2>2. published' \in Tree /\ acked' \in Tree /\ cut' \in Tree /\ crashes' \in 0..MaxCrashes
    BY <1>11 DEF PullInstall, TypeOK, history, Start, Resolving, Decide, Unlock
  <2>3. /\ live' \in [Machines -> Tree] /\ ws' \in [Machines -> Tree] /\ stamp' \in [Machines -> Stamps]
        /\ marker' \in [Machines -> BOOLEAN] /\ conflict' \in [Machines -> BOOLEAN]
    <3>1. job[m].stage \in Tree /\ job[m].expected \in 0..MaxRevs
      BY JobTypes DEF Jobs
    <3>2. job[m].expected \in Stamps
      BY <3>1, BoundAssumption DEF Stamps
    <3> QED BY <1>11, <3>1, <3>2 DEF PullInstall, TypeOK
  <2>4. provider' \in [Machines -> Baselines] /\ sync' \in [Machines -> Fingerprints]
    BY <1>11 DEF PullInstall, TypeOK, machineVars, Start, Resolving, Decide, Unlock
  <2>5. /\ opLock' \in [Machines -> BOOLEAN] /\ worker' \in [Machines -> Plans]
        /\ when' \in [Edits -> {"never", "idle", "apply", "busy"}]
    BY <1>11 DEF PullInstall, TypeOK, history, Start, Resolving, Decide, Unlock
  <2>6. pc' \in [Machines -> Phases] /\ job' \in [Machines -> Jobs]
    BY <1>11, ActionMoves, MovesEffect
  <2> QED BY <2>1, <2>2, <2>3, <2>4, <2>5, <2>6 DEF TypeOK
<1>12. ASSUME NEW m \in Machines, UNCHANGED setting, PullRecheck(m) PROVE TypeOK'
  <2>1. /\ setting' \in Settings /\ revisions' \in Seq(Revisions) /\ Len(revisions') <= MaxRevs
        /\ head' \in 0..Len(revisions') /\ storeLock' \in Machines \cup {NoMachine}
    BY <1>12 DEF PullRecheck, TypeOK, storeVars, Start, Resolving, Decide, Unlock
  <2>2. published' \in Tree /\ acked' \in Tree /\ cut' \in Tree /\ crashes' \in 0..MaxCrashes
    BY <1>12 DEF PullRecheck, TypeOK, history, Start, Resolving, Decide, Unlock
  <2>3. /\ live' \in [Machines -> Tree] /\ ws' \in [Machines -> Tree] /\ stamp' \in [Machines -> Stamps]
        /\ marker' \in [Machines -> BOOLEAN] /\ conflict' \in [Machines -> BOOLEAN]
    BY <1>12 DEF PullRecheck, TypeOK, machineVars, Start, Resolving, Decide, Unlock
  <2>4. provider' \in [Machines -> Baselines] /\ sync' \in [Machines -> Fingerprints]
    BY <1>12 DEF PullRecheck, TypeOK, machineVars, Start, Resolving, Decide, Unlock
  <2>5. /\ opLock' \in [Machines -> BOOLEAN] /\ worker' \in [Machines -> Plans]
        /\ when' \in [Edits -> {"never", "idle", "apply", "busy"}]
    BY <1>12 DEF PullRecheck, TypeOK, history, Start, Resolving, Decide, Unlock
  <2>6. pc' \in [Machines -> Phases] /\ job' \in [Machines -> Jobs]
    BY <1>12, ActionMoves, MovesEffect
  <2> QED BY <2>1, <2>2, <2>3, <2>4, <2>5, <2>6 DEF TypeOK
<1>13. ASSUME NEW m \in Machines, UNCHANGED setting, PullApply(m) PROVE TypeOK'
  <2>1. /\ setting' \in Settings /\ revisions' \in Seq(Revisions) /\ Len(revisions') <= MaxRevs
        /\ head' \in 0..Len(revisions') /\ storeLock' \in Machines \cup {NoMachine}
    BY <1>13 DEF PullApply, TypeOK, storeVars, Start, Resolving, Decide, Unlock
  <2>2. published' \in Tree /\ acked' \in Tree /\ cut' \in Tree /\ crashes' \in 0..MaxCrashes
    BY <1>13 DEF PullApply, TypeOK, history, Start, Resolving, Decide, Unlock
  <2>3. /\ live' \in [Machines -> Tree] /\ ws' \in [Machines -> Tree] /\ stamp' \in [Machines -> Stamps]
        /\ marker' \in [Machines -> BOOLEAN] /\ conflict' \in [Machines -> BOOLEAN]
    <3>1. job[m].stage \in Tree
      BY JobTypes DEF Jobs
    <3> QED BY <1>13, <3>1 DEF PullApply, TypeOK
  <2>4. provider' \in [Machines -> Baselines] /\ sync' \in [Machines -> Fingerprints]
    BY <1>13 DEF PullApply, TypeOK, machineVars, Start, Resolving, Decide, Unlock
  <2>5. /\ opLock' \in [Machines -> BOOLEAN] /\ worker' \in [Machines -> Plans]
        /\ when' \in [Edits -> {"never", "idle", "apply", "busy"}]
    BY <1>13 DEF PullApply, TypeOK, history, Start, Resolving, Decide, Unlock
  <2>6. pc' \in [Machines -> Phases] /\ job' \in [Machines -> Jobs]
    BY <1>13, ActionMoves, MovesEffect
  <2> QED BY <2>1, <2>2, <2>3, <2>4, <2>5, <2>6 DEF TypeOK
<1>14. ASSUME NEW m \in Machines, UNCHANGED setting, PullRecord(m) PROVE TypeOK'
  <2>1. /\ setting' \in Settings /\ revisions' \in Seq(Revisions) /\ Len(revisions') <= MaxRevs
        /\ head' \in 0..Len(revisions') /\ storeLock' \in Machines \cup {NoMachine}
    BY <1>14 DEF PullRecord, TypeOK, storeVars, Start, Resolving, Decide, Unlock
  <2>2. published' \in Tree /\ acked' \in Tree /\ cut' \in Tree /\ crashes' \in 0..MaxCrashes
    BY <1>14 DEF PullRecord, TypeOK, history, Start, Resolving, Decide, Unlock
  <2>3. /\ live' \in [Machines -> Tree] /\ ws' \in [Machines -> Tree] /\ stamp' \in [Machines -> Stamps]
        /\ marker' \in [Machines -> BOOLEAN] /\ conflict' \in [Machines -> BOOLEAN]
    BY <1>14 DEF PullRecord, TypeOK, machineVars, Start, Resolving, Decide, Unlock
  <2>4. provider' \in [Machines -> Baselines] /\ sync' \in [Machines -> Fingerprints]
    <3> DEFINE b == BaselineNow(m)
    <3>1. head \in 1..MaxRevs
      <4>1. head = job[m].expected /\ Uploaded(job[m].expected, job[m].stage)
        BY <1>14 DEF PullRecord, SameHead, MachinesOK, MachineOK
      <4> QED BY <4>1, Facts DEF Uploaded
    <3>2. b \in Baselines
      BY <3>1, Facts DEF BaselineNow, Baselines, TypeOK
    <3>3. provider' = [provider EXCEPT ![m] = b] /\ UNCHANGED sync
      BY <1>14 DEF PullRecord
    <3> HIDE DEF b
    <3> QED BY <3>2, <3>3 DEF TypeOK
  <2>5. /\ opLock' \in [Machines -> BOOLEAN] /\ worker' \in [Machines -> Plans]
        /\ when' \in [Edits -> {"never", "idle", "apply", "busy"}]
    BY <1>14 DEF PullRecord, TypeOK, history, Start, Resolving, Decide, Unlock
  <2>6. pc' \in [Machines -> Phases] /\ job' \in [Machines -> Jobs]
    BY <1>14, ActionMoves, MovesEffect
  <2> QED BY <2>1, <2>2, <2>3, <2>4, <2>5, <2>6 DEF TypeOK
<1>15. ASSUME NEW m \in Machines, UNCHANGED setting, PullMark(m) PROVE TypeOK'
  <2>1. /\ setting' \in Settings /\ revisions' \in Seq(Revisions) /\ Len(revisions') <= MaxRevs
        /\ head' \in 0..Len(revisions') /\ storeLock' \in Machines \cup {NoMachine}
    BY <1>15 DEF PullMark, TypeOK, storeVars, Start, Resolving, Decide, Unlock
  <2>2. published' \in Tree /\ acked' \in Tree /\ cut' \in Tree /\ crashes' \in 0..MaxCrashes
    BY <1>15 DEF PullMark, TypeOK, history, Start, Resolving, Decide, Unlock
  <2>3. /\ live' \in [Machines -> Tree] /\ ws' \in [Machines -> Tree] /\ stamp' \in [Machines -> Stamps]
        /\ marker' \in [Machines -> BOOLEAN] /\ conflict' \in [Machines -> BOOLEAN]
    BY <1>15 DEF PullMark, TypeOK, machineVars, Start, Resolving, Decide, Unlock
  <2>4. provider' \in [Machines -> Baselines] /\ sync' \in [Machines -> Fingerprints]
    BY <1>15 DEF PullMark, TypeOK, machineVars, Start, Resolving, Decide, Unlock
  <2>5. /\ opLock' \in [Machines -> BOOLEAN] /\ worker' \in [Machines -> Plans]
        /\ when' \in [Edits -> {"never", "idle", "apply", "busy"}]
    BY <1>15 DEF PullMark, TypeOK, history, Start, Resolving, Decide, Unlock
  <2>6. pc' \in [Machines -> Phases] /\ job' \in [Machines -> Jobs]
    BY <1>15, ActionMoves, MovesEffect
  <2> QED BY <2>1, <2>2, <2>3, <2>4, <2>5, <2>6 DEF TypeOK
<1>16. ASSUME NEW m \in Machines, UNCHANGED setting, ClearMarker(m) PROVE TypeOK'
  <2>1. /\ setting' \in Settings /\ revisions' \in Seq(Revisions) /\ Len(revisions') <= MaxRevs
        /\ head' \in 0..Len(revisions') /\ storeLock' \in Machines \cup {NoMachine}
    BY <1>16 DEF ClearMarker, TypeOK, storeVars, Start, Resolving, Decide, Unlock
  <2>2. published' \in Tree /\ acked' \in Tree /\ cut' \in Tree /\ crashes' \in 0..MaxCrashes
    BY <1>16 DEF ClearMarker, TypeOK, history, Start, Resolving, Decide, Unlock
  <2>3. /\ live' \in [Machines -> Tree] /\ ws' \in [Machines -> Tree] /\ stamp' \in [Machines -> Stamps]
        /\ marker' \in [Machines -> BOOLEAN] /\ conflict' \in [Machines -> BOOLEAN]
    BY <1>16 DEF ClearMarker, TypeOK, machineVars, Start, Resolving, Decide, Unlock
  <2>4. provider' \in [Machines -> Baselines] /\ sync' \in [Machines -> Fingerprints]
    BY <1>16 DEF ClearMarker, TypeOK, machineVars, Start, Resolving, Decide, Unlock
  <2>5. /\ opLock' \in [Machines -> BOOLEAN] /\ worker' \in [Machines -> Plans]
        /\ when' \in [Edits -> {"never", "idle", "apply", "busy"}]
    BY <1>16 DEF ClearMarker, TypeOK, history, Start, Resolving, Decide, Unlock
  <2>6. pc' \in [Machines -> Phases] /\ job' \in [Machines -> Jobs]
    BY <1>16, ActionMoves, MovesEffect
  <2> QED BY <2>1, <2>2, <2>3, <2>4, <2>5, <2>6 DEF TypeOK
<1>17. ASSUME NEW m \in Machines, UNCHANGED setting, SyncLocal(m) PROVE TypeOK'
  <2>1. /\ setting' \in Settings /\ revisions' \in Seq(Revisions) /\ Len(revisions') <= MaxRevs
        /\ head' \in 0..Len(revisions') /\ storeLock' \in Machines \cup {NoMachine}
    BY <1>17 DEF SyncLocal, TypeOK, storeVars, Start, Resolving, Decide, Unlock
  <2>2. published' \in Tree /\ acked' \in Tree /\ cut' \in Tree /\ crashes' \in 0..MaxCrashes
    BY <1>17 DEF SyncLocal, TypeOK, history, Start, Resolving, Decide, Unlock
  <2>3. /\ live' \in [Machines -> Tree] /\ ws' \in [Machines -> Tree] /\ stamp' \in [Machines -> Stamps]
        /\ marker' \in [Machines -> BOOLEAN] /\ conflict' \in [Machines -> BOOLEAN]
    BY <1>17 DEF SyncLocal, TypeOK, machineVars, Start, Resolving, Decide, Unlock
  <2>4. provider' \in [Machines -> Baselines] /\ sync' \in [Machines -> Fingerprints]
    BY <1>17 DEF SyncLocal, TypeOK, machineVars, Start, Resolving, Decide, Unlock
  <2>5. /\ opLock' \in [Machines -> BOOLEAN] /\ worker' \in [Machines -> Plans]
        /\ when' \in [Edits -> {"never", "idle", "apply", "busy"}]
    BY <1>17 DEF SyncLocal, TypeOK, history, Start, Resolving, Decide, Unlock
  <2>6. pc' \in [Machines -> Phases] /\ job' \in [Machines -> Jobs]
    BY <1>17, ActionMoves, MovesEffect
  <2> QED BY <2>1, <2>2, <2>3, <2>4, <2>5, <2>6 DEF TypeOK
<1>18. ASSUME NEW m \in Machines, UNCHANGED setting, SyncCloud(m) PROVE TypeOK'
  <2>1. /\ setting' \in Settings /\ revisions' \in Seq(Revisions) /\ Len(revisions') <= MaxRevs
        /\ head' \in 0..Len(revisions') /\ storeLock' \in Machines \cup {NoMachine}
    BY <1>18 DEF SyncCloud, TypeOK, storeVars, Start, Resolving, Decide, Unlock
  <2>2. published' \in Tree /\ acked' \in Tree /\ cut' \in Tree /\ crashes' \in 0..MaxCrashes
    BY <1>18 DEF SyncCloud, TypeOK, history, Start, Resolving, Decide, Unlock
  <2>3. /\ live' \in [Machines -> Tree] /\ ws' \in [Machines -> Tree] /\ stamp' \in [Machines -> Stamps]
        /\ marker' \in [Machines -> BOOLEAN] /\ conflict' \in [Machines -> BOOLEAN]
    BY <1>18 DEF SyncCloud, TypeOK, machineVars, Start, Resolving, Decide, Unlock
  <2>4. provider' \in [Machines -> Baselines] /\ sync' \in [Machines -> Fingerprints]
    <3> DEFINE f == [local |-> job[m].local, cloud |-> CloudHash]
    <3>1. job[m].local \in Tree
      BY JobTypes DEF Jobs
    <3>2. f \in Fingerprints
      BY <3>1, Facts DEF Fingerprints
    <3>3. sync' = [sync EXCEPT ![m] = f] /\ UNCHANGED provider
      BY <1>18 DEF SyncCloud
    <3> HIDE DEF f
    <3> QED BY <3>2, <3>3 DEF TypeOK
  <2>5. /\ opLock' \in [Machines -> BOOLEAN] /\ worker' \in [Machines -> Plans]
        /\ when' \in [Edits -> {"never", "idle", "apply", "busy"}]
    BY <1>18 DEF SyncCloud, TypeOK, history, Start, Resolving, Decide, Unlock
  <2>6. pc' \in [Machines -> Phases] /\ job' \in [Machines -> Jobs]
    BY <1>18, ActionMoves, MovesEffect
  <2> QED BY <2>1, <2>2, <2>3, <2>4, <2>5, <2>6 DEF TypeOK
<1>19. ASSUME NEW m \in Machines, UNCHANGED setting, Release(m) PROVE TypeOK'
  <2>1. /\ setting' \in Settings /\ revisions' \in Seq(Revisions) /\ Len(revisions') <= MaxRevs
        /\ head' \in 0..Len(revisions') /\ storeLock' \in Machines \cup {NoMachine}
    BY <1>19 DEF Release, TypeOK, storeVars, Start, Resolving, Decide, Unlock
  <2>2. published' \in Tree /\ acked' \in Tree /\ cut' \in Tree /\ crashes' \in 0..MaxCrashes
    BY <1>19 DEF Release, TypeOK, history, Start, Resolving, Decide, Unlock
  <2>3. /\ live' \in [Machines -> Tree] /\ ws' \in [Machines -> Tree] /\ stamp' \in [Machines -> Stamps]
        /\ marker' \in [Machines -> BOOLEAN] /\ conflict' \in [Machines -> BOOLEAN]
    BY <1>19 DEF Release, TypeOK, machineVars, Start, Resolving, Decide, Unlock
  <2>4. provider' \in [Machines -> Baselines] /\ sync' \in [Machines -> Fingerprints]
    BY <1>19 DEF Release, TypeOK, machineVars, Start, Resolving, Decide, Unlock
  <2>5. /\ opLock' \in [Machines -> BOOLEAN] /\ worker' \in [Machines -> Plans]
        /\ when' \in [Edits -> {"never", "idle", "apply", "busy"}]
    BY <1>19 DEF Release, TypeOK, history, Start, Resolving, Decide, Unlock
  <2>6. pc' \in [Machines -> Phases] /\ job' \in [Machines -> Jobs]
    BY <1>19, ActionMoves, MovesEffect
  <2> QED BY <2>1, <2>2, <2>3, <2>4, <2>5, <2>6 DEF TypeOK
<1>20. ASSUME NEW m \in Machines, UNCHANGED setting, Fail(m) PROVE TypeOK'
  <2>1. /\ setting' \in Settings /\ revisions' \in Seq(Revisions) /\ Len(revisions') <= MaxRevs
        /\ head' \in 0..Len(revisions') /\ storeLock' \in Machines \cup {NoMachine}
    BY <1>20 DEF Fail, TypeOK, storeVars, Start, Resolving, Decide, Unlock
  <2>2. published' \in Tree /\ acked' \in Tree /\ cut' \in Tree /\ crashes' \in 0..MaxCrashes
    BY <1>20, Facts DEF Fail, TypeOK, Tree
  <2>3. /\ live' \in [Machines -> Tree] /\ ws' \in [Machines -> Tree] /\ stamp' \in [Machines -> Stamps]
        /\ marker' \in [Machines -> BOOLEAN] /\ conflict' \in [Machines -> BOOLEAN]
    BY <1>20 DEF Fail, TypeOK
  <2>4. provider' \in [Machines -> Baselines] /\ sync' \in [Machines -> Fingerprints]
    BY <1>20 DEF Fail, TypeOK, machineVars, Start, Resolving, Decide, Unlock
  <2>5. /\ opLock' \in [Machines -> BOOLEAN] /\ worker' \in [Machines -> Plans]
        /\ when' \in [Edits -> {"never", "idle", "apply", "busy"}]
    BY <1>20 DEF Fail, TypeOK, history, Start, Resolving, Decide, Unlock
  <2>6. pc' \in [Machines -> Phases] /\ job' \in [Machines -> Jobs]
    BY <1>20, ActionMoves, MovesEffect
  <2> QED BY <2>1, <2>2, <2>3, <2>4, <2>5, <2>6 DEF TypeOK
<1>21. ASSUME NEW m \in Machines, UNCHANGED setting, WorkerDecide(m) PROVE TypeOK'
  <2>1. /\ setting' \in Settings /\ revisions' \in Seq(Revisions) /\ Len(revisions') <= MaxRevs
        /\ head' \in 0..Len(revisions') /\ storeLock' \in Machines \cup {NoMachine}
    BY <1>21 DEF WorkerDecide, TypeOK, storeVars, Start, Resolving, Decide, Unlock
  <2>2. published' \in Tree /\ acked' \in Tree /\ cut' \in Tree /\ crashes' \in 0..MaxCrashes
    BY <1>21 DEF WorkerDecide, TypeOK, history, Start, Resolving, Decide, Unlock
  <2>3. /\ live' \in [Machines -> Tree] /\ ws' \in [Machines -> Tree] /\ stamp' \in [Machines -> Stamps]
        /\ marker' \in [Machines -> BOOLEAN] /\ conflict' \in [Machines -> BOOLEAN]
    BY <1>21 DEF WorkerDecide, TypeOK, machineVars, Start, Resolving, Decide, Unlock
  <2>4. provider' \in [Machines -> Baselines] /\ sync' \in [Machines -> Fingerprints]
    BY <1>21 DEF WorkerDecide, TypeOK, machineVars, Start, Resolving, Decide, Unlock
  <2>5. /\ opLock' \in [Machines -> BOOLEAN] /\ worker' \in [Machines -> Plans]
        /\ when' \in [Edits -> {"never", "idle", "apply", "busy"}]
    <3>1. \A act \in {"push", "pull"}, both \in BOOLEAN :
            Decide(m, act, both) => worker' \in [Machines -> Plans]
      <4> SUFFICES ASSUME NEW act \in {"push", "pull"}, NEW both \in BOOLEAN, Decide(m, act, both)
                   PROVE  worker' \in [Machines -> Plans]
        OBVIOUS
      <4> DEFINE w == [act |-> act, local |-> live[m], cloud |-> CloudHash, both |-> both]
      <4>1. w \in Plans
        BY Facts DEF Plans, TypeOK
      <4>2. worker' = [worker EXCEPT ![m] = w]
        BY DEF Decide
      <4> HIDE DEF w
      <4> QED BY <4>1, <4>2 DEF TypeOK
    <3>2. worker' \in [Machines -> Plans]
      BY <1>21, <3>1 DEF WorkerDecide, TypeOK
    <3> QED BY <1>21, <3>2 DEF WorkerDecide, TypeOK, history
  <2>6. pc' \in [Machines -> Phases] /\ job' \in [Machines -> Jobs]
    BY <1>21 DEF WorkerDecide, TypeOK, Resolving
  <2> QED BY <2>1, <2>2, <2>3, <2>4, <2>5, <2>6 DEF TypeOK
<1>22. ASSUME NEW m \in Machines, UNCHANGED setting, WorkerStop(m) PROVE TypeOK'
  <2>1. /\ setting' \in Settings /\ revisions' \in Seq(Revisions) /\ Len(revisions') <= MaxRevs
        /\ head' \in 0..Len(revisions') /\ storeLock' \in Machines \cup {NoMachine}
    BY <1>22 DEF WorkerStop, TypeOK, storeVars, Start, Resolving, Decide, Unlock
  <2>2. published' \in Tree /\ acked' \in Tree /\ cut' \in Tree /\ crashes' \in 0..MaxCrashes
    BY <1>22 DEF WorkerStop, TypeOK, history, Start, Resolving, Decide, Unlock
  <2>3. /\ live' \in [Machines -> Tree] /\ ws' \in [Machines -> Tree] /\ stamp' \in [Machines -> Stamps]
        /\ marker' \in [Machines -> BOOLEAN] /\ conflict' \in [Machines -> BOOLEAN]
    BY <1>22 DEF WorkerStop, TypeOK, machineVars, Start, Resolving, Decide, Unlock
  <2>4. provider' \in [Machines -> Baselines] /\ sync' \in [Machines -> Fingerprints]
    BY <1>22 DEF WorkerStop, TypeOK, machineVars, Start, Resolving, Decide, Unlock
  <2>5. /\ opLock' \in [Machines -> BOOLEAN] /\ worker' \in [Machines -> Plans]
        /\ when' \in [Edits -> {"never", "idle", "apply", "busy"}]
    BY <1>22, Facts DEF WorkerStop, TypeOK, history, Start
  <2>6. pc' \in [Machines -> Phases] /\ job' \in [Machines -> Jobs]
    BY <1>22 DEF WorkerStop, TypeOK, Resolving
  <2> QED BY <2>1, <2>2, <2>3, <2>4, <2>5, <2>6 DEF TypeOK
<1>23. ASSUME NEW m \in Machines, UNCHANGED setting, WorkerRun(m) PROVE TypeOK'
  <2>1. /\ setting' \in Settings /\ revisions' \in Seq(Revisions) /\ Len(revisions') <= MaxRevs
        /\ head' \in 0..Len(revisions') /\ storeLock' \in Machines \cup {NoMachine}
    BY <1>23 DEF WorkerRun, TypeOK, storeVars, Start, Resolving, Decide, Unlock
  <2>2. published' \in Tree /\ acked' \in Tree /\ cut' \in Tree /\ crashes' \in 0..MaxCrashes
    BY <1>23 DEF WorkerRun, TypeOK, history, Start, Resolving, Decide, Unlock
  <2>3. /\ live' \in [Machines -> Tree] /\ ws' \in [Machines -> Tree] /\ stamp' \in [Machines -> Stamps]
        /\ marker' \in [Machines -> BOOLEAN] /\ conflict' \in [Machines -> BOOLEAN]
    BY <1>23 DEF WorkerRun, TypeOK, machineVars, Start, Resolving, Decide, Unlock
  <2>4. provider' \in [Machines -> Baselines] /\ sync' \in [Machines -> Fingerprints]
    BY <1>23 DEF WorkerRun, TypeOK, machineVars, Start, Resolving, Decide, Unlock
  <2>5. /\ opLock' \in [Machines -> BOOLEAN] /\ worker' \in [Machines -> Plans]
        /\ when' \in [Edits -> {"never", "idle", "apply", "busy"}]
    BY <1>23, Facts DEF WorkerRun, TypeOK, history, Start
  <2>6. pc' \in [Machines -> Phases] /\ job' \in [Machines -> Jobs]
    BY <1>23, ActionMoves, MovesEffect
  <2> QED BY <2>1, <2>2, <2>3, <2>4, <2>5, <2>6 DEF TypeOK
<1>24. ASSUME NEW m \in Machines, UNCHANGED setting, ManualPush(m) PROVE TypeOK'
  <2>1. /\ setting' \in Settings /\ revisions' \in Seq(Revisions) /\ Len(revisions') <= MaxRevs
        /\ head' \in 0..Len(revisions') /\ storeLock' \in Machines \cup {NoMachine}
    BY <1>24 DEF ManualPush, TypeOK, storeVars, Start, Resolving, Decide, Unlock
  <2>2. published' \in Tree /\ acked' \in Tree /\ cut' \in Tree /\ crashes' \in 0..MaxCrashes
    BY <1>24 DEF ManualPush, TypeOK, history, Start, Resolving, Decide, Unlock
  <2>3. /\ live' \in [Machines -> Tree] /\ ws' \in [Machines -> Tree] /\ stamp' \in [Machines -> Stamps]
        /\ marker' \in [Machines -> BOOLEAN] /\ conflict' \in [Machines -> BOOLEAN]
    BY <1>24 DEF ManualPush, TypeOK, machineVars, Start, Resolving, Decide, Unlock
  <2>4. provider' \in [Machines -> Baselines] /\ sync' \in [Machines -> Fingerprints]
    BY <1>24 DEF ManualPush, TypeOK, machineVars, Start, Resolving, Decide, Unlock
  <2>5. /\ opLock' \in [Machines -> BOOLEAN] /\ worker' \in [Machines -> Plans]
        /\ when' \in [Edits -> {"never", "idle", "apply", "busy"}]
    BY <1>24 DEF ManualPush, TypeOK, history, Start, Resolving, Decide, Unlock
  <2>6. pc' \in [Machines -> Phases] /\ job' \in [Machines -> Jobs]
    BY <1>24, ActionMoves, MovesEffect
  <2> QED BY <2>1, <2>2, <2>3, <2>4, <2>5, <2>6 DEF TypeOK
<1>25. ASSUME NEW m \in Machines, UNCHANGED setting, ManualPull(m) PROVE TypeOK'
  <2>1. /\ setting' \in Settings /\ revisions' \in Seq(Revisions) /\ Len(revisions') <= MaxRevs
        /\ head' \in 0..Len(revisions') /\ storeLock' \in Machines \cup {NoMachine}
    BY <1>25 DEF ManualPull, TypeOK, storeVars, Start, Resolving, Decide, Unlock
  <2>2. published' \in Tree /\ acked' \in Tree /\ cut' \in Tree /\ crashes' \in 0..MaxCrashes
    BY <1>25 DEF ManualPull, TypeOK, history, Start, Resolving, Decide, Unlock
  <2>3. /\ live' \in [Machines -> Tree] /\ ws' \in [Machines -> Tree] /\ stamp' \in [Machines -> Stamps]
        /\ marker' \in [Machines -> BOOLEAN] /\ conflict' \in [Machines -> BOOLEAN]
    BY <1>25 DEF ManualPull, TypeOK, machineVars, Start, Resolving, Decide, Unlock
  <2>4. provider' \in [Machines -> Baselines] /\ sync' \in [Machines -> Fingerprints]
    BY <1>25 DEF ManualPull, TypeOK, machineVars, Start, Resolving, Decide, Unlock
  <2>5. /\ opLock' \in [Machines -> BOOLEAN] /\ worker' \in [Machines -> Plans]
        /\ when' \in [Edits -> {"never", "idle", "apply", "busy"}]
    BY <1>25 DEF ManualPull, TypeOK, history, Start, Resolving, Decide, Unlock
  <2>6. pc' \in [Machines -> Phases] /\ job' \in [Machines -> Jobs]
    BY <1>25, ActionMoves, MovesEffect
  <2> QED BY <2>1, <2>2, <2>3, <2>4, <2>5, <2>6 DEF TypeOK
<1>26. ASSUME NEW m \in Machines, UNCHANGED setting, Acknowledge(m) PROVE TypeOK'
  <2>1. /\ setting' \in Settings /\ revisions' \in Seq(Revisions) /\ Len(revisions') <= MaxRevs
        /\ head' \in 0..Len(revisions') /\ storeLock' \in Machines \cup {NoMachine}
    BY <1>26 DEF Acknowledge, TypeOK, storeVars, Start, Resolving, Decide, Unlock
  <2>2. published' \in Tree /\ acked' \in Tree /\ cut' \in Tree /\ crashes' \in 0..MaxCrashes
    BY <1>26, Facts DEF Acknowledge, TypeOK, Tree
  <2>3. /\ live' \in [Machines -> Tree] /\ ws' \in [Machines -> Tree] /\ stamp' \in [Machines -> Stamps]
        /\ marker' \in [Machines -> BOOLEAN] /\ conflict' \in [Machines -> BOOLEAN]
    BY <1>26 DEF Acknowledge, TypeOK, machineVars, Start, Resolving, Decide, Unlock
  <2>4. provider' \in [Machines -> Baselines] /\ sync' \in [Machines -> Fingerprints]
    <3> DEFINE b == BaselineNow(m)
    <3>1. head \in 1..MaxRevs
      BY <1>26, Facts DEF Acknowledge, TypeOK
    <3>2. b \in Baselines
      BY <3>1, Facts DEF BaselineNow, Baselines, TypeOK
    <3>3. provider' = [provider EXCEPT ![m] = b] /\ UNCHANGED sync
      BY <1>26 DEF Acknowledge
    <3> HIDE DEF b
    <3> QED BY <3>2, <3>3 DEF TypeOK
  <2>5. /\ opLock' \in [Machines -> BOOLEAN] /\ worker' \in [Machines -> Plans]
        /\ when' \in [Edits -> {"never", "idle", "apply", "busy"}]
    BY <1>26 DEF Acknowledge, TypeOK, history, Start, Resolving, Decide, Unlock
  <2>6. pc' \in [Machines -> Phases] /\ job' \in [Machines -> Jobs]
    BY <1>26 DEF Acknowledge, TypeOK, Resolving
  <2> QED BY <2>1, <2>2, <2>3, <2>4, <2>5, <2>6 DEF TypeOK
<1>27. ASSUME NEW m \in Machines, UNCHANGED setting, MergeTarget(m) PROVE TypeOK'
  <2>1. /\ setting' \in Settings /\ revisions' \in Seq(Revisions) /\ Len(revisions') <= MaxRevs
        /\ head' \in 0..Len(revisions') /\ storeLock' \in Machines \cup {NoMachine}
    BY <1>27 DEF MergeTarget, TypeOK, storeVars, Start, Resolving, Decide, Unlock
  <2>2. published' \in Tree /\ acked' \in Tree /\ cut' \in Tree /\ crashes' \in 0..MaxCrashes
    BY <1>27 DEF MergeTarget, TypeOK, history, Start, Resolving, Decide, Unlock
  <2>3. /\ live' \in [Machines -> Tree] /\ ws' \in [Machines -> Tree] /\ stamp' \in [Machines -> Stamps]
        /\ marker' \in [Machines -> BOOLEAN] /\ conflict' \in [Machines -> BOOLEAN]
    BY <1>27 DEF MergeTarget, TypeOK, Tree, Resolving
  <2>4. provider' \in [Machines -> Baselines] /\ sync' \in [Machines -> Fingerprints]
    BY <1>27 DEF MergeTarget, TypeOK, machineVars, Start, Resolving, Decide, Unlock
  <2>5. /\ opLock' \in [Machines -> BOOLEAN] /\ worker' \in [Machines -> Plans]
        /\ when' \in [Edits -> {"never", "idle", "apply", "busy"}]
    BY <1>27 DEF MergeTarget, TypeOK, history, Start, Resolving, Decide, Unlock
  <2>6. pc' \in [Machines -> Phases] /\ job' \in [Machines -> Jobs]
    BY <1>27 DEF MergeTarget, TypeOK, Resolving
  <2> QED BY <2>1, <2>2, <2>3, <2>4, <2>5, <2>6 DEF TypeOK
<1>28. ASSUME NEW m \in Machines, UNCHANGED setting, MergeAll(m) PROVE TypeOK'
  <2>1. /\ setting' \in Settings /\ revisions' \in Seq(Revisions) /\ Len(revisions') <= MaxRevs
        /\ head' \in 0..Len(revisions') /\ storeLock' \in Machines \cup {NoMachine}
    BY <1>28 DEF MergeAll, TypeOK, storeVars, Start, Resolving, Decide, Unlock
  <2>2. published' \in Tree /\ acked' \in Tree /\ cut' \in Tree /\ crashes' \in 0..MaxCrashes
    BY <1>28 DEF MergeAll, TypeOK, history, Start, Resolving, Decide, Unlock
  <2>3. /\ live' \in [Machines -> Tree] /\ ws' \in [Machines -> Tree] /\ stamp' \in [Machines -> Stamps]
        /\ marker' \in [Machines -> BOOLEAN] /\ conflict' \in [Machines -> BOOLEAN]
    BY <1>28 DEF MergeAll, TypeOK, Tree, Resolving
  <2>4. provider' \in [Machines -> Baselines] /\ sync' \in [Machines -> Fingerprints]
    BY <1>28 DEF MergeAll, TypeOK, machineVars, Start, Resolving, Decide, Unlock
  <2>5. /\ opLock' \in [Machines -> BOOLEAN] /\ worker' \in [Machines -> Plans]
        /\ when' \in [Edits -> {"never", "idle", "apply", "busy"}]
    BY <1>28 DEF MergeAll, TypeOK, history, Start, Resolving, Decide, Unlock
  <2>6. pc' \in [Machines -> Phases] /\ job' \in [Machines -> Jobs]
    BY <1>28 DEF MergeAll, TypeOK, Resolving
  <2> QED BY <2>1, <2>2, <2>3, <2>4, <2>5, <2>6 DEF TypeOK
<1>29. ASSUME NEW m \in Machines, UNCHANGED setting, ForceTarget(m) PROVE TypeOK'
  <2>1. /\ setting' \in Settings /\ revisions' \in Seq(Revisions) /\ Len(revisions') <= MaxRevs
        /\ head' \in 0..Len(revisions') /\ storeLock' \in Machines \cup {NoMachine}
    BY <1>29 DEF ForceTarget, TypeOK, storeVars, Start, Resolving, Decide, Unlock
  <2>2. published' \in Tree /\ acked' \in Tree /\ cut' \in Tree /\ crashes' \in 0..MaxCrashes
    BY <1>29 DEF ForceTarget, TypeOK, history, Start, Resolving, Decide, Unlock
  <2>3. /\ live' \in [Machines -> Tree] /\ ws' \in [Machines -> Tree] /\ stamp' \in [Machines -> Stamps]
        /\ marker' \in [Machines -> BOOLEAN] /\ conflict' \in [Machines -> BOOLEAN]
    BY <1>29 DEF ForceTarget, TypeOK, Tree, Resolving
  <2>4. provider' \in [Machines -> Baselines] /\ sync' \in [Machines -> Fingerprints]
    BY <1>29 DEF ForceTarget, TypeOK, machineVars, Start, Resolving, Decide, Unlock
  <2>5. /\ opLock' \in [Machines -> BOOLEAN] /\ worker' \in [Machines -> Plans]
        /\ when' \in [Edits -> {"never", "idle", "apply", "busy"}]
    BY <1>29 DEF ForceTarget, TypeOK, history, Start, Resolving, Decide, Unlock
  <2>6. pc' \in [Machines -> Phases] /\ job' \in [Machines -> Jobs]
    BY <1>29 DEF ForceTarget, TypeOK, Resolving
  <2> QED BY <2>1, <2>2, <2>3, <2>4, <2>5, <2>6 DEF TypeOK
<1>30. ASSUME NEW m \in Machines, UNCHANGED setting, PushCapturePart(m) PROVE TypeOK'
  <2>1. /\ setting' \in Settings /\ revisions' \in Seq(Revisions) /\ Len(revisions') <= MaxRevs
        /\ head' \in 0..Len(revisions') /\ storeLock' \in Machines \cup {NoMachine}
    BY <1>30 DEF PushCapturePart, TypeOK, storeVars, Start, Resolving, Decide, Unlock
  <2>2. published' \in Tree /\ acked' \in Tree /\ cut' \in Tree /\ crashes' \in 0..MaxCrashes
    BY <1>30 DEF PushCapturePart, TypeOK, history, Start, Resolving, Decide, Unlock
  <2>3. /\ live' \in [Machines -> Tree] /\ ws' \in [Machines -> Tree] /\ stamp' \in [Machines -> Stamps]
        /\ marker' \in [Machines -> BOOLEAN] /\ conflict' \in [Machines -> BOOLEAN]
    BY <1>30 DEF PushCapturePart, TypeOK, Tree, Resolving
  <2>4. provider' \in [Machines -> Baselines] /\ sync' \in [Machines -> Fingerprints]
    BY <1>30 DEF PushCapturePart, TypeOK, machineVars, Start, Resolving, Decide, Unlock
  <2>5. /\ opLock' \in [Machines -> BOOLEAN] /\ worker' \in [Machines -> Plans]
        /\ when' \in [Edits -> {"never", "idle", "apply", "busy"}]
    BY <1>30 DEF PushCapturePart, TypeOK, history, Start, Resolving, Decide, Unlock
  <2>6. pc' \in [Machines -> Phases] /\ job' \in [Machines -> Jobs]
    BY <1>30, ActionMoves, MovesEffect
  <2> QED BY <2>1, <2>2, <2>3, <2>4, <2>5, <2>6 DEF TypeOK
<1>31. ASSUME NEW m \in Machines, UNCHANGED setting, PullApplyPart(m) PROVE TypeOK'
  <2>1. /\ setting' \in Settings /\ revisions' \in Seq(Revisions) /\ Len(revisions') <= MaxRevs
        /\ head' \in 0..Len(revisions') /\ storeLock' \in Machines \cup {NoMachine}
    BY <1>31 DEF PullApplyPart, TypeOK, storeVars, Start, Resolving, Decide, Unlock
  <2>2. published' \in Tree /\ acked' \in Tree /\ cut' \in Tree /\ crashes' \in 0..MaxCrashes
    BY <1>31 DEF PullApplyPart, TypeOK, history, Start, Resolving, Decide, Unlock
  <2>3. /\ live' \in [Machines -> Tree] /\ ws' \in [Machines -> Tree] /\ stamp' \in [Machines -> Stamps]
        /\ marker' \in [Machines -> BOOLEAN] /\ conflict' \in [Machines -> BOOLEAN]
    BY <1>31 DEF PullApplyPart, TypeOK, Tree, Resolving
  <2>4. provider' \in [Machines -> Baselines] /\ sync' \in [Machines -> Fingerprints]
    BY <1>31 DEF PullApplyPart, TypeOK, machineVars, Start, Resolving, Decide, Unlock
  <2>5. /\ opLock' \in [Machines -> BOOLEAN] /\ worker' \in [Machines -> Plans]
        /\ when' \in [Edits -> {"never", "idle", "apply", "busy"}]
    BY <1>31 DEF PullApplyPart, TypeOK, history, Start, Resolving, Decide, Unlock
  <2>6. pc' \in [Machines -> Phases] /\ job' \in [Machines -> Jobs]
    BY <1>31, ActionMoves, MovesEffect
  <2> QED BY <2>1, <2>2, <2>3, <2>4, <2>5, <2>6 DEF TypeOK
<1>32. ASSUME NEW m \in Machines, UNCHANGED setting, Crash(m) PROVE TypeOK'
  <2>1. /\ setting' \in Settings /\ revisions' \in Seq(Revisions) /\ Len(revisions') <= MaxRevs
        /\ head' \in 0..Len(revisions') /\ storeLock' \in Machines \cup {NoMachine}
    BY <1>32 DEF Crash, TypeOK, storeVars, Start, Resolving, Decide, Unlock
  <2>2. published' \in Tree /\ acked' \in Tree /\ cut' \in Tree /\ crashes' \in 0..MaxCrashes
    <3>1. crashes' \in 0..MaxCrashes
      BY <1>32, BoundAssumption DEF Crash, TypeOK
    <3> QED BY <1>32, <3>1, Facts DEF Crash, TypeOK, Tree
  <2>3. /\ live' \in [Machines -> Tree] /\ ws' \in [Machines -> Tree] /\ stamp' \in [Machines -> Stamps]
        /\ marker' \in [Machines -> BOOLEAN] /\ conflict' \in [Machines -> BOOLEAN]
    BY <1>32 DEF Crash, TypeOK, machineVars, Start, Resolving, Decide, Unlock
  <2>4. provider' \in [Machines -> Baselines] /\ sync' \in [Machines -> Fingerprints]
    BY <1>32 DEF Crash, TypeOK, machineVars, Start, Resolving, Decide, Unlock
  <2>5. /\ opLock' \in [Machines -> BOOLEAN] /\ worker' \in [Machines -> Plans]
        /\ when' \in [Edits -> {"never", "idle", "apply", "busy"}]
    BY <1>32 DEF Crash, TypeOK, history, Start, Resolving, Decide, Unlock
  <2>6. pc' \in [Machines -> Phases] /\ job' \in [Machines -> Jobs]
    BY <1>32, ActionMoves, MovesEffect
  <2> QED BY <2>1, <2>2, <2>3, <2>4, <2>5, <2>6 DEF TypeOK
<1>33. ASSUME NEW m \in Machines, UNCHANGED setting, RemoveLocks(m) PROVE TypeOK'
  <2>1. /\ setting' \in Settings /\ revisions' \in Seq(Revisions) /\ Len(revisions') <= MaxRevs
        /\ head' \in 0..Len(revisions') /\ storeLock' \in Machines \cup {NoMachine}
    BY <1>33 DEF RemoveLocks, TypeOK, storeVars, Start, Resolving, Decide, Unlock
  <2>2. published' \in Tree /\ acked' \in Tree /\ cut' \in Tree /\ crashes' \in 0..MaxCrashes
    BY <1>33 DEF RemoveLocks, TypeOK, history, Start, Resolving, Decide, Unlock
  <2>3. /\ live' \in [Machines -> Tree] /\ ws' \in [Machines -> Tree] /\ stamp' \in [Machines -> Stamps]
        /\ marker' \in [Machines -> BOOLEAN] /\ conflict' \in [Machines -> BOOLEAN]
    BY <1>33 DEF RemoveLocks, TypeOK, machineVars, Start, Resolving, Decide, Unlock
  <2>4. provider' \in [Machines -> Baselines] /\ sync' \in [Machines -> Fingerprints]
    BY <1>33 DEF RemoveLocks, TypeOK, machineVars, Start, Resolving, Decide, Unlock
  <2>5. /\ opLock' \in [Machines -> BOOLEAN] /\ worker' \in [Machines -> Plans]
        /\ when' \in [Edits -> {"never", "idle", "apply", "busy"}]
    BY <1>33 DEF RemoveLocks, TypeOK, history, Start, Resolving, Decide, Unlock
  <2>6. pc' \in [Machines -> Phases] /\ job' \in [Machines -> Jobs]
    BY <1>33 DEF RemoveLocks, TypeOK, Resolving
  <2> QED BY <2>1, <2>2, <2>3, <2>4, <2>5, <2>6 DEF TypeOK
<1>34. ASSUME NEW m \in Machines, NEW e \in Edits, UNCHANGED setting, Edit(m, e) PROVE TypeOK'
  <2>1. /\ setting' \in Settings /\ revisions' \in Seq(Revisions) /\ Len(revisions') <= MaxRevs
        /\ head' \in 0..Len(revisions') /\ storeLock' \in Machines \cup {NoMachine}
    BY <1>34 DEF Edit, TypeOK, storeVars, Start, Resolving, Decide, Unlock
  <2>2. published' \in Tree /\ acked' \in Tree /\ cut' \in Tree /\ crashes' \in 0..MaxCrashes
    BY <1>34 DEF Edit, TypeOK, history, Start, Resolving, Decide, Unlock
  <2>3. /\ live' \in [Machines -> Tree] /\ ws' \in [Machines -> Tree] /\ stamp' \in [Machines -> Stamps]
        /\ marker' \in [Machines -> BOOLEAN] /\ conflict' \in [Machines -> BOOLEAN]
    BY <1>34 DEF Edit, TypeOK, Tree, Resolving
  <2>4. provider' \in [Machines -> Baselines] /\ sync' \in [Machines -> Fingerprints]
    BY <1>34 DEF Edit, TypeOK, machineVars, Start, Resolving, Decide, Unlock
  <2>5. /\ opLock' \in [Machines -> BOOLEAN] /\ worker' \in [Machines -> Plans]
        /\ when' \in [Edits -> {"never", "idle", "apply", "busy"}]
    BY <1>34 DEF Edit, TypeOK, history, Start, Resolving, Decide, Unlock
  <2>6. pc' \in [Machines -> Phases] /\ job' \in [Machines -> Jobs]
    BY <1>34 DEF Edit, TypeOK, Resolving
  <2> QED BY <2>1, <2>2, <2>3, <2>4, <2>5, <2>6 DEF TypeOK
<1>35. CASE UNCHANGED vars
  BY <1>35 DEF vars, storeVars, machineVars, history, TypeOK
<1> QED
  BY <1>1, <1>2, <1>3, <1>4, <1>5, <1>6, <1>7, <1>8, <1>9, <1>10, <1>11,
     <1>12, <1>13, <1>14, <1>15, <1>16, <1>17, <1>18, <1>19, <1>20, <1>21,
     <1>22, <1>23, <1>24, <1>25, <1>26, <1>27, <1>28, <1>29, <1>30, <1>31,
     <1>32, <1>33, <1>34, <1>35
     DEF Next, Transport, Worker, People, Accident

\* The initial values have their types.
LEMMA TypeInit == Init => TypeOK
<1> SUFFICES ASSUME Init PROVE TypeOK OBVIOUS
<1>1. /\ setting \in Settings /\ revisions \in Seq(Revisions) /\ Len(revisions) <= MaxRevs
      /\ head \in 0..Len(revisions) /\ storeLock \in Machines \cup {NoMachine}
  BY BoundAssumption DEF Init
<1>2. /\ live \in [Machines -> Tree] /\ ws \in [Machines -> Tree] /\ stamp \in [Machines -> Stamps]
      /\ provider \in [Machines -> Baselines] /\ marker \in [Machines -> BOOLEAN]
      /\ conflict \in [Machines -> BOOLEAN] /\ opLock \in [Machines -> BOOLEAN]
  BY BoundAssumption DEF Init, Tree, Baselines, Stamps
<1>3. sync \in [Machines -> Fingerprints]
  <2>1. [local |-> {}, cloud |-> 0] \in Fingerprints /\ None \in Fingerprints
    BY BoundAssumption DEF Fingerprints, Tree
  <2> QED BY <2>1 DEF Init
<1>4. pc \in [Machines -> Phases] /\ job \in [Machines -> Jobs] /\ worker \in [Machines -> Plans]
  <2>1. NoJob \in Jobs
    BY BoundAssumption DEF NoJob, Jobs, Tree
  <2>2. NoPlan \in Plans /\ "idle" \in Phases
    BY BoundAssumption DEF NoPlan, Plans, Tree, Phases
  <2> QED BY <2>1, <2>2 DEF Init
<1>5. /\ when \in [Edits -> {"never", "idle", "apply", "busy"}]
      /\ {published, acked, cut} \subseteq Tree /\ crashes \in 0..MaxCrashes
  BY BoundAssumption DEF Init, Tree
<1> QED BY <1>1, <1>2, <1>3, <1>4, <1>5 DEF TypeOK

-----------------------------------------------------------------------------
(* The store lock, and what operations know of HEAD *)

\* Assigning some of the locals leaves the others alone.
LEMMA JobFields ==
  ASSUME TypeOK, NEW m \in Machines
  PROVE  /\ \A x : LET j == [job[m] EXCEPT !.expected = x] IN
              /\ j.expected = x /\ j.rev = job[m].rev /\ j.stage = job[m].stage
              /\ j.mode = job[m].mode /\ j.discard = job[m].discard /\ j.sourceOnly = job[m].sourceOnly
         /\ \A x : LET j == [job[m] EXCEPT !.local = x] IN
              /\ j.local = x
              /\ j.expected = job[m].expected /\ j.rev = job[m].rev /\ j.stage = job[m].stage
              /\ j.mode = job[m].mode /\ j.discard = job[m].discard /\ j.sourceOnly = job[m].sourceOnly
         /\ \A x, y : LET j == [job[m] EXCEPT !.expected = x, !.stage = y] IN
              /\ j.expected = x /\ j.stage = y
              /\ j.mode = job[m].mode /\ j.discard = job[m].discard /\ j.sourceOnly = job[m].sourceOnly
         /\ \A x, y : LET j == [job[m] EXCEPT !.stage = x, !.rev = y] IN
              /\ j.expected = job[m].expected /\ j.stage = x /\ j.rev = y /\ j.mode = job[m].mode
<1>1. job[m] \in Jobs
  BY DEF TypeOK
<1> QED BY <1>1 DEF Jobs

\* The published tree stands still unless this machine publishes.
LEMMA HeadStays ==
  ASSUME TypeOK, NEW m \in Machines, Effect(m), head' = head
  PROVE  HeadTree' = HeadTree /\ CloudHash' = CloudHash
<1>1. CASE head = 0
  BY <1>1 DEF HeadTree, TreeOf, CloudHash
<1>2. CASE head # 0
  <2>1. head \in 1..Len(revisions)
    BY <1>2, Facts DEF TypeOK
  <2>2. revisions'[head] = revisions[head]
    BY <2>1 DEF Effect
  <2> QED BY <1>2, <2>2 DEF HeadTree, TreeOf, CloudHash
<1> QED BY <1>1, <1>2

\* What a step of m may do to the others and to the store, once its phase is known.
LEMMA OthersStay ==
  ASSUME IInv, NEW m \in Machines, Effect(m), NEW n \in Machines \ {m}
  PROVE  MachineOK(n)'
<1>1. MachineOK(n) /\ MachineOK(m)
  BY DEF IInv, MachinesOK
<1>2. pc'[n] = pc[n] /\ job'[n] = job[n] /\ provider'[n] = provider[n] /\ Kind' = Kind
  BY DEF Effect, Kind
<1>3. \A r, t : Uploaded(r, t) => Uploaded(r, t)'
  BY Facts DEF IInv, Effect, Uploaded
<1>4. ASSUME Kind = "local", pc[n] \in Holding
      PROVE  storeLock' = n /\ head' = head /\ HeadTree' = HeadTree
  <2>1. storeLock = n /\ n # m /\ n # NoMachine
    BY <1>1, <1>4, MachineAssumption DEF MachineOK
  <2>2. storeLock' = n
    BY <2>1 DEF Effect
  <2>3. pc[m] # "publish"
    BY <1>1, <1>4, <2>1 DEF MachineOK, Holding, Phases
  <2>4. head' = head
    BY <2>3 DEF Effect
  <2> QED BY <2>2, <2>4, HeadStays DEF IInv
<1>5. (Kind = "local" /\ pc[n] \in Deciding) => SameHead(n)'
  <2>1. Deciding \subseteq Holding
    BY DEF Deciding, Holding, Phases
  <2> QED BY <1>1, <1>2, <1>4, <2>1 DEF MachineOK, SameHead
<1>6. (Kind = "local" /\ pc[n] \in Closing) =>
        head' # 0 /\ provider'[n].rev = head' /\ provider'[n].tree = HeadTree'
  <2>1. Closing \subseteq Holding
    BY DEF Closing, Holding, Phases
  <2> QED BY <1>1, <1>2, <1>4, <2>1 DEF MachineOK
<1> QED BY <1>1, <1>2, <1>3, <1>4, <1>5, <1>6 DEF MachineOK

\* A phase of which MachineOK says nothing.
LEMMA Outside ==
  ASSUME NEW m \in Machines, pc'[m] \in {"idle", "entry", "lock"}
  PROVE  MachineOK(m)'
BY DEF MachineOK, Holding, Deciding, Closing

\* Every step is one of a machine that leaves the others and the store as they
\* are, but for what Effect lists, and keeps what MachineOK says of it.
LEMMA MachineStep ==
  ASSUME IInv, NEW m \in Machines, Does(m)
  PROVE  Effect(m) /\ MachineOK(m)'
<1> USE DEF IInv
<1>0. UNCHANGED setting
  BY DEF Does, Transport, Worker
<1>1. CASE Enter(m)
  <2>0. TypeOK /\ MachineOK(m)
    BY DEF MachinesOK
  <2>1. \A i \in Machines \ {m} : pc'[i] = pc[i] /\ job'[i] = job[i]
    BY <1>1, ActionMoves, MovesEffect
  <2>2. \A i \in Machines \ {m} :
        /\ live'[i] = live[i] /\ ws'[i] = ws[i] /\ marker'[i] = marker[i]
        /\ provider'[i] = provider[i] /\ sync'[i] = sync[i]
    BY <1>1 DEF Enter, machineVars, TypeOK, Start, Resolving, Decide, Unlock
  <2>3. /\ Len(revisions') >= Len(revisions)
        /\ \A r \in 1..Len(revisions) : revisions'[r] = revisions[r]
        /\ head' = head \/ (pc[m] = "publish" /\ head' = job[m].rev)
    BY <1>1, Facts DEF Enter, storeVars, Start, Resolving, Decide, Unlock
  <2>4. \/ storeLock' = storeLock
        \/ storeLock = NoMachine /\ storeLock' = m
        \/ storeLock = m /\ storeLock' = NoMachine
    BY <1>1 DEF Enter, Start, Resolving, Decide, Unlock
  <2>5. \/ provider'[m] = provider[m]
        \/ /\ pc[m] \in {"idle", "readback", "record"} /\ (pc[m] = "idle" \/ SameHead(m))
           /\ provider'[m].rev = head /\ provider'[m].tree = HeadTree
    BY <1>1 DEF Enter, machineVars, Start, Resolving, Decide, Unlock
  <2>6. sync'[m] = sync[m] \/ (pc[m] = "syncCloud" /\ sync'[m].cloud = CloudHash)
    BY <1>1 DEF Enter, machineVars, Start, Resolving, Decide, Unlock
  <2>e. /\ published \subseteq published' /\ acked \subseteq acked' /\ cut \subseteq cut'
        /\ \A x \in Edits : when[x] # "never" => when'[x] = when[x]
    BY <1>1 DEF Enter, history, TypeOK, Start, Resolving, Decide, Unlock
  <2>7. Effect(m)
    BY <1>0, <2>1, <2>2, <2>3, <2>4, <2>5, <2>6, <2>e DEF Effect
  <2>8. pc'[m] \in {"idle", "entry", "lock"}
    BY <1>1, GoEffect DEF Enter
  <2> QED BY <2>7, <2>8, Outside
<1>2. CASE TakeStore(m)
  <2>0. TypeOK /\ MachineOK(m)
    BY DEF MachinesOK
  <2>1. \A i \in Machines \ {m} : pc'[i] = pc[i] /\ job'[i] = job[i]
    BY <1>2, ActionMoves, MovesEffect
  <2>2. \A i \in Machines \ {m} :
        /\ live'[i] = live[i] /\ ws'[i] = ws[i] /\ marker'[i] = marker[i]
        /\ provider'[i] = provider[i] /\ sync'[i] = sync[i]
    BY <1>2 DEF TakeStore, machineVars, TypeOK, Start, Resolving, Decide, Unlock
  <2>3. /\ Len(revisions') >= Len(revisions)
        /\ \A r \in 1..Len(revisions) : revisions'[r] = revisions[r]
        /\ head' = head \/ (pc[m] = "publish" /\ head' = job[m].rev)
    BY <1>2, Facts DEF TakeStore, storeVars, Start, Resolving, Decide, Unlock
  <2>4. \/ storeLock' = storeLock
        \/ storeLock = NoMachine /\ storeLock' = m
        \/ storeLock = m /\ storeLock' = NoMachine
    BY <1>2 DEF TakeStore, Start, Resolving, Decide, Unlock
  <2>5. \/ provider'[m] = provider[m]
        \/ /\ pc[m] \in {"idle", "readback", "record"} /\ (pc[m] = "idle" \/ SameHead(m))
           /\ provider'[m].rev = head /\ provider'[m].tree = HeadTree
    BY <1>2 DEF TakeStore, machineVars, Start, Resolving, Decide, Unlock
  <2>6. sync'[m] = sync[m] \/ (pc[m] = "syncCloud" /\ sync'[m].cloud = CloudHash)
    BY <1>2 DEF TakeStore, machineVars, Start, Resolving, Decide, Unlock
  <2>e. /\ published \subseteq published' /\ acked \subseteq acked' /\ cut \subseteq cut'
        /\ \A x \in Edits : when[x] # "never" => when'[x] = when[x]
    BY <1>2 DEF TakeStore, history, TypeOK, Start, Resolving, Decide, Unlock
  <2>7. Effect(m)
    BY <1>0, <2>1, <2>2, <2>3, <2>4, <2>5, <2>6, <2>e DEF Effect
  <2>8. pc'[m] = (IF job[m].action = "push" THEN "pushCheck" ELSE "pullFetch") /\ job'[m] = job[m]
    <3>1. Go(m, IF job[m].action = "push" THEN "pushCheck" ELSE "pullFetch", job[m])
      BY <1>2 DEF TakeStore, Step
    <3> QED BY <3>1, GoEffect
  <2>9. Kind = "local" => storeLock' = m
    BY <1>2 DEF TakeStore
  <2>10. MachineOK(m)'
    BY <1>0, <1>2, <2>8, <2>9 DEF MachineOK, Kind, Holding, Deciding, Closing, Phases, SameHead
  <2> QED BY <2>7, <2>10
<1>3. CASE PushCheck(m)
  <2>0. TypeOK /\ MachineOK(m)
    BY DEF MachinesOK
  <2>1. \A i \in Machines \ {m} : pc'[i] = pc[i] /\ job'[i] = job[i]
    BY <1>3, ActionMoves, MovesEffect
  <2>2. \A i \in Machines \ {m} :
        /\ live'[i] = live[i] /\ ws'[i] = ws[i] /\ marker'[i] = marker[i]
        /\ provider'[i] = provider[i] /\ sync'[i] = sync[i]
    BY <1>3 DEF PushCheck, machineVars, TypeOK, Start, Resolving, Decide, Unlock
  <2>3. /\ Len(revisions') >= Len(revisions)
        /\ \A r \in 1..Len(revisions) : revisions'[r] = revisions[r]
        /\ head' = head \/ (pc[m] = "publish" /\ head' = job[m].rev)
    BY <1>3, Facts DEF PushCheck, storeVars, Start, Resolving, Decide, Unlock
  <2>4. \/ storeLock' = storeLock
        \/ storeLock = NoMachine /\ storeLock' = m
        \/ storeLock = m /\ storeLock' = NoMachine
    BY <1>3 DEF PushCheck, Start, Resolving, Decide, Unlock
  <2>5. \/ provider'[m] = provider[m]
        \/ /\ pc[m] \in {"idle", "readback", "record"} /\ (pc[m] = "idle" \/ SameHead(m))
           /\ provider'[m].rev = head /\ provider'[m].tree = HeadTree
    BY <1>3 DEF PushCheck, machineVars, Start, Resolving, Decide, Unlock
  <2>6. sync'[m] = sync[m] \/ (pc[m] = "syncCloud" /\ sync'[m].cloud = CloudHash)
    BY <1>3 DEF PushCheck, machineVars, Start, Resolving, Decide, Unlock
  <2>e. /\ published \subseteq published' /\ acked \subseteq acked' /\ cut \subseteq cut'
        /\ \A x \in Edits : when[x] # "never" => when'[x] = when[x]
    BY <1>3 DEF PushCheck, history, TypeOK, Start, Resolving, Decide, Unlock
  <2>7. Effect(m)
    BY <1>0, <2>1, <2>2, <2>3, <2>4, <2>5, <2>6, <2>e DEF Effect
  <2>8. pc'[m] = ("capture") /\ job'[m] = [job[m] EXCEPT !.expected = head]
    <3>1. Go(m, "capture", [job[m] EXCEPT !.expected = head])
      BY <1>3 DEF PushCheck, Step
    <3> QED BY <3>1, GoEffect
  <2>9. job'[m].expected = head
    BY <2>8, JobFields
  <2>10. UNCHANGED <<storeLock, head, revisions>> /\ (Kind = "local" => storeLock = m)
    BY <1>0, <1>3, <2>0 DEF PushCheck, storeVars, MachineOK, Kind, Holding, Deciding, Closing, Phases, SameHead
  <2>11. MachineOK(m)'
    BY <1>0, <1>3, <2>8, <2>9, <2>10 DEF MachineOK, Kind, Holding, Deciding, Closing, Phases, SameHead
  <2> QED BY <2>7, <2>11
<1>4. CASE PushCapture(m)
  <2>0. TypeOK /\ MachineOK(m)
    BY DEF MachinesOK
  <2>1. \A i \in Machines \ {m} : pc'[i] = pc[i] /\ job'[i] = job[i]
    BY <1>4, ActionMoves, MovesEffect
  <2>2. \A i \in Machines \ {m} :
        /\ live'[i] = live[i] /\ ws'[i] = ws[i] /\ marker'[i] = marker[i]
        /\ provider'[i] = provider[i] /\ sync'[i] = sync[i]
    BY <1>4 DEF PushCapture, machineVars, TypeOK, Start, Resolving, Decide, Unlock
  <2>3. /\ Len(revisions') >= Len(revisions)
        /\ \A r \in 1..Len(revisions) : revisions'[r] = revisions[r]
        /\ head' = head \/ (pc[m] = "publish" /\ head' = job[m].rev)
    BY <1>4, Facts DEF PushCapture, storeVars, Start, Resolving, Decide, Unlock
  <2>4. \/ storeLock' = storeLock
        \/ storeLock = NoMachine /\ storeLock' = m
        \/ storeLock = m /\ storeLock' = NoMachine
    BY <1>4 DEF PushCapture, Start, Resolving, Decide, Unlock
  <2>5. \/ provider'[m] = provider[m]
        \/ /\ pc[m] \in {"idle", "readback", "record"} /\ (pc[m] = "idle" \/ SameHead(m))
           /\ provider'[m].rev = head /\ provider'[m].tree = HeadTree
    BY <1>4 DEF PushCapture, machineVars, Start, Resolving, Decide, Unlock
  <2>6. sync'[m] = sync[m] \/ (pc[m] = "syncCloud" /\ sync'[m].cloud = CloudHash)
    BY <1>4 DEF PushCapture, machineVars, Start, Resolving, Decide, Unlock
  <2>e. /\ published \subseteq published' /\ acked \subseteq acked' /\ cut \subseteq cut'
        /\ \A x \in Edits : when[x] # "never" => when'[x] = when[x]
    BY <1>4 DEF PushCapture, history, TypeOK, Start, Resolving, Decide, Unlock
  <2>7. Effect(m)
    BY <1>0, <2>1, <2>2, <2>3, <2>4, <2>5, <2>6, <2>e DEF Effect
  <2>8. pc'[m] = ("upload") /\ job'[m] = job[m]
    <3>1. Go(m, "upload", job[m])
      BY <1>4 DEF PushCapture, Step
    <3> QED BY <3>1, GoEffect
  <2>9. UNCHANGED <<storeLock, head, revisions, provider>>
    BY <1>4 DEF PushCapture, storeVars, machineVars
  <2>10. job'[m].rev = job[m].rev /\ job'[m].expected = job[m].expected /\ job'[m].stage = job[m].stage
    BY <2>8, JobFields
  <2>11. MachineOK(m)'
    BY <1>0, <1>4, <2>0, <2>8, <2>9, <2>10 DEF PushCapture, Step, MachineOK, Kind, Holding, Deciding, Closing, Phases, SameHead, Uploaded, HeadTree, TreeOf
  <2> QED BY <2>7, <2>11
<1>5. CASE PushUpload(m)
  <2>0. TypeOK /\ MachineOK(m)
    BY DEF MachinesOK
  <2>1. \A i \in Machines \ {m} : pc'[i] = pc[i] /\ job'[i] = job[i]
    BY <1>5, ActionMoves, MovesEffect
  <2>2. \A i \in Machines \ {m} :
        /\ live'[i] = live[i] /\ ws'[i] = ws[i] /\ marker'[i] = marker[i]
        /\ provider'[i] = provider[i] /\ sync'[i] = sync[i]
    BY <1>5 DEF PushUpload, machineVars, TypeOK, Start, Resolving, Decide, Unlock
  <2>3. /\ Len(revisions') >= Len(revisions)
        /\ \A r \in 1..Len(revisions) : revisions'[r] = revisions[r]
        /\ head' = head \/ (pc[m] = "publish" /\ head' = job[m].rev)
    <3> DEFINE r == [tree |-> ws[m], parent |-> head]
    <3>1. revisions' = Append(revisions, r) /\ head' = head
      BY <1>5 DEF PushUpload
    <3> HIDE DEF r
    <3>2. revisions \in Seq(Revisions)
      BY DEF TypeOK
    <3> QED BY <3>1, <3>2
  <2>4. \/ storeLock' = storeLock
        \/ storeLock = NoMachine /\ storeLock' = m
        \/ storeLock = m /\ storeLock' = NoMachine
    BY <1>5 DEF PushUpload, Start, Resolving, Decide, Unlock
  <2>5. \/ provider'[m] = provider[m]
        \/ /\ pc[m] \in {"idle", "readback", "record"} /\ (pc[m] = "idle" \/ SameHead(m))
           /\ provider'[m].rev = head /\ provider'[m].tree = HeadTree
    BY <1>5 DEF PushUpload, machineVars, Start, Resolving, Decide, Unlock
  <2>6. sync'[m] = sync[m] \/ (pc[m] = "syncCloud" /\ sync'[m].cloud = CloudHash)
    BY <1>5 DEF PushUpload, machineVars, Start, Resolving, Decide, Unlock
  <2>e. /\ published \subseteq published' /\ acked \subseteq acked' /\ cut \subseteq cut'
        /\ \A x \in Edits : when[x] # "never" => when'[x] = when[x]
    BY <1>5 DEF PushUpload, history, TypeOK, Start, Resolving, Decide, Unlock
  <2>7. Effect(m)
    BY <1>0, <2>1, <2>2, <2>3, <2>4, <2>5, <2>6, <2>e DEF Effect
  <2>8. pc'[m] = ("confirm") /\ job'[m] = [job[m] EXCEPT !.stage = ws[m], !.rev = Len(revisions')]
    <3>1. Go(m, "confirm", [job[m] EXCEPT !.stage = ws[m], !.rev = Len(revisions')])
      BY <1>5 DEF PushUpload, Step
    <3> QED BY <3>1, GoEffect
  <2>9. job'[m].rev = Len(revisions') /\ job'[m].stage = ws[m] /\ job'[m].expected = job[m].expected
    BY <2>8, JobFields
  <2>10. /\ job'[m].rev \in 1..Len(revisions')
        /\ revisions'[job'[m].rev].tree = job'[m].stage
    <3> DEFINE r == [tree |-> ws[m], parent |-> head]
    <3>1. revisions' = Append(revisions, r) /\ r.tree = ws[m]
      BY <1>5 DEF PushUpload
    <3> HIDE DEF r
    <3>2. revisions \in Seq(Revisions) /\ Len(revisions) \in Nat
      BY Facts DEF TypeOK
    <3>3. Len(revisions') = Len(revisions) + 1 /\ revisions'[Len(revisions')] = r
      BY <3>1, <3>2
    <3> QED BY <2>9, <3>1, <3>2, <3>3 DEF Uploaded
  <2>11. UNCHANGED <<storeLock, head>> /\ head = job[m].expected /\ (Kind = "local" => storeLock = m)
    BY <1>0, <1>5, <2>0 DEF PushUpload, MachineOK, Kind, Holding, Deciding, Closing, Phases, SameHead
  <2>12. MachineOK(m)'
    BY <1>0, <1>5, <2>8, <2>9, <2>10, <2>11 DEF MachineOK, Kind, Holding, Deciding, Closing, Phases, SameHead, Uploaded
  <2> QED BY <2>7, <2>12
<1>6. CASE PushConfirm(m)
  <2>0. TypeOK /\ MachineOK(m)
    BY DEF MachinesOK
  <2>1. \A i \in Machines \ {m} : pc'[i] = pc[i] /\ job'[i] = job[i]
    BY <1>6, ActionMoves, MovesEffect
  <2>2. \A i \in Machines \ {m} :
        /\ live'[i] = live[i] /\ ws'[i] = ws[i] /\ marker'[i] = marker[i]
        /\ provider'[i] = provider[i] /\ sync'[i] = sync[i]
    BY <1>6 DEF PushConfirm, machineVars, TypeOK, Start, Resolving, Decide, Unlock
  <2>3. /\ Len(revisions') >= Len(revisions)
        /\ \A r \in 1..Len(revisions) : revisions'[r] = revisions[r]
        /\ head' = head \/ (pc[m] = "publish" /\ head' = job[m].rev)
    BY <1>6, Facts DEF PushConfirm, storeVars, Start, Resolving, Decide, Unlock
  <2>4. \/ storeLock' = storeLock
        \/ storeLock = NoMachine /\ storeLock' = m
        \/ storeLock = m /\ storeLock' = NoMachine
    BY <1>6 DEF PushConfirm, Start, Resolving, Decide, Unlock
  <2>5. \/ provider'[m] = provider[m]
        \/ /\ pc[m] \in {"idle", "readback", "record"} /\ (pc[m] = "idle" \/ SameHead(m))
           /\ provider'[m].rev = head /\ provider'[m].tree = HeadTree
    BY <1>6 DEF PushConfirm, machineVars, Start, Resolving, Decide, Unlock
  <2>6. sync'[m] = sync[m] \/ (pc[m] = "syncCloud" /\ sync'[m].cloud = CloudHash)
    BY <1>6 DEF PushConfirm, machineVars, Start, Resolving, Decide, Unlock
  <2>e. /\ published \subseteq published' /\ acked \subseteq acked' /\ cut \subseteq cut'
        /\ \A x \in Edits : when[x] # "never" => when'[x] = when[x]
    BY <1>6 DEF PushConfirm, history, TypeOK, Start, Resolving, Decide, Unlock
  <2>7. Effect(m)
    BY <1>0, <2>1, <2>2, <2>3, <2>4, <2>5, <2>6, <2>e DEF Effect
  <2>8. pc'[m] = ("publish") /\ job'[m] = job[m]
    <3>1. Go(m, "publish", job[m])
      BY <1>6 DEF PushConfirm, Step
    <3> QED BY <3>1, GoEffect
  <2>9. UNCHANGED <<storeLock, head, revisions, provider>>
    BY <1>6 DEF PushConfirm, storeVars, machineVars
  <2>10. job'[m].rev = job[m].rev /\ job'[m].expected = job[m].expected /\ job'[m].stage = job[m].stage
    BY <2>8, JobFields
  <2>11. MachineOK(m)'
    BY <1>0, <1>6, <2>0, <2>8, <2>9, <2>10 DEF PushConfirm, Step, MachineOK, Kind, Holding, Deciding, Closing, Phases, SameHead, Uploaded, HeadTree, TreeOf
  <2> QED BY <2>7, <2>11
<1>7. CASE PushHead(m)
  <2>0. TypeOK /\ MachineOK(m)
    BY DEF MachinesOK
  <2>1. \A i \in Machines \ {m} : pc'[i] = pc[i] /\ job'[i] = job[i]
    BY <1>7, ActionMoves, MovesEffect
  <2>2. \A i \in Machines \ {m} :
        /\ live'[i] = live[i] /\ ws'[i] = ws[i] /\ marker'[i] = marker[i]
        /\ provider'[i] = provider[i] /\ sync'[i] = sync[i]
    BY <1>7 DEF PushHead, machineVars, TypeOK, Start, Resolving, Decide, Unlock
  <2>3. /\ Len(revisions') >= Len(revisions)
        /\ \A r \in 1..Len(revisions) : revisions'[r] = revisions[r]
        /\ head' = head \/ (pc[m] = "publish" /\ head' = job[m].rev)
    BY <1>7, Facts DEF PushHead, storeVars, Start, Resolving, Decide, Unlock
  <2>4. \/ storeLock' = storeLock
        \/ storeLock = NoMachine /\ storeLock' = m
        \/ storeLock = m /\ storeLock' = NoMachine
    BY <1>7 DEF PushHead, Start, Resolving, Decide, Unlock
  <2>5. \/ provider'[m] = provider[m]
        \/ /\ pc[m] \in {"idle", "readback", "record"} /\ (pc[m] = "idle" \/ SameHead(m))
           /\ provider'[m].rev = head /\ provider'[m].tree = HeadTree
    BY <1>7 DEF PushHead, machineVars, Start, Resolving, Decide, Unlock
  <2>6. sync'[m] = sync[m] \/ (pc[m] = "syncCloud" /\ sync'[m].cloud = CloudHash)
    BY <1>7 DEF PushHead, machineVars, Start, Resolving, Decide, Unlock
  <2>e. /\ published \subseteq published' /\ acked \subseteq acked' /\ cut \subseteq cut'
        /\ \A x \in Edits : when[x] # "never" => when'[x] = when[x]
    BY <1>7 DEF PushHead, history, TypeOK, Start, Resolving, Decide, Unlock
  <2>7. Effect(m)
    BY <1>0, <2>1, <2>2, <2>3, <2>4, <2>5, <2>6, <2>e DEF Effect
  <2>8. pc'[m] = ("readback") /\ job'[m] = [job[m] EXCEPT !.expected = job[m].rev]
    <3>1. Go(m, "readback", [job[m] EXCEPT !.expected = job[m].rev])
      BY <1>7 DEF PushHead, Step
    <3> QED BY <3>1, GoEffect
  <2>9. /\ Uploaded(job[m].rev, job[m].stage) /\ (Kind = "local" => storeLock = m)
        /\ pc[m] = "publish"
    BY <1>0, <1>7, <2>0 DEF PushHead, MachineOK, Holding, Phases
  <2>10. job'[m].expected = job[m].rev /\ job'[m].stage = job[m].stage
    BY <2>8, JobFields
  <2>11. UNCHANGED <<revisions, storeLock>> /\ head' = job[m].rev
    BY <1>7 DEF PushHead
  <2>12. MachineOK(m)'
    BY <1>0, <1>7, <2>8, <2>9, <2>10, <2>11 DEF MachineOK, Kind, Holding, Deciding, Closing, Phases, SameHead, Uploaded
  <2> QED BY <2>7, <2>12
<1>8. CASE PushRecord(m)
  <2>0. TypeOK /\ MachineOK(m)
    BY DEF MachinesOK
  <2>1. \A i \in Machines \ {m} : pc'[i] = pc[i] /\ job'[i] = job[i]
    BY <1>8, ActionMoves, MovesEffect
  <2>2. \A i \in Machines \ {m} :
        /\ live'[i] = live[i] /\ ws'[i] = ws[i] /\ marker'[i] = marker[i]
        /\ provider'[i] = provider[i] /\ sync'[i] = sync[i]
    BY <1>8 DEF PushRecord, machineVars, TypeOK, Start, Resolving, Decide, Unlock
  <2>3. /\ Len(revisions') >= Len(revisions)
        /\ \A r \in 1..Len(revisions) : revisions'[r] = revisions[r]
        /\ head' = head \/ (pc[m] = "publish" /\ head' = job[m].rev)
    BY <1>8, Facts DEF PushRecord, storeVars, Start, Resolving, Decide, Unlock
  <2>4. \/ storeLock' = storeLock
        \/ storeLock = NoMachine /\ storeLock' = m
        \/ storeLock = m /\ storeLock' = NoMachine
    BY <1>8 DEF PushRecord, Start, Resolving, Decide, Unlock
  <2>5. \/ provider'[m] = provider[m]
        \/ /\ pc[m] \in {"idle", "readback", "record"} /\ (pc[m] = "idle" \/ SameHead(m))
           /\ provider'[m].rev = head /\ provider'[m].tree = HeadTree
    <3> DEFINE b == BaselineNow(m)
    <3>1. provider' = [provider EXCEPT ![m] = b] /\ b.tree = HeadTree /\ b.rev = head
      BY <1>8 DEF BaselineNow, PushRecord
    <3> HIDE DEF b
    <3>2. provider'[m].tree = HeadTree /\ provider'[m].rev = head
      BY <3>1 DEF TypeOK
    <3> QED BY <1>8, <3>2 DEF PushRecord
  <2>6. sync'[m] = sync[m] \/ (pc[m] = "syncCloud" /\ sync'[m].cloud = CloudHash)
    BY <1>8 DEF PushRecord, machineVars, Start, Resolving, Decide, Unlock
  <2>e. /\ published \subseteq published' /\ acked \subseteq acked' /\ cut \subseteq cut'
        /\ \A x \in Edits : when[x] # "never" => when'[x] = when[x]
    BY <1>8 DEF PushRecord, history, TypeOK, Start, Resolving, Decide, Unlock
  <2>7. Effect(m)
    BY <1>0, <2>1, <2>2, <2>3, <2>4, <2>5, <2>6, <2>e DEF Effect
  <2>8. pc'[m] = ("clear") /\ job'[m] = Finishing(m)
    <3>1. Go(m, "clear", Finishing(m))
      BY <1>8 DEF PushRecord, Step
    <3> QED BY <3>1, GoEffect
  <2>9. /\ Uploaded(job[m].expected, job[m].stage) /\ head = job[m].expected
        /\ (Kind = "local" => storeLock = m)
    BY <1>0, <1>8, <2>0 DEF PushRecord, MachineOK, Kind, Holding, Deciding, Closing, Phases, SameHead
  <2>10. head # 0
    BY <2>9 DEF Uploaded
  <2>11. UNCHANGED <<storeLock, head, revisions>> /\ HeadTree' = HeadTree
    BY <1>8 DEF PushRecord, storeVars, HeadTree, TreeOf
  <2>12. provider'[m].tree = HeadTree /\ provider'[m].rev = head
    <3> DEFINE b == BaselineNow(m)
    <3>1. provider' = [provider EXCEPT ![m] = b] /\ b.tree = HeadTree /\ b.rev = head
      BY <1>8 DEF BaselineNow, PushRecord
    <3> HIDE DEF b
    <3> QED BY <3>1 DEF TypeOK
  <2>13. MachineOK(m)'
    BY <1>0, <1>8, <2>8, <2>9, <2>10, <2>11, <2>12 DEF MachineOK, Kind, Holding, Deciding, Closing, Phases, SameHead
  <2> QED BY <2>7, <2>13
<1>9. CASE PullFetch(m)
  <2>0. TypeOK /\ MachineOK(m)
    BY DEF MachinesOK
  <2>1. \A i \in Machines \ {m} : pc'[i] = pc[i] /\ job'[i] = job[i]
    BY <1>9, ActionMoves, MovesEffect
  <2>2. \A i \in Machines \ {m} :
        /\ live'[i] = live[i] /\ ws'[i] = ws[i] /\ marker'[i] = marker[i]
        /\ provider'[i] = provider[i] /\ sync'[i] = sync[i]
    BY <1>9 DEF PullFetch, machineVars, TypeOK, Start, Resolving, Decide, Unlock
  <2>3. /\ Len(revisions') >= Len(revisions)
        /\ \A r \in 1..Len(revisions) : revisions'[r] = revisions[r]
        /\ head' = head \/ (pc[m] = "publish" /\ head' = job[m].rev)
    BY <1>9, Facts DEF PullFetch, storeVars, Start, Resolving, Decide, Unlock
  <2>4. \/ storeLock' = storeLock
        \/ storeLock = NoMachine /\ storeLock' = m
        \/ storeLock = m /\ storeLock' = NoMachine
    BY <1>9 DEF PullFetch, Start, Resolving, Decide, Unlock
  <2>5. \/ provider'[m] = provider[m]
        \/ /\ pc[m] \in {"idle", "readback", "record"} /\ (pc[m] = "idle" \/ SameHead(m))
           /\ provider'[m].rev = head /\ provider'[m].tree = HeadTree
    BY <1>9 DEF PullFetch, machineVars, Start, Resolving, Decide, Unlock
  <2>6. sync'[m] = sync[m] \/ (pc[m] = "syncCloud" /\ sync'[m].cloud = CloudHash)
    BY <1>9 DEF PullFetch, machineVars, Start, Resolving, Decide, Unlock
  <2>e. /\ published \subseteq published' /\ acked \subseteq acked' /\ cut \subseteq cut'
        /\ \A x \in Edits : when[x] # "never" => when'[x] = when[x]
    BY <1>9 DEF PullFetch, history, TypeOK, Start, Resolving, Decide, Unlock
  <2>7. Effect(m)
    BY <1>0, <2>1, <2>2, <2>3, <2>4, <2>5, <2>6, <2>e DEF Effect
  <2>8. pc'[m] = (IF job[m].sourceOnly THEN "install" ELSE "guard") /\ job'[m] = [job[m] EXCEPT !.expected = head, !.stage = HeadTree]
    <3>1. Go(m, IF job[m].sourceOnly THEN "install" ELSE "guard", [job[m] EXCEPT !.expected = head, !.stage = HeadTree])
      BY <1>9 DEF PullFetch, Step
    <3> QED BY <3>1, GoEffect
  <2>9. job'[m].expected = head
    BY <2>8, JobFields
  <2>10. UNCHANGED <<storeLock, head, revisions>> /\ (Kind = "local" => storeLock = m)
    BY <1>0, <1>9, <2>0 DEF PullFetch, storeVars, MachineOK, Kind, Holding, Deciding, Closing, Phases, SameHead
  <2>11. /\ job'[m].expected \in 1..Len(revisions')
        /\ revisions'[job'[m].expected].tree = job'[m].stage
    <3>1. job'[m].stage = HeadTree
      BY <2>8, JobFields
    <3>2. head # 0
      BY <1>9 DEF PullFetch
    <3>3. head \in 1..Len(revisions)
      BY <3>2, Facts DEF TypeOK
    <3> QED BY <2>9, <2>10, <3>1, <3>2, <3>3 DEF Uploaded, HeadTree, TreeOf
  <2>12. MachineOK(m)'
    BY <1>0, <1>9, <2>8, <2>9, <2>10, <2>11 DEF MachineOK, Kind, Holding, Deciding, Closing, Phases, SameHead, Uploaded
  <2> QED BY <2>7, <2>12
<1>10. CASE PullGuard(m)
  <2>0. TypeOK /\ MachineOK(m)
    BY DEF MachinesOK
  <2>1. \A i \in Machines \ {m} : pc'[i] = pc[i] /\ job'[i] = job[i]
    BY <1>10, ActionMoves, MovesEffect
  <2>2. \A i \in Machines \ {m} :
        /\ live'[i] = live[i] /\ ws'[i] = ws[i] /\ marker'[i] = marker[i]
        /\ provider'[i] = provider[i] /\ sync'[i] = sync[i]
    BY <1>10 DEF PullGuard, machineVars, TypeOK, Start, Resolving, Decide, Unlock
  <2>3. /\ Len(revisions') >= Len(revisions)
        /\ \A r \in 1..Len(revisions) : revisions'[r] = revisions[r]
        /\ head' = head \/ (pc[m] = "publish" /\ head' = job[m].rev)
    BY <1>10, Facts DEF PullGuard, storeVars, Start, Resolving, Decide, Unlock
  <2>4. \/ storeLock' = storeLock
        \/ storeLock = NoMachine /\ storeLock' = m
        \/ storeLock = m /\ storeLock' = NoMachine
    BY <1>10 DEF PullGuard, Start, Resolving, Decide, Unlock
  <2>5. \/ provider'[m] = provider[m]
        \/ /\ pc[m] \in {"idle", "readback", "record"} /\ (pc[m] = "idle" \/ SameHead(m))
           /\ provider'[m].rev = head /\ provider'[m].tree = HeadTree
    BY <1>10 DEF PullGuard, machineVars, Start, Resolving, Decide, Unlock
  <2>6. sync'[m] = sync[m] \/ (pc[m] = "syncCloud" /\ sync'[m].cloud = CloudHash)
    BY <1>10 DEF PullGuard, machineVars, Start, Resolving, Decide, Unlock
  <2>e. /\ published \subseteq published' /\ acked \subseteq acked' /\ cut \subseteq cut'
        /\ \A x \in Edits : when[x] # "never" => when'[x] = when[x]
    BY <1>10 DEF PullGuard, history, TypeOK, Start, Resolving, Decide, Unlock
  <2>7. Effect(m)
    BY <1>0, <2>1, <2>2, <2>3, <2>4, <2>5, <2>6, <2>e DEF Effect
  <2>8. pc'[m] = ("install") /\ job'[m] = [job[m] EXCEPT !.local = live[m]]
    <3>1. Go(m, "install", [job[m] EXCEPT !.local = live[m]])
      BY <1>10 DEF PullGuard, Step
    <3> QED BY <3>1, GoEffect
  <2>9. UNCHANGED <<storeLock, head, revisions, provider>>
    BY <1>10 DEF PullGuard, storeVars, machineVars
  <2>10. job'[m].rev = job[m].rev /\ job'[m].expected = job[m].expected /\ job'[m].stage = job[m].stage
    BY <2>8, JobFields
  <2>11. MachineOK(m)'
    BY <1>0, <1>10, <2>0, <2>8, <2>9, <2>10 DEF PullGuard, Step, MachineOK, Kind, Holding, Deciding, Closing, Phases, SameHead, Uploaded, HeadTree, TreeOf
  <2> QED BY <2>7, <2>11
<1>11. CASE PullInstall(m)
  <2>0. TypeOK /\ MachineOK(m)
    BY DEF MachinesOK
  <2>1. \A i \in Machines \ {m} : pc'[i] = pc[i] /\ job'[i] = job[i]
    BY <1>11, ActionMoves, MovesEffect
  <2>2. \A i \in Machines \ {m} :
        /\ live'[i] = live[i] /\ ws'[i] = ws[i] /\ marker'[i] = marker[i]
        /\ provider'[i] = provider[i] /\ sync'[i] = sync[i]
    BY <1>11 DEF PullInstall, machineVars, TypeOK, Start, Resolving, Decide, Unlock
  <2>3. /\ Len(revisions') >= Len(revisions)
        /\ \A r \in 1..Len(revisions) : revisions'[r] = revisions[r]
        /\ head' = head \/ (pc[m] = "publish" /\ head' = job[m].rev)
    BY <1>11, Facts DEF PullInstall, storeVars, Start, Resolving, Decide, Unlock
  <2>4. \/ storeLock' = storeLock
        \/ storeLock = NoMachine /\ storeLock' = m
        \/ storeLock = m /\ storeLock' = NoMachine
    BY <1>11 DEF PullInstall, Start, Resolving, Decide, Unlock
  <2>5. \/ provider'[m] = provider[m]
        \/ /\ pc[m] \in {"idle", "readback", "record"} /\ (pc[m] = "idle" \/ SameHead(m))
           /\ provider'[m].rev = head /\ provider'[m].tree = HeadTree
    BY <1>11 DEF PullInstall, machineVars, Start, Resolving, Decide, Unlock
  <2>6. sync'[m] = sync[m] \/ (pc[m] = "syncCloud" /\ sync'[m].cloud = CloudHash)
    BY <1>11 DEF PullInstall, machineVars, Start, Resolving, Decide, Unlock
  <2>e. /\ published \subseteq published' /\ acked \subseteq acked' /\ cut \subseteq cut'
        /\ \A x \in Edits : when[x] # "never" => when'[x] = when[x]
    BY <1>11 DEF PullInstall, history, TypeOK, Start, Resolving, Decide, Unlock
  <2>7. Effect(m)
    BY <1>0, <2>1, <2>2, <2>3, <2>4, <2>5, <2>6, <2>e DEF Effect
  <2>8. pc'[m] = (IF job[m].sourceOnly THEN "record" ELSE "recheck") /\ job'[m] = job[m]
    <3>1. Go(m, IF job[m].sourceOnly THEN "record" ELSE "recheck", job[m])
      BY <1>11 DEF PullInstall, Step
    <3> QED BY <3>1, GoEffect
  <2>9. UNCHANGED <<storeLock, head, revisions, provider>>
    BY <1>11 DEF PullInstall, storeVars, machineVars
  <2>10. job'[m].rev = job[m].rev /\ job'[m].expected = job[m].expected /\ job'[m].stage = job[m].stage
    BY <2>8, JobFields
  <2>11. MachineOK(m)'
    BY <1>0, <1>11, <2>0, <2>8, <2>9, <2>10 DEF PullInstall, Step, MachineOK, Kind, Holding, Deciding, Closing, Phases, SameHead, Uploaded, HeadTree, TreeOf
  <2> QED BY <2>7, <2>11
<1>12. CASE PullRecheck(m)
  <2>0. TypeOK /\ MachineOK(m)
    BY DEF MachinesOK
  <2>1. \A i \in Machines \ {m} : pc'[i] = pc[i] /\ job'[i] = job[i]
    BY <1>12, ActionMoves, MovesEffect
  <2>2. \A i \in Machines \ {m} :
        /\ live'[i] = live[i] /\ ws'[i] = ws[i] /\ marker'[i] = marker[i]
        /\ provider'[i] = provider[i] /\ sync'[i] = sync[i]
    BY <1>12 DEF PullRecheck, machineVars, TypeOK, Start, Resolving, Decide, Unlock
  <2>3. /\ Len(revisions') >= Len(revisions)
        /\ \A r \in 1..Len(revisions) : revisions'[r] = revisions[r]
        /\ head' = head \/ (pc[m] = "publish" /\ head' = job[m].rev)
    BY <1>12, Facts DEF PullRecheck, storeVars, Start, Resolving, Decide, Unlock
  <2>4. \/ storeLock' = storeLock
        \/ storeLock = NoMachine /\ storeLock' = m
        \/ storeLock = m /\ storeLock' = NoMachine
    BY <1>12 DEF PullRecheck, Start, Resolving, Decide, Unlock
  <2>5. \/ provider'[m] = provider[m]
        \/ /\ pc[m] \in {"idle", "readback", "record"} /\ (pc[m] = "idle" \/ SameHead(m))
           /\ provider'[m].rev = head /\ provider'[m].tree = HeadTree
    BY <1>12 DEF PullRecheck, machineVars, Start, Resolving, Decide, Unlock
  <2>6. sync'[m] = sync[m] \/ (pc[m] = "syncCloud" /\ sync'[m].cloud = CloudHash)
    BY <1>12 DEF PullRecheck, machineVars, Start, Resolving, Decide, Unlock
  <2>e. /\ published \subseteq published' /\ acked \subseteq acked' /\ cut \subseteq cut'
        /\ \A x \in Edits : when[x] # "never" => when'[x] = when[x]
    BY <1>12 DEF PullRecheck, history, TypeOK, Start, Resolving, Decide, Unlock
  <2>7. Effect(m)
    BY <1>0, <2>1, <2>2, <2>3, <2>4, <2>5, <2>6, <2>e DEF Effect
  <2>8. pc'[m] = ("apply") /\ job'[m] = job[m]
    <3>1. Go(m, "apply", job[m])
      BY <1>12 DEF PullRecheck, Step
    <3> QED BY <3>1, GoEffect
  <2>9. UNCHANGED <<storeLock, head, revisions, provider>>
    BY <1>12 DEF PullRecheck, storeVars, machineVars
  <2>10. job'[m].rev = job[m].rev /\ job'[m].expected = job[m].expected /\ job'[m].stage = job[m].stage
    BY <2>8, JobFields
  <2>11. MachineOK(m)'
    BY <1>0, <1>12, <2>0, <2>8, <2>9, <2>10 DEF PullRecheck, Step, MachineOK, Kind, Holding, Deciding, Closing, Phases, SameHead, Uploaded, HeadTree, TreeOf
  <2> QED BY <2>7, <2>11
<1>13. CASE PullApply(m)
  <2>0. TypeOK /\ MachineOK(m)
    BY DEF MachinesOK
  <2>1. \A i \in Machines \ {m} : pc'[i] = pc[i] /\ job'[i] = job[i]
    BY <1>13, ActionMoves, MovesEffect
  <2>2. \A i \in Machines \ {m} :
        /\ live'[i] = live[i] /\ ws'[i] = ws[i] /\ marker'[i] = marker[i]
        /\ provider'[i] = provider[i] /\ sync'[i] = sync[i]
    BY <1>13 DEF PullApply, machineVars, TypeOK, Start, Resolving, Decide, Unlock
  <2>3. /\ Len(revisions') >= Len(revisions)
        /\ \A r \in 1..Len(revisions) : revisions'[r] = revisions[r]
        /\ head' = head \/ (pc[m] = "publish" /\ head' = job[m].rev)
    BY <1>13, Facts DEF PullApply, storeVars, Start, Resolving, Decide, Unlock
  <2>4. \/ storeLock' = storeLock
        \/ storeLock = NoMachine /\ storeLock' = m
        \/ storeLock = m /\ storeLock' = NoMachine
    BY <1>13 DEF PullApply, Start, Resolving, Decide, Unlock
  <2>5. \/ provider'[m] = provider[m]
        \/ /\ pc[m] \in {"idle", "readback", "record"} /\ (pc[m] = "idle" \/ SameHead(m))
           /\ provider'[m].rev = head /\ provider'[m].tree = HeadTree
    BY <1>13 DEF PullApply, machineVars, Start, Resolving, Decide, Unlock
  <2>6. sync'[m] = sync[m] \/ (pc[m] = "syncCloud" /\ sync'[m].cloud = CloudHash)
    BY <1>13 DEF PullApply, machineVars, Start, Resolving, Decide, Unlock
  <2>e. /\ published \subseteq published' /\ acked \subseteq acked' /\ cut \subseteq cut'
        /\ \A x \in Edits : when[x] # "never" => when'[x] = when[x]
    BY <1>13 DEF PullApply, history, TypeOK, Start, Resolving, Decide, Unlock
  <2>7. Effect(m)
    BY <1>0, <2>1, <2>2, <2>3, <2>4, <2>5, <2>6, <2>e DEF Effect
  <2>8. pc'[m] = ("record") /\ job'[m] = job[m]
    <3>1. Go(m, "record", job[m])
      BY <1>13 DEF PullApply, Step
    <3> QED BY <3>1, GoEffect
  <2>9. UNCHANGED <<storeLock, head, revisions, provider>>
    BY <1>13 DEF PullApply, storeVars, machineVars
  <2>10. job'[m].rev = job[m].rev /\ job'[m].expected = job[m].expected /\ job'[m].stage = job[m].stage
    BY <2>8, JobFields
  <2>11. MachineOK(m)'
    BY <1>0, <1>13, <2>0, <2>8, <2>9, <2>10 DEF PullApply, Step, MachineOK, Kind, Holding, Deciding, Closing, Phases, SameHead, Uploaded, HeadTree, TreeOf
  <2> QED BY <2>7, <2>11
<1>14. CASE PullRecord(m)
  <2>0. TypeOK /\ MachineOK(m)
    BY DEF MachinesOK
  <2>1. \A i \in Machines \ {m} : pc'[i] = pc[i] /\ job'[i] = job[i]
    BY <1>14, ActionMoves, MovesEffect
  <2>2. \A i \in Machines \ {m} :
        /\ live'[i] = live[i] /\ ws'[i] = ws[i] /\ marker'[i] = marker[i]
        /\ provider'[i] = provider[i] /\ sync'[i] = sync[i]
    BY <1>14 DEF PullRecord, machineVars, TypeOK, Start, Resolving, Decide, Unlock
  <2>3. /\ Len(revisions') >= Len(revisions)
        /\ \A r \in 1..Len(revisions) : revisions'[r] = revisions[r]
        /\ head' = head \/ (pc[m] = "publish" /\ head' = job[m].rev)
    BY <1>14, Facts DEF PullRecord, storeVars, Start, Resolving, Decide, Unlock
  <2>4. \/ storeLock' = storeLock
        \/ storeLock = NoMachine /\ storeLock' = m
        \/ storeLock = m /\ storeLock' = NoMachine
    BY <1>14 DEF PullRecord, Start, Resolving, Decide, Unlock
  <2>5. \/ provider'[m] = provider[m]
        \/ /\ pc[m] \in {"idle", "readback", "record"} /\ (pc[m] = "idle" \/ SameHead(m))
           /\ provider'[m].rev = head /\ provider'[m].tree = HeadTree
    <3> DEFINE b == BaselineNow(m)
    <3>1. provider' = [provider EXCEPT ![m] = b] /\ b.tree = HeadTree /\ b.rev = head
      BY <1>14 DEF BaselineNow, PullRecord
    <3> HIDE DEF b
    <3>2. provider'[m].tree = HeadTree /\ provider'[m].rev = head
      BY <3>1 DEF TypeOK
    <3> QED BY <1>14, <3>2 DEF PullRecord
  <2>6. sync'[m] = sync[m] \/ (pc[m] = "syncCloud" /\ sync'[m].cloud = CloudHash)
    BY <1>14 DEF PullRecord, machineVars, Start, Resolving, Decide, Unlock
  <2>e. /\ published \subseteq published' /\ acked \subseteq acked' /\ cut \subseteq cut'
        /\ \A x \in Edits : when[x] # "never" => when'[x] = when[x]
    BY <1>14 DEF PullRecord, history, TypeOK, Start, Resolving, Decide, Unlock
  <2>7. Effect(m)
    BY <1>0, <2>1, <2>2, <2>3, <2>4, <2>5, <2>6, <2>e DEF Effect
  <2>8. pc'[m] \in {"clear", "mark", "release"} /\ pc[m] = "record"
    <3>1. \E label \in {"clear", "mark", "release"} : Go(m, label, Finishing(m))
      BY <1>14 DEF PullRecord
    <3> QED BY <1>14, <3>1, GoEffect DEF PullRecord
  <2>9. /\ Uploaded(job[m].expected, job[m].stage) /\ head = job[m].expected
        /\ (Kind = "local" => storeLock = m)
    BY <1>0, <1>14, <2>0 DEF PullRecord, MachineOK, Kind, Holding, Deciding, Closing, Phases, SameHead
  <2>10. head # 0
    BY <2>9 DEF Uploaded
  <2>11. UNCHANGED <<storeLock, head, revisions>> /\ HeadTree' = HeadTree
    BY <1>14 DEF PullRecord, storeVars, HeadTree, TreeOf
  <2>12. provider'[m].tree = HeadTree /\ provider'[m].rev = head
    <3> DEFINE b == BaselineNow(m)
    <3>1. provider' = [provider EXCEPT ![m] = b] /\ b.tree = HeadTree /\ b.rev = head
      BY <1>14 DEF BaselineNow, PullRecord
    <3> HIDE DEF b
    <3> QED BY <3>1 DEF TypeOK
  <2>13. MachineOK(m)'
    BY <1>0, <1>14, <2>8, <2>9, <2>10, <2>11, <2>12 DEF MachineOK, Kind, Holding, Deciding, Closing, Phases, SameHead
  <2> QED BY <2>7, <2>13
<1>15. CASE PullMark(m)
  <2>0. TypeOK /\ MachineOK(m)
    BY DEF MachinesOK
  <2>1. \A i \in Machines \ {m} : pc'[i] = pc[i] /\ job'[i] = job[i]
    BY <1>15, ActionMoves, MovesEffect
  <2>2. \A i \in Machines \ {m} :
        /\ live'[i] = live[i] /\ ws'[i] = ws[i] /\ marker'[i] = marker[i]
        /\ provider'[i] = provider[i] /\ sync'[i] = sync[i]
    BY <1>15 DEF PullMark, machineVars, TypeOK, Start, Resolving, Decide, Unlock
  <2>3. /\ Len(revisions') >= Len(revisions)
        /\ \A r \in 1..Len(revisions) : revisions'[r] = revisions[r]
        /\ head' = head \/ (pc[m] = "publish" /\ head' = job[m].rev)
    BY <1>15, Facts DEF PullMark, storeVars, Start, Resolving, Decide, Unlock
  <2>4. \/ storeLock' = storeLock
        \/ storeLock = NoMachine /\ storeLock' = m
        \/ storeLock = m /\ storeLock' = NoMachine
    BY <1>15 DEF PullMark, Start, Resolving, Decide, Unlock
  <2>5. \/ provider'[m] = provider[m]
        \/ /\ pc[m] \in {"idle", "readback", "record"} /\ (pc[m] = "idle" \/ SameHead(m))
           /\ provider'[m].rev = head /\ provider'[m].tree = HeadTree
    BY <1>15 DEF PullMark, machineVars, Start, Resolving, Decide, Unlock
  <2>6. sync'[m] = sync[m] \/ (pc[m] = "syncCloud" /\ sync'[m].cloud = CloudHash)
    BY <1>15 DEF PullMark, machineVars, Start, Resolving, Decide, Unlock
  <2>e. /\ published \subseteq published' /\ acked \subseteq acked' /\ cut \subseteq cut'
        /\ \A x \in Edits : when[x] # "never" => when'[x] = when[x]
    BY <1>15 DEF PullMark, history, TypeOK, Start, Resolving, Decide, Unlock
  <2>7. Effect(m)
    BY <1>0, <2>1, <2>2, <2>3, <2>4, <2>5, <2>6, <2>e DEF Effect
  <2>8. pc'[m] = ("release") /\ job'[m] = job[m]
    <3>1. Go(m, "release", job[m])
      BY <1>15 DEF PullMark, Step
    <3> QED BY <3>1, GoEffect
  <2>9. UNCHANGED <<storeLock, head, revisions, provider>>
    BY <1>15 DEF PullMark, storeVars, machineVars
  <2>10. job'[m].rev = job[m].rev /\ job'[m].expected = job[m].expected /\ job'[m].stage = job[m].stage
    BY <2>8, JobFields
  <2>11. MachineOK(m)'
    BY <1>0, <1>15, <2>0, <2>8, <2>9, <2>10 DEF PullMark, Step, MachineOK, Kind, Holding, Deciding, Closing, Phases, SameHead, Uploaded, HeadTree, TreeOf
  <2> QED BY <2>7, <2>11
<1>16. CASE ClearMarker(m)
  <2>0. TypeOK /\ MachineOK(m)
    BY DEF MachinesOK
  <2>1. \A i \in Machines \ {m} : pc'[i] = pc[i] /\ job'[i] = job[i]
    BY <1>16, ActionMoves, MovesEffect
  <2>2. \A i \in Machines \ {m} :
        /\ live'[i] = live[i] /\ ws'[i] = ws[i] /\ marker'[i] = marker[i]
        /\ provider'[i] = provider[i] /\ sync'[i] = sync[i]
    BY <1>16 DEF ClearMarker, machineVars, TypeOK, Start, Resolving, Decide, Unlock
  <2>3. /\ Len(revisions') >= Len(revisions)
        /\ \A r \in 1..Len(revisions) : revisions'[r] = revisions[r]
        /\ head' = head \/ (pc[m] = "publish" /\ head' = job[m].rev)
    BY <1>16, Facts DEF ClearMarker, storeVars, Start, Resolving, Decide, Unlock
  <2>4. \/ storeLock' = storeLock
        \/ storeLock = NoMachine /\ storeLock' = m
        \/ storeLock = m /\ storeLock' = NoMachine
    BY <1>16 DEF ClearMarker, Start, Resolving, Decide, Unlock
  <2>5. \/ provider'[m] = provider[m]
        \/ /\ pc[m] \in {"idle", "readback", "record"} /\ (pc[m] = "idle" \/ SameHead(m))
           /\ provider'[m].rev = head /\ provider'[m].tree = HeadTree
    BY <1>16 DEF ClearMarker, machineVars, Start, Resolving, Decide, Unlock
  <2>6. sync'[m] = sync[m] \/ (pc[m] = "syncCloud" /\ sync'[m].cloud = CloudHash)
    BY <1>16 DEF ClearMarker, machineVars, Start, Resolving, Decide, Unlock
  <2>e. /\ published \subseteq published' /\ acked \subseteq acked' /\ cut \subseteq cut'
        /\ \A x \in Edits : when[x] # "never" => when'[x] = when[x]
    BY <1>16 DEF ClearMarker, history, TypeOK, Start, Resolving, Decide, Unlock
  <2>7. Effect(m)
    BY <1>0, <2>1, <2>2, <2>3, <2>4, <2>5, <2>6, <2>e DEF Effect
  <2>8. pc'[m] = ("syncLocal") /\ job'[m] = job[m]
    <3>1. Go(m, "syncLocal", job[m])
      BY <1>16 DEF ClearMarker, Step
    <3> QED BY <3>1, GoEffect
  <2>9. UNCHANGED <<storeLock, head, revisions, provider>>
    BY <1>16 DEF ClearMarker, storeVars, machineVars
  <2>10. job'[m].rev = job[m].rev /\ job'[m].expected = job[m].expected /\ job'[m].stage = job[m].stage
    BY <2>8, JobFields
  <2>11. MachineOK(m)'
    BY <1>0, <1>16, <2>0, <2>8, <2>9, <2>10 DEF ClearMarker, Step, MachineOK, Kind, Holding, Deciding, Closing, Phases, SameHead, Uploaded, HeadTree, TreeOf
  <2> QED BY <2>7, <2>11
<1>17. CASE SyncLocal(m)
  <2>0. TypeOK /\ MachineOK(m)
    BY DEF MachinesOK
  <2>1. \A i \in Machines \ {m} : pc'[i] = pc[i] /\ job'[i] = job[i]
    BY <1>17, ActionMoves, MovesEffect
  <2>2. \A i \in Machines \ {m} :
        /\ live'[i] = live[i] /\ ws'[i] = ws[i] /\ marker'[i] = marker[i]
        /\ provider'[i] = provider[i] /\ sync'[i] = sync[i]
    BY <1>17 DEF SyncLocal, machineVars, TypeOK, Start, Resolving, Decide, Unlock
  <2>3. /\ Len(revisions') >= Len(revisions)
        /\ \A r \in 1..Len(revisions) : revisions'[r] = revisions[r]
        /\ head' = head \/ (pc[m] = "publish" /\ head' = job[m].rev)
    BY <1>17, Facts DEF SyncLocal, storeVars, Start, Resolving, Decide, Unlock
  <2>4. \/ storeLock' = storeLock
        \/ storeLock = NoMachine /\ storeLock' = m
        \/ storeLock = m /\ storeLock' = NoMachine
    BY <1>17 DEF SyncLocal, Start, Resolving, Decide, Unlock
  <2>5. \/ provider'[m] = provider[m]
        \/ /\ pc[m] \in {"idle", "readback", "record"} /\ (pc[m] = "idle" \/ SameHead(m))
           /\ provider'[m].rev = head /\ provider'[m].tree = HeadTree
    BY <1>17 DEF SyncLocal, machineVars, Start, Resolving, Decide, Unlock
  <2>6. sync'[m] = sync[m] \/ (pc[m] = "syncCloud" /\ sync'[m].cloud = CloudHash)
    BY <1>17 DEF SyncLocal, machineVars, Start, Resolving, Decide, Unlock
  <2>e. /\ published \subseteq published' /\ acked \subseteq acked' /\ cut \subseteq cut'
        /\ \A x \in Edits : when[x] # "never" => when'[x] = when[x]
    BY <1>17 DEF SyncLocal, history, TypeOK, Start, Resolving, Decide, Unlock
  <2>7. Effect(m)
    BY <1>0, <2>1, <2>2, <2>3, <2>4, <2>5, <2>6, <2>e DEF Effect
  <2>8. pc'[m] = ("syncCloud") /\ job'[m] = [job[m] EXCEPT !.local = live[m]]
    <3>1. Go(m, "syncCloud", [job[m] EXCEPT !.local = live[m]])
      BY <1>17 DEF SyncLocal, Step
    <3> QED BY <3>1, GoEffect
  <2>9. UNCHANGED <<storeLock, head, revisions, provider>>
    BY <1>17 DEF SyncLocal, storeVars, machineVars
  <2>10. job'[m].rev = job[m].rev /\ job'[m].expected = job[m].expected /\ job'[m].stage = job[m].stage
    BY <2>8, JobFields
  <2>11. MachineOK(m)'
    BY <1>0, <1>17, <2>0, <2>8, <2>9, <2>10 DEF SyncLocal, Step, MachineOK, Kind, Holding, Deciding, Closing, Phases, SameHead, Uploaded, HeadTree, TreeOf
  <2> QED BY <2>7, <2>11
<1>18. CASE SyncCloud(m)
  <2>0. TypeOK /\ MachineOK(m)
    BY DEF MachinesOK
  <2>1. \A i \in Machines \ {m} : pc'[i] = pc[i] /\ job'[i] = job[i]
    BY <1>18, ActionMoves, MovesEffect
  <2>2. \A i \in Machines \ {m} :
        /\ live'[i] = live[i] /\ ws'[i] = ws[i] /\ marker'[i] = marker[i]
        /\ provider'[i] = provider[i] /\ sync'[i] = sync[i]
    BY <1>18 DEF SyncCloud, machineVars, TypeOK, Start, Resolving, Decide, Unlock
  <2>3. /\ Len(revisions') >= Len(revisions)
        /\ \A r \in 1..Len(revisions) : revisions'[r] = revisions[r]
        /\ head' = head \/ (pc[m] = "publish" /\ head' = job[m].rev)
    BY <1>18, Facts DEF SyncCloud, storeVars, Start, Resolving, Decide, Unlock
  <2>4. \/ storeLock' = storeLock
        \/ storeLock = NoMachine /\ storeLock' = m
        \/ storeLock = m /\ storeLock' = NoMachine
    BY <1>18 DEF SyncCloud, Start, Resolving, Decide, Unlock
  <2>5. \/ provider'[m] = provider[m]
        \/ /\ pc[m] \in {"idle", "readback", "record"} /\ (pc[m] = "idle" \/ SameHead(m))
           /\ provider'[m].rev = head /\ provider'[m].tree = HeadTree
    BY <1>18 DEF SyncCloud, machineVars, Start, Resolving, Decide, Unlock
  <2>6. sync'[m] = sync[m] \/ (pc[m] = "syncCloud" /\ sync'[m].cloud = CloudHash)
    <3> DEFINE f == [local |-> job[m].local, cloud |-> CloudHash]
    <3>1. sync' = [sync EXCEPT ![m] = f] /\ f.cloud = CloudHash /\ pc[m] = "syncCloud"
      BY <1>18 DEF SyncCloud, Step
    <3> HIDE DEF f
    <3> QED BY <3>1 DEF TypeOK
  <2>e. /\ published \subseteq published' /\ acked \subseteq acked' /\ cut \subseteq cut'
        /\ \A x \in Edits : when[x] # "never" => when'[x] = when[x]
    BY <1>18 DEF SyncCloud, history, TypeOK, Start, Resolving, Decide, Unlock
  <2>7. Effect(m)
    BY <1>0, <2>1, <2>2, <2>3, <2>4, <2>5, <2>6, <2>e DEF Effect
  <2>8. pc'[m] = ("release") /\ job'[m] = job[m]
    <3>1. Go(m, "release", job[m])
      BY <1>18 DEF SyncCloud, Step
    <3> QED BY <3>1, GoEffect
  <2>9. UNCHANGED <<storeLock, head, revisions, provider>>
    BY <1>18 DEF SyncCloud, storeVars, machineVars
  <2>10. job'[m].rev = job[m].rev /\ job'[m].expected = job[m].expected /\ job'[m].stage = job[m].stage
    BY <2>8, JobFields
  <2>11. MachineOK(m)'
    BY <1>0, <1>18, <2>0, <2>8, <2>9, <2>10 DEF SyncCloud, Step, MachineOK, Kind, Holding, Deciding, Closing, Phases, SameHead, Uploaded, HeadTree, TreeOf
  <2> QED BY <2>7, <2>11
<1>19. CASE Release(m)
  <2>0. TypeOK /\ MachineOK(m)
    BY DEF MachinesOK
  <2>1. \A i \in Machines \ {m} : pc'[i] = pc[i] /\ job'[i] = job[i]
    BY <1>19, ActionMoves, MovesEffect
  <2>2. \A i \in Machines \ {m} :
        /\ live'[i] = live[i] /\ ws'[i] = ws[i] /\ marker'[i] = marker[i]
        /\ provider'[i] = provider[i] /\ sync'[i] = sync[i]
    BY <1>19 DEF Release, machineVars, TypeOK, Start, Resolving, Decide, Unlock
  <2>3. /\ Len(revisions') >= Len(revisions)
        /\ \A r \in 1..Len(revisions) : revisions'[r] = revisions[r]
        /\ head' = head \/ (pc[m] = "publish" /\ head' = job[m].rev)
    BY <1>19, Facts DEF Release, storeVars, Start, Resolving, Decide, Unlock
  <2>4. \/ storeLock' = storeLock
        \/ storeLock = NoMachine /\ storeLock' = m
        \/ storeLock = m /\ storeLock' = NoMachine
    BY <1>19 DEF Release, Start, Resolving, Decide, Unlock
  <2>5. \/ provider'[m] = provider[m]
        \/ /\ pc[m] \in {"idle", "readback", "record"} /\ (pc[m] = "idle" \/ SameHead(m))
           /\ provider'[m].rev = head /\ provider'[m].tree = HeadTree
    BY <1>19 DEF Release, machineVars, Start, Resolving, Decide, Unlock
  <2>6. sync'[m] = sync[m] \/ (pc[m] = "syncCloud" /\ sync'[m].cloud = CloudHash)
    BY <1>19 DEF Release, machineVars, Start, Resolving, Decide, Unlock
  <2>e. /\ published \subseteq published' /\ acked \subseteq acked' /\ cut \subseteq cut'
        /\ \A x \in Edits : when[x] # "never" => when'[x] = when[x]
    BY <1>19 DEF Release, history, TypeOK, Start, Resolving, Decide, Unlock
  <2>7. Effect(m)
    BY <1>0, <2>1, <2>2, <2>3, <2>4, <2>5, <2>6, <2>e DEF Effect
  <2>8. pc'[m] \in {"idle", "entry", "lock"}
    BY <1>19, GoEffect DEF Release
  <2> QED BY <2>7, <2>8, Outside
<1>20. CASE Fail(m)
  <2>0. TypeOK /\ MachineOK(m)
    BY DEF MachinesOK
  <2>1. \A i \in Machines \ {m} : pc'[i] = pc[i] /\ job'[i] = job[i]
    BY <1>20, ActionMoves, MovesEffect
  <2>2. \A i \in Machines \ {m} :
        /\ live'[i] = live[i] /\ ws'[i] = ws[i] /\ marker'[i] = marker[i]
        /\ provider'[i] = provider[i] /\ sync'[i] = sync[i]
    BY <1>20 DEF Fail, machineVars, TypeOK, Start, Resolving, Decide, Unlock
  <2>3. /\ Len(revisions') >= Len(revisions)
        /\ \A r \in 1..Len(revisions) : revisions'[r] = revisions[r]
        /\ head' = head \/ (pc[m] = "publish" /\ head' = job[m].rev)
    BY <1>20, Facts DEF Fail, storeVars, Start, Resolving, Decide, Unlock
  <2>4. \/ storeLock' = storeLock
        \/ storeLock = NoMachine /\ storeLock' = m
        \/ storeLock = m /\ storeLock' = NoMachine
    BY <1>20 DEF Fail, Start, Resolving, Decide, Unlock
  <2>5. \/ provider'[m] = provider[m]
        \/ /\ pc[m] \in {"idle", "readback", "record"} /\ (pc[m] = "idle" \/ SameHead(m))
           /\ provider'[m].rev = head /\ provider'[m].tree = HeadTree
    BY <1>20 DEF Fail, machineVars, Start, Resolving, Decide, Unlock
  <2>6. sync'[m] = sync[m] \/ (pc[m] = "syncCloud" /\ sync'[m].cloud = CloudHash)
    BY <1>20 DEF Fail, machineVars, Start, Resolving, Decide, Unlock
  <2>e. /\ published \subseteq published' /\ acked \subseteq acked' /\ cut \subseteq cut'
        /\ \A x \in Edits : when[x] # "never" => when'[x] = when[x]
    BY <1>20 DEF Fail, history, TypeOK, Start, Resolving, Decide, Unlock
  <2>7. Effect(m)
    BY <1>0, <2>1, <2>2, <2>3, <2>4, <2>5, <2>6, <2>e DEF Effect
  <2>8. pc'[m] \in {"idle", "entry", "lock"}
    BY <1>20, GoEffect DEF Fail
  <2> QED BY <2>7, <2>8, Outside
<1>21. CASE WorkerDecide(m)
  <2>0. TypeOK /\ MachineOK(m)
    BY DEF MachinesOK
  <2>1. pc' = pc /\ job' = job
    BY <1>21 DEF WorkerDecide, Resolving
  <2>2. \A i \in Machines \ {m} :
        /\ live'[i] = live[i] /\ ws'[i] = ws[i] /\ marker'[i] = marker[i]
        /\ provider'[i] = provider[i] /\ sync'[i] = sync[i]
    BY <1>21 DEF WorkerDecide, machineVars, TypeOK, Start, Resolving, Decide, Unlock
  <2>3. /\ Len(revisions') >= Len(revisions)
        /\ \A r \in 1..Len(revisions) : revisions'[r] = revisions[r]
        /\ head' = head \/ (pc[m] = "publish" /\ head' = job[m].rev)
    BY <1>21, Facts DEF WorkerDecide, storeVars, Start, Resolving, Decide, Unlock
  <2>4. \/ storeLock' = storeLock
        \/ storeLock = NoMachine /\ storeLock' = m
        \/ storeLock = m /\ storeLock' = NoMachine
    BY <1>21 DEF WorkerDecide, Start, Resolving, Decide, Unlock
  <2>5. \/ provider'[m] = provider[m]
        \/ /\ pc[m] \in {"idle", "readback", "record"} /\ (pc[m] = "idle" \/ SameHead(m))
           /\ provider'[m].rev = head /\ provider'[m].tree = HeadTree
    BY <1>21 DEF WorkerDecide, machineVars, Start, Resolving, Decide, Unlock
  <2>6. sync'[m] = sync[m] \/ (pc[m] = "syncCloud" /\ sync'[m].cloud = CloudHash)
    BY <1>21 DEF WorkerDecide, machineVars, Start, Resolving, Decide, Unlock
  <2>e. /\ published \subseteq published' /\ acked \subseteq acked' /\ cut \subseteq cut'
        /\ \A x \in Edits : when[x] # "never" => when'[x] = when[x]
    BY <1>21 DEF WorkerDecide, history, TypeOK, Start, Resolving, Decide, Unlock
  <2>7. Effect(m)
    BY <1>0, <2>1, <2>2, <2>3, <2>4, <2>5, <2>6, <2>e DEF Effect
  <2>8. UNCHANGED <<revisions, head, storeLock, provider, pc, job>>
    BY <1>21 DEF WorkerDecide, storeVars, Decide
  <2>9. MachineOK(m)'
    BY <1>0, <2>0, <2>8 DEF MachineOK, Kind, SameHead, Uploaded, HeadTree, TreeOf
  <2> QED BY <2>7, <2>9
<1>22. CASE WorkerStop(m)
  <2>0. TypeOK /\ MachineOK(m)
    BY DEF MachinesOK
  <2>1. pc' = pc /\ job' = job
    BY <1>22 DEF WorkerStop, Resolving
  <2>2. \A i \in Machines \ {m} :
        /\ live'[i] = live[i] /\ ws'[i] = ws[i] /\ marker'[i] = marker[i]
        /\ provider'[i] = provider[i] /\ sync'[i] = sync[i]
    BY <1>22 DEF WorkerStop, machineVars, TypeOK, Start, Resolving, Decide, Unlock
  <2>3. /\ Len(revisions') >= Len(revisions)
        /\ \A r \in 1..Len(revisions) : revisions'[r] = revisions[r]
        /\ head' = head \/ (pc[m] = "publish" /\ head' = job[m].rev)
    BY <1>22, Facts DEF WorkerStop, storeVars, Start, Resolving, Decide, Unlock
  <2>4. \/ storeLock' = storeLock
        \/ storeLock = NoMachine /\ storeLock' = m
        \/ storeLock = m /\ storeLock' = NoMachine
    BY <1>22 DEF WorkerStop, Start, Resolving, Decide, Unlock
  <2>5. \/ provider'[m] = provider[m]
        \/ /\ pc[m] \in {"idle", "readback", "record"} /\ (pc[m] = "idle" \/ SameHead(m))
           /\ provider'[m].rev = head /\ provider'[m].tree = HeadTree
    BY <1>22 DEF WorkerStop, machineVars, Start, Resolving, Decide, Unlock
  <2>6. sync'[m] = sync[m] \/ (pc[m] = "syncCloud" /\ sync'[m].cloud = CloudHash)
    BY <1>22 DEF WorkerStop, machineVars, Start, Resolving, Decide, Unlock
  <2>e. /\ published \subseteq published' /\ acked \subseteq acked' /\ cut \subseteq cut'
        /\ \A x \in Edits : when[x] # "never" => when'[x] = when[x]
    BY <1>22 DEF WorkerStop, history, TypeOK, Start, Resolving, Decide, Unlock
  <2>7. Effect(m)
    BY <1>0, <2>1, <2>2, <2>3, <2>4, <2>5, <2>6, <2>e DEF Effect
  <2>8. UNCHANGED <<revisions, head, storeLock, provider, pc, job>>
    BY <1>22 DEF WorkerStop, storeVars, Decide
  <2>9. MachineOK(m)'
    BY <1>0, <2>0, <2>8 DEF MachineOK, Kind, SameHead, Uploaded, HeadTree, TreeOf
  <2> QED BY <2>7, <2>9
<1>23. CASE WorkerRun(m)
  <2>0. TypeOK /\ MachineOK(m)
    BY DEF MachinesOK
  <2>1. \A i \in Machines \ {m} : pc'[i] = pc[i] /\ job'[i] = job[i]
    BY <1>23, ActionMoves, MovesEffect
  <2>2. \A i \in Machines \ {m} :
        /\ live'[i] = live[i] /\ ws'[i] = ws[i] /\ marker'[i] = marker[i]
        /\ provider'[i] = provider[i] /\ sync'[i] = sync[i]
    BY <1>23 DEF WorkerRun, machineVars, TypeOK, Start, Resolving, Decide, Unlock
  <2>3. /\ Len(revisions') >= Len(revisions)
        /\ \A r \in 1..Len(revisions) : revisions'[r] = revisions[r]
        /\ head' = head \/ (pc[m] = "publish" /\ head' = job[m].rev)
    BY <1>23, Facts DEF WorkerRun, storeVars, Start, Resolving, Decide, Unlock
  <2>4. \/ storeLock' = storeLock
        \/ storeLock = NoMachine /\ storeLock' = m
        \/ storeLock = m /\ storeLock' = NoMachine
    BY <1>23 DEF WorkerRun, Start, Resolving, Decide, Unlock
  <2>5. \/ provider'[m] = provider[m]
        \/ /\ pc[m] \in {"idle", "readback", "record"} /\ (pc[m] = "idle" \/ SameHead(m))
           /\ provider'[m].rev = head /\ provider'[m].tree = HeadTree
    BY <1>23 DEF WorkerRun, machineVars, Start, Resolving, Decide, Unlock
  <2>6. sync'[m] = sync[m] \/ (pc[m] = "syncCloud" /\ sync'[m].cloud = CloudHash)
    BY <1>23 DEF WorkerRun, machineVars, Start, Resolving, Decide, Unlock
  <2>e. /\ published \subseteq published' /\ acked \subseteq acked' /\ cut \subseteq cut'
        /\ \A x \in Edits : when[x] # "never" => when'[x] = when[x]
    BY <1>23 DEF WorkerRun, history, TypeOK, Start, Resolving, Decide, Unlock
  <2>7. Effect(m)
    BY <1>0, <2>1, <2>2, <2>3, <2>4, <2>5, <2>6, <2>e DEF Effect
  <2>8. pc'[m] \in {"idle", "entry", "lock"}
    BY <1>23 DEF WorkerRun, Start, Go, TypeOK
  <2> QED BY <2>7, <2>8, Outside
<1>24. CASE ManualPush(m)
  <2>0. TypeOK /\ MachineOK(m)
    BY DEF MachinesOK
  <2>1. \A i \in Machines \ {m} : pc'[i] = pc[i] /\ job'[i] = job[i]
    BY <1>24, ActionMoves, MovesEffect
  <2>2. \A i \in Machines \ {m} :
        /\ live'[i] = live[i] /\ ws'[i] = ws[i] /\ marker'[i] = marker[i]
        /\ provider'[i] = provider[i] /\ sync'[i] = sync[i]
    BY <1>24 DEF ManualPush, machineVars, TypeOK, Start, Resolving, Decide, Unlock
  <2>3. /\ Len(revisions') >= Len(revisions)
        /\ \A r \in 1..Len(revisions) : revisions'[r] = revisions[r]
        /\ head' = head \/ (pc[m] = "publish" /\ head' = job[m].rev)
    BY <1>24, Facts DEF ManualPush, storeVars, Start, Resolving, Decide, Unlock
  <2>4. \/ storeLock' = storeLock
        \/ storeLock = NoMachine /\ storeLock' = m
        \/ storeLock = m /\ storeLock' = NoMachine
    BY <1>24 DEF ManualPush, Start, Resolving, Decide, Unlock
  <2>5. \/ provider'[m] = provider[m]
        \/ /\ pc[m] \in {"idle", "readback", "record"} /\ (pc[m] = "idle" \/ SameHead(m))
           /\ provider'[m].rev = head /\ provider'[m].tree = HeadTree
    BY <1>24 DEF ManualPush, machineVars, Start, Resolving, Decide, Unlock
  <2>6. sync'[m] = sync[m] \/ (pc[m] = "syncCloud" /\ sync'[m].cloud = CloudHash)
    BY <1>24 DEF ManualPush, machineVars, Start, Resolving, Decide, Unlock
  <2>e. /\ published \subseteq published' /\ acked \subseteq acked' /\ cut \subseteq cut'
        /\ \A x \in Edits : when[x] # "never" => when'[x] = when[x]
    BY <1>24 DEF ManualPush, history, TypeOK, Start, Resolving, Decide, Unlock
  <2>7. Effect(m)
    BY <1>0, <2>1, <2>2, <2>3, <2>4, <2>5, <2>6, <2>e DEF Effect
  <2>8. pc'[m] \in {"idle", "entry", "lock"}
    BY <1>24 DEF ManualPush, Start, Go, TypeOK
  <2> QED BY <2>7, <2>8, Outside
<1>25. CASE ManualPull(m)
  <2>0. TypeOK /\ MachineOK(m)
    BY DEF MachinesOK
  <2>1. \A i \in Machines \ {m} : pc'[i] = pc[i] /\ job'[i] = job[i]
    BY <1>25, ActionMoves, MovesEffect
  <2>2. \A i \in Machines \ {m} :
        /\ live'[i] = live[i] /\ ws'[i] = ws[i] /\ marker'[i] = marker[i]
        /\ provider'[i] = provider[i] /\ sync'[i] = sync[i]
    BY <1>25 DEF ManualPull, machineVars, TypeOK, Start, Resolving, Decide, Unlock
  <2>3. /\ Len(revisions') >= Len(revisions)
        /\ \A r \in 1..Len(revisions) : revisions'[r] = revisions[r]
        /\ head' = head \/ (pc[m] = "publish" /\ head' = job[m].rev)
    BY <1>25, Facts DEF ManualPull, storeVars, Start, Resolving, Decide, Unlock
  <2>4. \/ storeLock' = storeLock
        \/ storeLock = NoMachine /\ storeLock' = m
        \/ storeLock = m /\ storeLock' = NoMachine
    BY <1>25 DEF ManualPull, Start, Resolving, Decide, Unlock
  <2>5. \/ provider'[m] = provider[m]
        \/ /\ pc[m] \in {"idle", "readback", "record"} /\ (pc[m] = "idle" \/ SameHead(m))
           /\ provider'[m].rev = head /\ provider'[m].tree = HeadTree
    BY <1>25 DEF ManualPull, machineVars, Start, Resolving, Decide, Unlock
  <2>6. sync'[m] = sync[m] \/ (pc[m] = "syncCloud" /\ sync'[m].cloud = CloudHash)
    BY <1>25 DEF ManualPull, machineVars, Start, Resolving, Decide, Unlock
  <2>e. /\ published \subseteq published' /\ acked \subseteq acked' /\ cut \subseteq cut'
        /\ \A x \in Edits : when[x] # "never" => when'[x] = when[x]
    BY <1>25 DEF ManualPull, history, TypeOK, Start, Resolving, Decide, Unlock
  <2>7. Effect(m)
    BY <1>0, <2>1, <2>2, <2>3, <2>4, <2>5, <2>6, <2>e DEF Effect
  <2>8. pc'[m] \in {"idle", "entry", "lock"}
    BY <1>25 DEF ManualPull, Start, Go, TypeOK
  <2> QED BY <2>7, <2>8, Outside
<1>26. CASE Acknowledge(m)
  <2>0. TypeOK /\ MachineOK(m)
    BY DEF MachinesOK
  <2>1. pc' = pc /\ job' = job
    BY <1>26 DEF Acknowledge, Resolving
  <2>2. \A i \in Machines \ {m} :
        /\ live'[i] = live[i] /\ ws'[i] = ws[i] /\ marker'[i] = marker[i]
        /\ provider'[i] = provider[i] /\ sync'[i] = sync[i]
    BY <1>26 DEF Acknowledge, machineVars, TypeOK, Start, Resolving, Decide, Unlock
  <2>3. /\ Len(revisions') >= Len(revisions)
        /\ \A r \in 1..Len(revisions) : revisions'[r] = revisions[r]
        /\ head' = head \/ (pc[m] = "publish" /\ head' = job[m].rev)
    BY <1>26, Facts DEF Acknowledge, storeVars, Start, Resolving, Decide, Unlock
  <2>4. \/ storeLock' = storeLock
        \/ storeLock = NoMachine /\ storeLock' = m
        \/ storeLock = m /\ storeLock' = NoMachine
    BY <1>26 DEF Acknowledge, Start, Resolving, Decide, Unlock
  <2>5. \/ provider'[m] = provider[m]
        \/ /\ pc[m] \in {"idle", "readback", "record"} /\ (pc[m] = "idle" \/ SameHead(m))
           /\ provider'[m].rev = head /\ provider'[m].tree = HeadTree
    <3> DEFINE b == BaselineNow(m)
    <3>1. provider' = [provider EXCEPT ![m] = b] /\ b.tree = HeadTree /\ b.rev = head
      BY <1>26 DEF BaselineNow, Acknowledge
    <3> HIDE DEF b
    <3>2. provider'[m].tree = HeadTree /\ provider'[m].rev = head
      BY <3>1 DEF TypeOK
    <3> QED BY <1>26, <3>2 DEF Acknowledge
  <2>6. sync'[m] = sync[m] \/ (pc[m] = "syncCloud" /\ sync'[m].cloud = CloudHash)
    BY <1>26 DEF Acknowledge, machineVars, Start, Resolving, Decide, Unlock
  <2>e. /\ published \subseteq published' /\ acked \subseteq acked' /\ cut \subseteq cut'
        /\ \A x \in Edits : when[x] # "never" => when'[x] = when[x]
    BY <1>26 DEF Acknowledge, history, TypeOK, Start, Resolving, Decide, Unlock
  <2>7. Effect(m)
    BY <1>0, <2>1, <2>2, <2>3, <2>4, <2>5, <2>6, <2>e DEF Effect
  <2>8. pc'[m] = "idle"
    BY <1>26, <2>1 DEF Acknowledge, Resolving
  <2> QED BY <2>7, <2>8, Outside
<1>27. CASE MergeTarget(m)
  <2>0. TypeOK /\ MachineOK(m)
    BY DEF MachinesOK
  <2>1. pc' = pc /\ job' = job
    BY <1>27 DEF MergeTarget, Resolving
  <2>2. \A i \in Machines \ {m} :
        /\ live'[i] = live[i] /\ ws'[i] = ws[i] /\ marker'[i] = marker[i]
        /\ provider'[i] = provider[i] /\ sync'[i] = sync[i]
    BY <1>27 DEF MergeTarget, machineVars, TypeOK, Start, Resolving, Decide, Unlock
  <2>3. /\ Len(revisions') >= Len(revisions)
        /\ \A r \in 1..Len(revisions) : revisions'[r] = revisions[r]
        /\ head' = head \/ (pc[m] = "publish" /\ head' = job[m].rev)
    BY <1>27, Facts DEF MergeTarget, storeVars, Start, Resolving, Decide, Unlock
  <2>4. \/ storeLock' = storeLock
        \/ storeLock = NoMachine /\ storeLock' = m
        \/ storeLock = m /\ storeLock' = NoMachine
    BY <1>27 DEF MergeTarget, Start, Resolving, Decide, Unlock
  <2>5. \/ provider'[m] = provider[m]
        \/ /\ pc[m] \in {"idle", "readback", "record"} /\ (pc[m] = "idle" \/ SameHead(m))
           /\ provider'[m].rev = head /\ provider'[m].tree = HeadTree
    BY <1>27 DEF MergeTarget, machineVars, Start, Resolving, Decide, Unlock
  <2>6. sync'[m] = sync[m] \/ (pc[m] = "syncCloud" /\ sync'[m].cloud = CloudHash)
    BY <1>27 DEF MergeTarget, machineVars, Start, Resolving, Decide, Unlock
  <2>e. /\ published \subseteq published' /\ acked \subseteq acked' /\ cut \subseteq cut'
        /\ \A x \in Edits : when[x] # "never" => when'[x] = when[x]
    BY <1>27 DEF MergeTarget, history, TypeOK, Start, Resolving, Decide, Unlock
  <2>7. Effect(m)
    BY <1>0, <2>1, <2>2, <2>3, <2>4, <2>5, <2>6, <2>e DEF Effect
  <2>8. pc'[m] = "idle"
    BY <1>27, <2>1 DEF MergeTarget, Resolving
  <2> QED BY <2>7, <2>8, Outside
<1>28. CASE MergeAll(m)
  <2>0. TypeOK /\ MachineOK(m)
    BY DEF MachinesOK
  <2>1. pc' = pc /\ job' = job
    BY <1>28 DEF MergeAll, Resolving
  <2>2. \A i \in Machines \ {m} :
        /\ live'[i] = live[i] /\ ws'[i] = ws[i] /\ marker'[i] = marker[i]
        /\ provider'[i] = provider[i] /\ sync'[i] = sync[i]
    BY <1>28 DEF MergeAll, machineVars, TypeOK, Start, Resolving, Decide, Unlock
  <2>3. /\ Len(revisions') >= Len(revisions)
        /\ \A r \in 1..Len(revisions) : revisions'[r] = revisions[r]
        /\ head' = head \/ (pc[m] = "publish" /\ head' = job[m].rev)
    BY <1>28, Facts DEF MergeAll, storeVars, Start, Resolving, Decide, Unlock
  <2>4. \/ storeLock' = storeLock
        \/ storeLock = NoMachine /\ storeLock' = m
        \/ storeLock = m /\ storeLock' = NoMachine
    BY <1>28 DEF MergeAll, Start, Resolving, Decide, Unlock
  <2>5. \/ provider'[m] = provider[m]
        \/ /\ pc[m] \in {"idle", "readback", "record"} /\ (pc[m] = "idle" \/ SameHead(m))
           /\ provider'[m].rev = head /\ provider'[m].tree = HeadTree
    BY <1>28 DEF MergeAll, machineVars, Start, Resolving, Decide, Unlock
  <2>6. sync'[m] = sync[m] \/ (pc[m] = "syncCloud" /\ sync'[m].cloud = CloudHash)
    BY <1>28 DEF MergeAll, machineVars, Start, Resolving, Decide, Unlock
  <2>e. /\ published \subseteq published' /\ acked \subseteq acked' /\ cut \subseteq cut'
        /\ \A x \in Edits : when[x] # "never" => when'[x] = when[x]
    BY <1>28 DEF MergeAll, history, TypeOK, Start, Resolving, Decide, Unlock
  <2>7. Effect(m)
    BY <1>0, <2>1, <2>2, <2>3, <2>4, <2>5, <2>6, <2>e DEF Effect
  <2>8. pc'[m] = "idle"
    BY <1>28, <2>1 DEF MergeAll, Resolving
  <2> QED BY <2>7, <2>8, Outside
<1>29. CASE ForceTarget(m)
  <2>0. TypeOK /\ MachineOK(m)
    BY DEF MachinesOK
  <2>1. pc' = pc /\ job' = job
    BY <1>29 DEF ForceTarget, Resolving
  <2>2. \A i \in Machines \ {m} :
        /\ live'[i] = live[i] /\ ws'[i] = ws[i] /\ marker'[i] = marker[i]
        /\ provider'[i] = provider[i] /\ sync'[i] = sync[i]
    BY <1>29 DEF ForceTarget, machineVars, TypeOK, Start, Resolving, Decide, Unlock
  <2>3. /\ Len(revisions') >= Len(revisions)
        /\ \A r \in 1..Len(revisions) : revisions'[r] = revisions[r]
        /\ head' = head \/ (pc[m] = "publish" /\ head' = job[m].rev)
    BY <1>29, Facts DEF ForceTarget, storeVars, Start, Resolving, Decide, Unlock
  <2>4. \/ storeLock' = storeLock
        \/ storeLock = NoMachine /\ storeLock' = m
        \/ storeLock = m /\ storeLock' = NoMachine
    BY <1>29 DEF ForceTarget, Start, Resolving, Decide, Unlock
  <2>5. \/ provider'[m] = provider[m]
        \/ /\ pc[m] \in {"idle", "readback", "record"} /\ (pc[m] = "idle" \/ SameHead(m))
           /\ provider'[m].rev = head /\ provider'[m].tree = HeadTree
    BY <1>29 DEF ForceTarget, machineVars, Start, Resolving, Decide, Unlock
  <2>6. sync'[m] = sync[m] \/ (pc[m] = "syncCloud" /\ sync'[m].cloud = CloudHash)
    BY <1>29 DEF ForceTarget, machineVars, Start, Resolving, Decide, Unlock
  <2>e. /\ published \subseteq published' /\ acked \subseteq acked' /\ cut \subseteq cut'
        /\ \A x \in Edits : when[x] # "never" => when'[x] = when[x]
    BY <1>29 DEF ForceTarget, history, TypeOK, Start, Resolving, Decide, Unlock
  <2>7. Effect(m)
    BY <1>0, <2>1, <2>2, <2>3, <2>4, <2>5, <2>6, <2>e DEF Effect
  <2>8. pc'[m] = "idle"
    BY <1>29, <2>1 DEF ForceTarget, Resolving
  <2> QED BY <2>7, <2>8, Outside
<1>30. CASE PushCapturePart(m)
  <2>0. TypeOK /\ MachineOK(m)
    BY DEF MachinesOK
  <2>1. \A i \in Machines \ {m} : pc'[i] = pc[i] /\ job'[i] = job[i]
    BY <1>30, ActionMoves, MovesEffect
  <2>2. \A i \in Machines \ {m} :
        /\ live'[i] = live[i] /\ ws'[i] = ws[i] /\ marker'[i] = marker[i]
        /\ provider'[i] = provider[i] /\ sync'[i] = sync[i]
    BY <1>30 DEF PushCapturePart, machineVars, TypeOK, Start, Resolving, Decide, Unlock
  <2>3. /\ Len(revisions') >= Len(revisions)
        /\ \A r \in 1..Len(revisions) : revisions'[r] = revisions[r]
        /\ head' = head \/ (pc[m] = "publish" /\ head' = job[m].rev)
    BY <1>30, Facts DEF PushCapturePart, storeVars, Start, Resolving, Decide, Unlock
  <2>4. \/ storeLock' = storeLock
        \/ storeLock = NoMachine /\ storeLock' = m
        \/ storeLock = m /\ storeLock' = NoMachine
    BY <1>30 DEF PushCapturePart, Start, Resolving, Decide, Unlock
  <2>5. \/ provider'[m] = provider[m]
        \/ /\ pc[m] \in {"idle", "readback", "record"} /\ (pc[m] = "idle" \/ SameHead(m))
           /\ provider'[m].rev = head /\ provider'[m].tree = HeadTree
    BY <1>30 DEF PushCapturePart, machineVars, Start, Resolving, Decide, Unlock
  <2>6. sync'[m] = sync[m] \/ (pc[m] = "syncCloud" /\ sync'[m].cloud = CloudHash)
    BY <1>30 DEF PushCapturePart, machineVars, Start, Resolving, Decide, Unlock
  <2>e. /\ published \subseteq published' /\ acked \subseteq acked' /\ cut \subseteq cut'
        /\ \A x \in Edits : when[x] # "never" => when'[x] = when[x]
    BY <1>30 DEF PushCapturePart, history, TypeOK, Start, Resolving, Decide, Unlock
  <2>7. Effect(m)
    BY <1>0, <2>1, <2>2, <2>3, <2>4, <2>5, <2>6, <2>e DEF Effect
  <2>8. pc'[m] = ("failed") /\ job'[m] = job[m]
    <3>1. Go(m, "failed", job[m])
      BY <1>30 DEF PushCapturePart, Step
    <3> QED BY <3>1, GoEffect
  <2>9. UNCHANGED <<storeLock, head, revisions, provider>>
    BY <1>30 DEF PushCapturePart, storeVars, machineVars
  <2>10. job'[m].rev = job[m].rev /\ job'[m].expected = job[m].expected /\ job'[m].stage = job[m].stage
    BY <2>8, JobFields
  <2>11. MachineOK(m)'
    BY <1>0, <1>30, <2>0, <2>8, <2>9, <2>10 DEF PushCapturePart, Step, MachineOK, Kind, Holding, Deciding, Closing, Phases, SameHead, Uploaded, HeadTree, TreeOf
  <2> QED BY <2>7, <2>11
<1>31. CASE PullApplyPart(m)
  <2>0. TypeOK /\ MachineOK(m)
    BY DEF MachinesOK
  <2>1. \A i \in Machines \ {m} : pc'[i] = pc[i] /\ job'[i] = job[i]
    BY <1>31, ActionMoves, MovesEffect
  <2>2. \A i \in Machines \ {m} :
        /\ live'[i] = live[i] /\ ws'[i] = ws[i] /\ marker'[i] = marker[i]
        /\ provider'[i] = provider[i] /\ sync'[i] = sync[i]
    BY <1>31 DEF PullApplyPart, machineVars, TypeOK, Start, Resolving, Decide, Unlock
  <2>3. /\ Len(revisions') >= Len(revisions)
        /\ \A r \in 1..Len(revisions) : revisions'[r] = revisions[r]
        /\ head' = head \/ (pc[m] = "publish" /\ head' = job[m].rev)
    BY <1>31, Facts DEF PullApplyPart, storeVars, Start, Resolving, Decide, Unlock
  <2>4. \/ storeLock' = storeLock
        \/ storeLock = NoMachine /\ storeLock' = m
        \/ storeLock = m /\ storeLock' = NoMachine
    BY <1>31 DEF PullApplyPart, Start, Resolving, Decide, Unlock
  <2>5. \/ provider'[m] = provider[m]
        \/ /\ pc[m] \in {"idle", "readback", "record"} /\ (pc[m] = "idle" \/ SameHead(m))
           /\ provider'[m].rev = head /\ provider'[m].tree = HeadTree
    BY <1>31 DEF PullApplyPart, machineVars, Start, Resolving, Decide, Unlock
  <2>6. sync'[m] = sync[m] \/ (pc[m] = "syncCloud" /\ sync'[m].cloud = CloudHash)
    BY <1>31 DEF PullApplyPart, machineVars, Start, Resolving, Decide, Unlock
  <2>e. /\ published \subseteq published' /\ acked \subseteq acked' /\ cut \subseteq cut'
        /\ \A x \in Edits : when[x] # "never" => when'[x] = when[x]
    BY <1>31 DEF PullApplyPart, history, TypeOK, Start, Resolving, Decide, Unlock
  <2>7. Effect(m)
    BY <1>0, <2>1, <2>2, <2>3, <2>4, <2>5, <2>6, <2>e DEF Effect
  <2>8. pc'[m] = ("failed") /\ job'[m] = job[m]
    <3>1. Go(m, "failed", job[m])
      BY <1>31 DEF PullApplyPart, Step
    <3> QED BY <3>1, GoEffect
  <2>9. UNCHANGED <<storeLock, head, revisions, provider>>
    BY <1>31 DEF PullApplyPart, storeVars, machineVars
  <2>10. job'[m].rev = job[m].rev /\ job'[m].expected = job[m].expected /\ job'[m].stage = job[m].stage
    BY <2>8, JobFields
  <2>11. MachineOK(m)'
    BY <1>0, <1>31, <2>0, <2>8, <2>9, <2>10 DEF PullApplyPart, Step, MachineOK, Kind, Holding, Deciding, Closing, Phases, SameHead, Uploaded, HeadTree, TreeOf
  <2> QED BY <2>7, <2>11
<1>32. CASE Crash(m)
  <2>0. TypeOK /\ MachineOK(m)
    BY DEF MachinesOK
  <2>1. \A i \in Machines \ {m} : pc'[i] = pc[i] /\ job'[i] = job[i]
    BY <1>32, ActionMoves, MovesEffect
  <2>2. \A i \in Machines \ {m} :
        /\ live'[i] = live[i] /\ ws'[i] = ws[i] /\ marker'[i] = marker[i]
        /\ provider'[i] = provider[i] /\ sync'[i] = sync[i]
    BY <1>32 DEF Crash, machineVars, TypeOK, Start, Resolving, Decide, Unlock
  <2>3. /\ Len(revisions') >= Len(revisions)
        /\ \A r \in 1..Len(revisions) : revisions'[r] = revisions[r]
        /\ head' = head \/ (pc[m] = "publish" /\ head' = job[m].rev)
    BY <1>32, Facts DEF Crash, storeVars, Start, Resolving, Decide, Unlock
  <2>4. \/ storeLock' = storeLock
        \/ storeLock = NoMachine /\ storeLock' = m
        \/ storeLock = m /\ storeLock' = NoMachine
    BY <1>32 DEF Crash, Start, Resolving, Decide, Unlock
  <2>5. \/ provider'[m] = provider[m]
        \/ /\ pc[m] \in {"idle", "readback", "record"} /\ (pc[m] = "idle" \/ SameHead(m))
           /\ provider'[m].rev = head /\ provider'[m].tree = HeadTree
    BY <1>32 DEF Crash, machineVars, Start, Resolving, Decide, Unlock
  <2>6. sync'[m] = sync[m] \/ (pc[m] = "syncCloud" /\ sync'[m].cloud = CloudHash)
    BY <1>32 DEF Crash, machineVars, Start, Resolving, Decide, Unlock
  <2>e. /\ published \subseteq published' /\ acked \subseteq acked' /\ cut \subseteq cut'
        /\ \A x \in Edits : when[x] # "never" => when'[x] = when[x]
    BY <1>32 DEF Crash, history, TypeOK, Start, Resolving, Decide, Unlock
  <2>7. Effect(m)
    BY <1>0, <2>1, <2>2, <2>3, <2>4, <2>5, <2>6, <2>e DEF Effect
  <2>8. pc'[m] \in {"idle", "entry", "lock"}
    BY <1>32, GoEffect DEF Crash
  <2> QED BY <2>7, <2>8, Outside
<1>33. CASE RemoveLocks(m)
  <2>0. TypeOK /\ MachineOK(m)
    BY DEF MachinesOK
  <2>1. pc' = pc /\ job' = job
    BY <1>33 DEF RemoveLocks, Resolving
  <2>2. \A i \in Machines \ {m} :
        /\ live'[i] = live[i] /\ ws'[i] = ws[i] /\ marker'[i] = marker[i]
        /\ provider'[i] = provider[i] /\ sync'[i] = sync[i]
    BY <1>33 DEF RemoveLocks, machineVars, TypeOK, Start, Resolving, Decide, Unlock
  <2>3. /\ Len(revisions') >= Len(revisions)
        /\ \A r \in 1..Len(revisions) : revisions'[r] = revisions[r]
        /\ head' = head \/ (pc[m] = "publish" /\ head' = job[m].rev)
    BY <1>33, Facts DEF RemoveLocks, storeVars, Start, Resolving, Decide, Unlock
  <2>4. \/ storeLock' = storeLock
        \/ storeLock = NoMachine /\ storeLock' = m
        \/ storeLock = m /\ storeLock' = NoMachine
    BY <1>33 DEF RemoveLocks, Start, Resolving, Decide, Unlock
  <2>5. \/ provider'[m] = provider[m]
        \/ /\ pc[m] \in {"idle", "readback", "record"} /\ (pc[m] = "idle" \/ SameHead(m))
           /\ provider'[m].rev = head /\ provider'[m].tree = HeadTree
    BY <1>33 DEF RemoveLocks, machineVars, Start, Resolving, Decide, Unlock
  <2>6. sync'[m] = sync[m] \/ (pc[m] = "syncCloud" /\ sync'[m].cloud = CloudHash)
    BY <1>33 DEF RemoveLocks, machineVars, Start, Resolving, Decide, Unlock
  <2>e. /\ published \subseteq published' /\ acked \subseteq acked' /\ cut \subseteq cut'
        /\ \A x \in Edits : when[x] # "never" => when'[x] = when[x]
    BY <1>33 DEF RemoveLocks, history, TypeOK, Start, Resolving, Decide, Unlock
  <2>7. Effect(m)
    BY <1>0, <2>1, <2>2, <2>3, <2>4, <2>5, <2>6, <2>e DEF Effect
  <2>8. pc'[m] = "idle"
    BY <1>33, <2>1 DEF RemoveLocks, Resolving
  <2> QED BY <2>7, <2>8, Outside
<1>34. ASSUME NEW e \in Edits, Edit(m, e) PROVE Effect(m) /\ MachineOK(m)'
  <2>0. TypeOK /\ MachineOK(m)
    BY DEF MachinesOK
  <2>1. pc' = pc /\ job' = job
    BY <1>34 DEF Edit, Resolving
  <2>2. \A i \in Machines \ {m} :
        /\ live'[i] = live[i] /\ ws'[i] = ws[i] /\ marker'[i] = marker[i]
        /\ provider'[i] = provider[i] /\ sync'[i] = sync[i]
    BY <1>34 DEF Edit, machineVars, TypeOK, Start, Resolving, Decide, Unlock
  <2>3. /\ Len(revisions') >= Len(revisions)
        /\ \A r \in 1..Len(revisions) : revisions'[r] = revisions[r]
        /\ head' = head \/ (pc[m] = "publish" /\ head' = job[m].rev)
    BY <1>34, Facts DEF Edit, storeVars, Start, Resolving, Decide, Unlock
  <2>4. \/ storeLock' = storeLock
        \/ storeLock = NoMachine /\ storeLock' = m
        \/ storeLock = m /\ storeLock' = NoMachine
    BY <1>34 DEF Edit, Start, Resolving, Decide, Unlock
  <2>5. \/ provider'[m] = provider[m]
        \/ /\ pc[m] \in {"idle", "readback", "record"} /\ (pc[m] = "idle" \/ SameHead(m))
           /\ provider'[m].rev = head /\ provider'[m].tree = HeadTree
    BY <1>34 DEF Edit, machineVars, Start, Resolving, Decide, Unlock
  <2>6. sync'[m] = sync[m] \/ (pc[m] = "syncCloud" /\ sync'[m].cloud = CloudHash)
    BY <1>34 DEF Edit, machineVars, Start, Resolving, Decide, Unlock
  <2>e. /\ published \subseteq published' /\ acked \subseteq acked' /\ cut \subseteq cut'
        /\ \A x \in Edits : when[x] # "never" => when'[x] = when[x]
    BY <1>34 DEF Edit, history, TypeOK, Start, Resolving, Decide, Unlock
  <2>7. Effect(m)
    BY <1>0, <2>1, <2>2, <2>3, <2>4, <2>5, <2>6, <2>e DEF Effect
  <2>8. UNCHANGED <<revisions, head, storeLock, provider, pc, job>>
    BY <1>34 DEF Edit, storeVars, Decide
  <2>9. MachineOK(m)'
    BY <1>0, <2>0, <2>8 DEF MachineOK, Kind, SameHead, Uploaded, HeadTree, TreeOf
  <2> QED BY <2>7, <2>9
<1> QED
  BY <1>1, <1>2, <1>3, <1>4, <1>5, <1>6, <1>7, <1>8, <1>9, <1>10, <1>11,
     <1>12, <1>13, <1>14, <1>15, <1>16, <1>17, <1>18, <1>19, <1>20, <1>21,
     <1>22, <1>23, <1>24, <1>25, <1>26, <1>27, <1>28, <1>29, <1>30, <1>31,
     <1>32, <1>33, <1>34
     DEF Does, Transport, Worker, People, Accident

\* A step of the system is a step of one machine.
LEMMA NextDoes == Next => \E m \in Machines : Does(m)
BY DEF Next, Does

\* What is known of the machines is inductive.
LEMMA MachinesStep == ASSUME IInv, [Next]_vars PROVE MachinesOK'
<1>1. CASE Next
  <2>0. PICK m \in Machines : Does(m)
    BY <1>1, NextDoes
  <2>1. Effect(m) /\ MachineOK(m)'
    BY <2>0, MachineStep
  <2>2. \A n \in Machines \ {m} : MachineOK(n)'
    BY <2>1, OthersStay
  <2> QED BY <2>1, <2>2 DEF MachinesOK
<1>2. CASE UNCHANGED vars
  <2>1. UNCHANGED <<setting, revisions, head, storeLock, provider, pc, job>>
    BY <1>2 DEF vars, storeVars, machineVars
  <2>2. ASSUME NEW m \in Machines PROVE MachineOK(m)'
    <3>1. MachineOK(m)
      BY DEF IInv, MachinesOK
    <3> QED BY <2>1, <3>1 DEF MachineOK, Kind, SameHead, Uploaded, HeadTree, TreeOf
  <2> QED BY <2>2 DEF MachinesOK
<1> QED BY <1>1, <1>2

\* No operation runs at the start.
LEMMA MachinesInit == Init => MachinesOK
<1> SUFFICES ASSUME Init, NEW m \in Machines PROVE MachineOK(m)
  BY DEF MachinesOK
<1>1. pc[m] = "idle"
  BY DEF Init
<1> QED BY <1>1 DEF MachineOK, Holding, Deciding, Closing

\* Hence types and machines are as described in every state.
LEMMA Inductive == Spec => []IInv
<1>1. Init => IInv
  BY TypeInit, MachinesInit DEF IInv
<1>2. IInv /\ [Next]_vars => IInv'
  BY TypeStep, MachinesStep DEF IInv
<1> QED BY <1>1, <1>2, PTL DEF Spec

\* Every state file holds what its writer puts there, whatever operations are
\* interleaved, refused, stopped or failing on any number of machines.
THEOREM TypesHold == Spec => []TypeOK
<1>1. IInv => TypeOK
  BY DEF IInv
<1> QED BY <1>1, Inductive, PTL

\* Under the store lock of a local store no check of HEAD is stale when it is used.
THEOREM LockHoldsHead == Spec => []HeadHeld
<1>1. IInv => HeadHeld
  BY DEF IInv, MachinesOK, MachineOK, HeadHeld
<1> QED BY <1>1, Inductive, PTL

\* The baseline an operation records is the tree it published or fetched itself,
\* on any store, with or without a lock.
THEOREM RecordsItsOwn == Spec => BaselineIsOwn
<1> DEFINE Own ==
      \A m \in Machines :
        pc[m] \in {"readback", "record"} /\ provider'[m] # provider[m] => provider'[m].tree = job[m].stage
<1>1. ASSUME IInv, [Next]_vars PROVE [Own]_vars
  <2>1. ASSUME Next, NEW m \in Machines, pc[m] \in {"readback", "record"}, provider'[m] # provider[m]
        PROVE  provider'[m].tree = job[m].stage
    <3>1. PICK i \in Machines : Effect(i)
      BY <1>1, <2>1, NextDoes, MachineStep
    <3>2. i = m
      BY <2>1, <3>1 DEF Effect
    <3>3. SameHead(m) /\ provider'[m].tree = HeadTree
      BY <2>1, <3>1, <3>2 DEF Effect
    <3>4. Uploaded(job[m].expected, job[m].stage)
      BY <1>1, <2>1 DEF IInv, MachinesOK, MachineOK
    <3>5. HeadTree = job[m].stage
      BY <3>3, <3>4 DEF SameHead, Uploaded, HeadTree, TreeOf
    <3> QED BY <3>3, <3>5
  <2> QED BY <1>1, <2>1
<1>2. IInv /\ [Next]_vars => [Own]_vars
  BY <1>1
<1>3. Spec => [][Own]_vars
  BY <1>2, Inductive, PTL DEF Spec
<1> QED BY <1>3 DEF BaselineIsOwn

\* On a local store the cloud fingerprint an operation saves is that of the
\* baseline it recorded before, so the worker notices every later publication.
THEOREM NewHeadsAreNoticed == Spec => NoticesNewHead
<1> DEFINE Noticed ==
      Kind = "local" => \A m \in Machines : sync'[m] # sync[m] => sync'[m].cloud = provider[m].rev
<1>1. ASSUME IInv, [Next]_vars PROVE [Noticed]_vars
  <2>1. ASSUME Next, Kind = "local", NEW m \in Machines, sync'[m] # sync[m]
        PROVE  sync'[m].cloud = provider[m].rev
    <3>1. PICK i \in Machines : Effect(i)
      BY <1>1, <2>1, NextDoes, MachineStep
    <3>2. i = m
      BY <2>1, <3>1 DEF Effect
    <3>3. pc[m] = "syncCloud" /\ sync'[m].cloud = CloudHash
      BY <2>1, <3>1, <3>2 DEF Effect
    <3>4. provider[m].rev = head
      BY <1>1, <2>1, <3>3 DEF IInv, MachinesOK, MachineOK, Closing
    <3> QED BY <3>3, <3>4 DEF CloudHash
  <2> QED BY <1>1, <2>1
<1>2. IInv /\ [Next]_vars => [Noticed]_vars
  BY <1>1
<1>3. Spec => [][Noticed]_vars
  BY <1>2, Inductive, PTL DEF Spec
<1> QED BY <1>3 DEF NoticesNewHead

-----------------------------------------------------------------------------
(* What a pull may take *)

\* Edits that were published, or made while an operation ran where they were made.
Known == published \cup MadeIn({"apply", "busy"})

EditsOK(m) ==
  /\ sync[m] # None => sync[m].local \subseteq Known
  /\ pc[m] = "upload" => live[m] \subseteq ws[m] \cup Known
  /\ pc[m] \in {"confirm", "publish"} => live[m] \subseteq job[m].stage \cup Known
  /\ pc[m] \in {"guard", "install", "recheck", "apply", "record"} => job[m].stage \subseteq Known
  /\ pc[m] \in {"guard", "recheck", "apply"} => ~job[m].sourceOnly
  /\ pc[m] \in {"install", "recheck", "apply"} /\ ~job[m].discard /\ ~job[m].sourceOnly /\ sync[m] # None =>
       live[m] \subseteq Known
  /\ pc[m] = "record" /\ ~job[m].sourceOnly => live[m] \subseteq Known
  /\ pc[m] \in {"readback", "clear", "syncLocal"} => live[m] \subseteq Known
  /\ pc[m] = "syncCloud" => job[m].local \subseteq Known

EditsInv == HeadTree \subseteq published /\ \A m \in Machines : EditsOK(m)

\* Edits that are known stay known.
LEMMA KnownGrows ==
  ASSUME NEW m \in Machines, Effect(m)
  PROVE  Known \subseteq Known' /\ published \subseteq Known
<1>1. ASSUME NEW e \in MadeIn({"apply", "busy"}) PROVE e \in MadeIn({"apply", "busy"})'
  <2>1. e \in Edits /\ when[e] \in {"apply", "busy"}
    BY DEF MadeIn
  <2>2. when'[e] = when[e]
    BY <2>1 DEF Effect
  <2> QED BY <2>1, <2>2 DEF MadeIn
<1> QED BY <1>1 DEF Known, Effect

\* A step of one machine leaves what is known of the edits of the others.
LEMMA EditsOthers ==
  ASSUME NEW m \in Machines, Effect(m), NEW n \in Machines \ {m}, EditsOK(n)
  PROVE  EditsOK(n)'
<1>1. /\ pc'[n] = pc[n] /\ job'[n] = job[n] /\ live'[n] = live[n]
      /\ ws'[n] = ws[n] /\ sync'[n] = sync[n]
  BY DEF Effect
<1>2. Known \subseteq Known'
  BY KnownGrows
<1> QED BY <1>1, <1>2 DEF EditsOK

\* A step into a phase of which EditsOK says nothing.
LEMMA EditsQuiet ==
  ASSUME NEW m \in Machines, Effect(m), EditsOK(m), sync'[m] = sync[m],
         pc'[m] \in {"idle", "entry", "lock", "pushCheck", "capture", "pullFetch", "failed", "mark", "release"}
  PROVE  EditsOK(m)'
<1>1. Known \subseteq Known'
  BY KnownGrows
<1> QED BY <1>1 DEF EditsOK

\* HEAD is moved by the one step that publishes.
LEMMA Publishes ==
  ASSUME NEW m \in Machines, Does(m), head' # head
  PROVE  PushHead(m)
BY DEF Does, Transport, Worker, People, Accident, storeVars, Start, Decide, Resolving, Enter, TakeStore, PushCheck, PushCapture, PushUpload, PushConfirm, PushRecord, PullFetch, PullGuard, PullInstall, PullRecheck, PullApply, PullRecord, PullMark, ClearMarker, SyncLocal, SyncCloud, Release, Fail, WorkerDecide, WorkerStop, WorkerRun, ManualPush, ManualPull, Acknowledge, MergeTarget, MergeAll, ForceTarget, PushCapturePart, PullApplyPart, Crash, RemoveLocks, Edit

\* Where the record of a pull leads.
LEMMA Recorded ==
  ASSUME TypeOK, NEW m \in Machines, PullRecord(m)
  PROVE  /\ pc'[m] \in {"clear", "mark", "release"} /\ job'[m] = Finishing(m)
         /\ pc'[m] = "clear" <=> ~job[m].sourceOnly
         /\ pc'[m] = "release" => provider[m] # None /\ provider[m].rev = head
<1> DEFINE advanced == IF provider[m] = None THEN TRUE
                       ELSE provider[m].rev # head \/ provider[m].tree # HeadTree
           next == IF ~job[m].sourceOnly THEN "clear" ELSE IF advanced THEN "mark" ELSE "release"
<1>1. Go(m, next, Finishing(m))
  BY DEF PullRecord
<1>2. pc'[m] = next /\ job'[m] = Finishing(m)
  BY <1>1, GoEffect
<1> QED BY <1>2

\* Every step of a machine keeps what EditsOK says of it.
LEMMA EditsStep ==
  ASSUME IInv, EditsInv, NEW m \in Machines, Does(m)
  PROVE  HeadTree' \subseteq published' /\ EditsOK(m)'
<1>1. Effect(m) /\ TypeOK /\ MachineOK(m) /\ EditsOK(m) /\ HeadTree \subseteq published
  BY MachineStep DEF IInv, MachinesOK, EditsInv
<1>2. Known \subseteq Known' /\ published \subseteq Known /\ published' \subseteq Known'
  BY <1>1, KnownGrows DEF Known
<1>3. UNCHANGED setting
  BY <1>1 DEF Effect
<1>4. HeadTree' \subseteq published'
  <2>1. CASE head' = head
    BY <1>1, <2>1, HeadStays DEF Effect
  <2>2. CASE head' # head
    <3>1. pc[m] = "publish" /\ head' = job[m].rev
      BY <1>1, <2>2 DEF Effect
    <3>2. Uploaded(job[m].rev, job[m].stage)
      BY <1>1, <3>1 DEF MachineOK
    <3>3. HeadTree' = job[m].stage
      <4>1. revisions'[job[m].rev] = revisions[job[m].rev] /\ job[m].rev # 0
        BY <1>1, <3>2 DEF Effect, Uploaded
      <4> QED BY <3>1, <3>2, <4>1 DEF HeadTree, TreeOf, Uploaded
    <3>4. job[m].stage \subseteq published'
      BY <2>2, Publishes DEF PushHead
    <3> QED BY <3>3, <3>4
  <2> QED BY <2>1, <2>2
<1> SUFFICES EditsOK(m)'
  BY <1>4
<1>5. CASE Enter(m)
  <2>1. pc'[m] = ("lock") /\ job'[m] = job[m]
    <3>1. Go(m, "lock", job[m])
      BY <1>5 DEF Enter, Step
    <3> QED BY <1>1, <3>1, GoEffect
  <2>2. sync'[m] = sync[m]
    BY <1>5 DEF Enter, machineVars, Start, Resolving
  <2> QED BY <1>1, <2>1, <2>2, EditsQuiet
<1>6. CASE TakeStore(m)
  <2>1. pc'[m] = (IF job[m].action = "push" THEN "pushCheck" ELSE "pullFetch") /\ job'[m] = job[m]
    <3>1. Go(m, IF job[m].action = "push" THEN "pushCheck" ELSE "pullFetch", job[m])
      BY <1>6 DEF TakeStore, Step
    <3> QED BY <1>1, <3>1, GoEffect
  <2>2. sync'[m] = sync[m]
    BY <1>6 DEF TakeStore, machineVars, Start, Resolving
  <2> QED BY <1>1, <2>1, <2>2, EditsQuiet
<1>7. CASE PushCheck(m)
  <2>1. pc'[m] = ("capture") /\ job'[m] = [job[m] EXCEPT !.expected = head]
    <3>1. Go(m, "capture", [job[m] EXCEPT !.expected = head])
      BY <1>7 DEF PushCheck, Step
    <3> QED BY <1>1, <3>1, GoEffect
  <2>2. sync'[m] = sync[m]
    BY <1>7 DEF PushCheck, machineVars, Start, Resolving
  <2> QED BY <1>1, <2>1, <2>2, EditsQuiet
<1>8. CASE PushCapture(m)
  <2>1. pc'[m] = ("upload") /\ job'[m] = job[m]
    <3>1. Go(m, "upload", job[m])
      BY <1>8 DEF PushCapture, Step
    <3> QED BY <1>1, <3>1, GoEffect
  <2>2. ws'[m] = live[m] /\ UNCHANGED <<live, sync>> /\ pc[m] = "capture"
    BY <1>1, <1>8 DEF PushCapture, Step, machineVars, TypeOK
  <2> QED BY <1>1, <1>2, <2>1, <2>2 DEF EditsOK
<1>9. CASE PushUpload(m)
  <2>1. pc'[m] = ("confirm") /\ job'[m] = [job[m] EXCEPT !.stage = ws[m], !.rev = Len(revisions')]
    <3>1. Go(m, "confirm", [job[m] EXCEPT !.stage = ws[m], !.rev = Len(revisions')])
      BY <1>9 DEF PushUpload, Step
    <3> QED BY <1>1, <3>1, GoEffect
  <2>2. job'[m].stage = ws[m]
    BY <1>1, <2>1, JobFields
  <2>3. UNCHANGED <<live, ws, sync>> /\ pc[m] = "upload"
    BY <1>1, <1>9 DEF PushUpload, Step, machineVars, TypeOK
  <2> QED BY <1>1, <1>2, <2>1, <2>2, <2>3 DEF EditsOK
<1>10. CASE PushConfirm(m)
  <2>1. pc'[m] = ("publish") /\ job'[m] = job[m]
    <3>1. Go(m, "publish", job[m])
      BY <1>10 DEF PushConfirm, Step
    <3> QED BY <1>1, <3>1, GoEffect
  <2>2. UNCHANGED <<live, ws, sync>> /\ pc[m] = "confirm"
    BY <1>1, <1>10 DEF PushConfirm, Step, machineVars, TypeOK
  <2> QED BY <1>1, <1>2, <2>1, <2>2 DEF EditsOK
<1>11. CASE PushHead(m)
  <2>1. pc'[m] = ("readback") /\ job'[m] = [job[m] EXCEPT !.expected = job[m].rev]
    <3>1. Go(m, "readback", [job[m] EXCEPT !.expected = job[m].rev])
      BY <1>11 DEF PushHead, Step
    <3> QED BY <1>1, <3>1, GoEffect
  <2>2. job[m].stage \subseteq published' /\ UNCHANGED <<live, ws, sync>> /\ pc[m] = "publish"
    BY <1>11 DEF PushHead, machineVars
  <2> QED BY <1>1, <1>2, <2>1, <2>2 DEF EditsOK
<1>12. CASE PushRecord(m)
  <2>1. pc'[m] = ("clear") /\ job'[m] = Finishing(m)
    <3>1. Go(m, "clear", Finishing(m))
      BY <1>12 DEF PushRecord, Step
    <3> QED BY <1>1, <3>1, GoEffect
  <2>2. UNCHANGED <<live, ws, sync>> /\ pc[m] = "readback"
    BY <1>12 DEF PushRecord
  <2> QED BY <1>1, <1>2, <2>1, <2>2 DEF EditsOK
<1>13. CASE PullFetch(m)
  <2>1. pc'[m] = (IF job[m].sourceOnly THEN "install" ELSE "guard") /\ job'[m] = [job[m] EXCEPT !.expected = head, !.stage = HeadTree]
    <3>1. Go(m, IF job[m].sourceOnly THEN "install" ELSE "guard", [job[m] EXCEPT !.expected = head, !.stage = HeadTree])
      BY <1>13 DEF PullFetch, Step
    <3> QED BY <1>1, <3>1, GoEffect
  <2>2. job'[m].stage = HeadTree /\ job'[m].sourceOnly = job[m].sourceOnly
    BY <1>1, <2>1, JobFields
  <2>3. UNCHANGED <<live, ws, sync>>
    BY <1>1, <1>13 DEF PullFetch, Step, machineVars, TypeOK
  <2> QED BY <1>1, <1>2, <2>1, <2>2, <2>3 DEF EditsOK
<1>14. CASE PullGuard(m)
  <2>1. pc'[m] = ("install") /\ job'[m] = [job[m] EXCEPT !.local = live[m]]
    <3>1. Go(m, "install", [job[m] EXCEPT !.local = live[m]])
      BY <1>14 DEF PullGuard, Step
    <3> QED BY <1>1, <3>1, GoEffect
  <2>2. job'[m].stage = job[m].stage /\ job'[m].discard = job[m].discard /\ job'[m].sourceOnly = job[m].sourceOnly
    BY <1>1, <2>1, JobFields
  <2>3. UNCHANGED <<live, ws, sync>> /\ pc[m] = "guard" /\ (job[m].discard \/ ~LocalChanged(m))
    BY <1>1, <1>14 DEF PullGuard, Step, machineVars, TypeOK
  <2> QED BY <1>1, <1>2, <2>1, <2>2, <2>3 DEF EditsOK, LocalChanged
<1>15. CASE PullInstall(m)
  <2>1. pc'[m] = (IF job[m].sourceOnly THEN "record" ELSE "recheck") /\ job'[m] = job[m]
    <3>1. Go(m, IF job[m].sourceOnly THEN "record" ELSE "recheck", job[m])
      BY <1>15 DEF PullInstall, Step
    <3> QED BY <1>1, <3>1, GoEffect
  <2>2. UNCHANGED <<live, sync>> /\ pc[m] = "install"
    BY <1>1, <1>15 DEF PullInstall, Step, machineVars, TypeOK
  <2> QED BY <1>1, <1>2, <2>1, <2>2 DEF EditsOK
<1>16. CASE PullRecheck(m)
  <2>1. pc'[m] = ("apply") /\ job'[m] = job[m]
    <3>1. Go(m, "apply", job[m])
      BY <1>16 DEF PullRecheck, Step
    <3> QED BY <1>1, <3>1, GoEffect
  <2>2. UNCHANGED <<live, sync>> /\ pc[m] = "recheck"
    BY <1>1, <1>16 DEF PullRecheck, Step, machineVars, TypeOK
  <2> QED BY <1>1, <1>2, <2>1, <2>2 DEF EditsOK
<1>17. CASE PullApply(m)
  <2>1. pc'[m] = ("record") /\ job'[m] = job[m]
    <3>1. Go(m, "record", job[m])
      BY <1>17 DEF PullApply, Step
    <3> QED BY <1>1, <3>1, GoEffect
  <2>2. live'[m] = job[m].stage /\ UNCHANGED sync /\ pc[m] = "apply"
    BY <1>1, <1>17 DEF PullApply, Step, machineVars, TypeOK
  <2> QED BY <1>1, <1>2, <2>1, <2>2 DEF EditsOK
<1>18. CASE PullRecord(m)
  <2>1. UNCHANGED <<live, ws, sync>> /\ pc[m] = "record"
    BY <1>18 DEF PullRecord
  <2>2. pc'[m] \in {"clear", "mark", "release"} /\ (pc'[m] = "clear" => ~job[m].sourceOnly)
    BY <1>1, <1>18, Recorded
  <2> QED BY <1>1, <1>2, <2>1, <2>2 DEF EditsOK
<1>19. CASE PullMark(m)
  <2>1. pc'[m] = ("release") /\ job'[m] = job[m]
    <3>1. Go(m, "release", job[m])
      BY <1>19 DEF PullMark, Step
    <3> QED BY <1>1, <3>1, GoEffect
  <2>2. sync'[m] = sync[m]
    BY <1>19 DEF PullMark, machineVars, Start, Resolving
  <2> QED BY <1>1, <2>1, <2>2, EditsQuiet
<1>20. CASE ClearMarker(m)
  <2>1. pc'[m] = ("syncLocal") /\ job'[m] = job[m]
    <3>1. Go(m, "syncLocal", job[m])
      BY <1>20 DEF ClearMarker, Step
    <3> QED BY <1>1, <3>1, GoEffect
  <2>2. UNCHANGED <<live, sync>> /\ pc[m] = "clear"
    BY <1>1, <1>20 DEF ClearMarker, Step, machineVars, TypeOK
  <2> QED BY <1>1, <1>2, <2>1, <2>2 DEF EditsOK
<1>21. CASE SyncLocal(m)
  <2>1. pc'[m] = ("syncCloud") /\ job'[m] = [job[m] EXCEPT !.local = live[m]]
    <3>1. Go(m, "syncCloud", [job[m] EXCEPT !.local = live[m]])
      BY <1>21 DEF SyncLocal, Step
    <3> QED BY <1>1, <3>1, GoEffect
  <2>2. job'[m].local = live[m]
    BY <1>1, <2>1, JobFields
  <2>3. UNCHANGED sync /\ pc[m] = "syncLocal"
    BY <1>21 DEF SyncLocal, machineVars
  <2> QED BY <1>1, <1>2, <2>1, <2>2, <2>3 DEF EditsOK
<1>22. CASE SyncCloud(m)
  <2>1. pc'[m] = ("release") /\ job'[m] = job[m]
    <3>1. Go(m, "release", job[m])
      BY <1>22 DEF SyncCloud, Step
    <3> QED BY <1>1, <3>1, GoEffect
  <2>2. sync'[m].local = job[m].local /\ pc[m] = "syncCloud"
    <3> DEFINE f == [local |-> job[m].local, cloud |-> CloudHash]
    <3>1. sync' = [sync EXCEPT ![m] = f] /\ f.local = job[m].local /\ pc[m] = "syncCloud"
      BY <1>22 DEF SyncCloud, Step
    <3> HIDE DEF f
    <3> QED BY <1>1, <3>1 DEF TypeOK
  <2>3. sync'[m].local \subseteq Known'
    BY <1>1, <1>2, <2>2 DEF EditsOK
  <2> QED BY <2>1, <2>3 DEF EditsOK
<1>23. CASE Release(m)
  <2>1. pc'[m] = ("idle") /\ job'[m] = NoJob
    <3>1. Go(m, "idle", NoJob)
      BY <1>23 DEF Release, Step
    <3> QED BY <1>1, <3>1, GoEffect
  <2>2. sync'[m] = sync[m]
    BY <1>23 DEF Release, machineVars, Start, Resolving
  <2> QED BY <1>1, <2>1, <2>2, EditsQuiet
<1>24. CASE Fail(m)
  <2>1. pc'[m] = ("idle") /\ job'[m] = NoJob
    <3>1. Go(m, "idle", NoJob)
      BY <1>24 DEF Fail, Step
    <3> QED BY <1>1, <3>1, GoEffect
  <2>2. sync'[m] = sync[m]
    BY <1>24 DEF Fail, machineVars, Start, Resolving
  <2> QED BY <1>1, <2>1, <2>2, EditsQuiet
<1>25. CASE WorkerDecide(m)
  <2>1. UNCHANGED <<live, ws, sync, pc, job>>
    BY <1>25 DEF WorkerDecide, Decide
  <2> QED BY <1>1, <1>2, <2>1 DEF EditsOK
<1>26. CASE WorkerStop(m)
  <2>1. UNCHANGED <<live, ws, sync, pc, job>>
    BY <1>26 DEF WorkerStop, Decide
  <2> QED BY <1>1, <1>2, <2>1 DEF EditsOK
<1>27. CASE WorkerRun(m)
  <2>1. pc'[m] = "entry"
    BY <1>1, <1>27 DEF WorkerRun, Start, Go, TypeOK
  <2>2. sync'[m] = sync[m]
    BY <1>27 DEF WorkerRun, machineVars, Start, Resolving
  <2> QED BY <1>1, <2>1, <2>2, EditsQuiet
<1>28. CASE ManualPush(m)
  <2>1. pc'[m] = "entry"
    BY <1>1, <1>28 DEF ManualPush, Start, Go, TypeOK
  <2>2. sync'[m] = sync[m]
    BY <1>28 DEF ManualPush, machineVars, Start, Resolving
  <2> QED BY <1>1, <2>1, <2>2, EditsQuiet
<1>29. CASE ManualPull(m)
  <2>1. pc'[m] = "entry"
    BY <1>1, <1>29 DEF ManualPull, Start, Go, TypeOK
  <2>2. sync'[m] = sync[m]
    BY <1>29 DEF ManualPull, machineVars, Start, Resolving
  <2> QED BY <1>1, <2>1, <2>2, EditsQuiet
<1>30. CASE Acknowledge(m)
  <2>1. pc'[m] = "idle"
    BY <1>30 DEF Acknowledge, Resolving
  <2>2. sync'[m] = sync[m]
    BY <1>30 DEF Acknowledge, machineVars, Start, Resolving
  <2> QED BY <1>1, <2>1, <2>2, EditsQuiet
<1>31. CASE MergeTarget(m)
  <2>1. pc'[m] = "idle"
    BY <1>31 DEF MergeTarget, Resolving
  <2>2. sync'[m] = sync[m]
    BY <1>31 DEF MergeTarget, machineVars, Start, Resolving
  <2> QED BY <1>1, <2>1, <2>2, EditsQuiet
<1>32. CASE MergeAll(m)
  <2>1. pc'[m] = "idle"
    BY <1>32 DEF MergeAll, Resolving
  <2>2. sync'[m] = sync[m]
    BY <1>32 DEF MergeAll, machineVars, Start, Resolving
  <2> QED BY <1>1, <2>1, <2>2, EditsQuiet
<1>33. CASE ForceTarget(m)
  <2>1. pc'[m] = "idle"
    BY <1>33 DEF ForceTarget, Resolving
  <2>2. sync'[m] = sync[m]
    BY <1>33 DEF ForceTarget, machineVars, Start, Resolving
  <2> QED BY <1>1, <2>1, <2>2, EditsQuiet
<1>34. CASE PushCapturePart(m)
  <2>1. pc'[m] = ("failed") /\ job'[m] = job[m]
    <3>1. Go(m, "failed", job[m])
      BY <1>34 DEF PushCapturePart, Step
    <3> QED BY <1>1, <3>1, GoEffect
  <2>2. sync'[m] = sync[m]
    BY <1>34 DEF PushCapturePart, machineVars, Start, Resolving
  <2> QED BY <1>1, <2>1, <2>2, EditsQuiet
<1>35. CASE PullApplyPart(m)
  <2>1. pc'[m] = ("failed") /\ job'[m] = job[m]
    <3>1. Go(m, "failed", job[m])
      BY <1>35 DEF PullApplyPart, Step
    <3> QED BY <1>1, <3>1, GoEffect
  <2>2. sync'[m] = sync[m]
    BY <1>35 DEF PullApplyPart, machineVars, Start, Resolving
  <2> QED BY <1>1, <2>1, <2>2, EditsQuiet
<1>36. CASE Crash(m)
  <2>1. pc'[m] = ("idle") /\ job'[m] = NoJob
    <3>1. Go(m, "idle", NoJob)
      BY <1>36 DEF Crash, Step
    <3> QED BY <1>1, <3>1, GoEffect
  <2>2. sync'[m] = sync[m]
    BY <1>36 DEF Crash, machineVars, Start, Resolving
  <2> QED BY <1>1, <2>1, <2>2, EditsQuiet
<1>37. CASE RemoveLocks(m)
  <2>1. pc'[m] = "idle"
    BY <1>37 DEF RemoveLocks, Resolving
  <2>2. sync'[m] = sync[m]
    BY <1>37 DEF RemoveLocks, machineVars, Start, Resolving
  <2> QED BY <1>1, <2>1, <2>2, EditsQuiet
<1>38. ASSUME NEW e \in Edits, Edit(m, e) PROVE EditsOK(m)'
  <2>1. UNCHANGED <<ws, sync, pc, job>> /\ live'[m] = live[m] \cup {e}
    BY <1>1, <1>38 DEF Edit, TypeOK
  <2>2. CASE pc[m] = "idle"
    BY <1>1, <2>1, <2>2, EditsQuiet
  <2>3. CASE pc[m] # "idle"
    <3>1. when'[e] \in {"apply", "busy"}
      BY <1>1, <1>38, <2>3 DEF Edit, TypeOK
    <3>2. e \in Known'
      BY <3>1 DEF Known, MadeIn
    <3> QED BY <1>1, <1>2, <2>1, <3>2 DEF EditsOK
  <2> QED BY <2>2, <2>3
<1> QED
  BY <1>3, <1>5, <1>6, <1>7, <1>8, <1>9, <1>10, <1>11, <1>12, <1>13, <1>14,
     <1>15, <1>16, <1>17, <1>18, <1>19, <1>20, <1>21, <1>22, <1>23, <1>24,
     <1>25, <1>26, <1>27, <1>28, <1>29, <1>30, <1>31, <1>32, <1>33, <1>34,
     <1>35, <1>36, <1>37, <1>38
     DEF Does, Transport, Worker, People, Accident

\* No edit has been made at the start.
LEMMA EditsInit == Init => EditsInv
<1> SUFFICES ASSUME Init PROVE EditsInv OBVIOUS
<1>1. HeadTree \subseteq published
  BY DEF Init, HeadTree, TreeOf
<1>2. ASSUME NEW m \in Machines PROVE EditsOK(m)
  <2>1. pc[m] = "idle" /\ (sync[m] # None => sync[m].local = {})
    BY DEF Init
  <2> QED BY <2>1 DEF EditsOK
<1> QED BY <1>1, <1>2 DEF EditsInv

\* What is known of the edits is inductive.
LEMMA EditsKeep == IInv /\ EditsInv /\ [Next]_vars => EditsInv'
<1> SUFFICES ASSUME IInv, EditsInv, [Next]_vars PROVE EditsInv' OBVIOUS
<1>1. CASE Next
  <2>1. PICK m \in Machines : Does(m)
    BY <1>1, NextDoes
  <2>2. HeadTree' \subseteq published' /\ EditsOK(m)'
    BY <2>1, EditsStep
  <2>3. \A n \in Machines \ {m} : EditsOK(n)'
    BY <2>1, MachineStep, EditsOthers DEF EditsInv
  <2> QED BY <2>2, <2>3 DEF EditsInv
<1>2. CASE UNCHANGED vars
  BY <1>2 DEF vars, storeVars, machineVars, history, EditsInv, EditsOK, Known, MadeIn, HeadTree, TreeOf
<1> QED BY <1>1, <1>2

\* A pull that was not told to discard local changes takes no edit that was
\* neither published nor made while an operation ran on that machine.
THEOREM PullsKeepEdits == Spec => PullKeepsEdits
<1> DEFINE Keeps == \A m \in Machines : Guarded(m) => Drops(m) \subseteq published \cup MadeIn({"apply", "busy"})
<1>1. EditsInv => [Keeps]_vars
  <2> SUFFICES ASSUME EditsInv, NEW m \in Machines, Guarded(m)
               PROVE  Drops(m) \subseteq published \cup MadeIn({"apply", "busy"})
    OBVIOUS
  <2>1. live[m] \subseteq Known
    BY DEF EditsInv, EditsOK, Guarded
  <2> QED BY <2>1 DEF Drops, Known
<1>2. Spec => []EditsInv
  <2>1. Init => EditsInv
    BY EditsInit
  <2>2. IInv /\ EditsInv /\ [Next]_vars => EditsInv'
    BY EditsKeep
  <2> QED BY <2>1, <2>2, Inductive, PTL DEF Spec
<1>3. Spec => [][Keeps]_vars
  BY <1>1, <1>2, PTL
<1> QED BY <1>3 DEF PullKeepsEdits

-----------------------------------------------------------------------------
(* What is published stays published, on a local store *)

\* Edits that left HEAD with somebody's knowledge.
Excused == acked \cup cut
Based(m) == provider[m] # None /\ provider[m].rev = head

\* A revision is never published twice, and no baseline names one before it is.
FreshOK(m) ==
  /\ provider[m] # None => provider[m].rev <= Len(revisions)
  /\ pc[m] \in {"confirm", "publish"} =>
       /\ job[m].expected < job[m].rev
       /\ \A n \in Machines : provider[n] # None => provider[n].rev # job[m].rev

\* Where the published edits are on the way from one HEAD to the next.
KeptOK(m) ==
  /\ Based(m) => /\ HeadTree \subseteq ws[m] \cup Excused
                 /\ marker[m] \/ pc[m] = "mark" \/ HeadTree \subseteq live[m] \cup Excused
  /\ pc[m] \notin {"idle", "entry"} => job[m].mode # "localWins"
  /\ pc[m] \in {"capture", "clear"} => HeadTree \subseteq live[m] \cup Excused
  /\ pc[m] = "upload" => HeadTree \subseteq ws[m] \cup Excused /\ ws[m] \subseteq live[m]
  /\ pc[m] \in {"confirm", "publish"} => HeadTree \subseteq job[m].stage \cup Excused
  /\ pc[m] \in {"confirm", "publish", "readback"} =>
       job[m].stage \subseteq live[m] /\ job[m].stage \subseteq ws[m]
  /\ pc[m] \in {"recheck", "apply", "record"} => job[m].stage \subseteq ws[m]
  /\ pc[m] = "record" /\ ~job[m].sourceOnly => job[m].stage \subseteq live[m]
  /\ pc[m] \in {"guard", "recheck", "apply"} => ~job[m].sourceOnly

PubInv == Kind = "local" => \A m \in Machines : FreshOK(m) /\ KeptOK(m)

\* Under the store lock nobody else is between its check and its publication.
LEMMA OnlyHolder ==
  ASSUME IInv, Kind = "local", NEW m \in Machines, NEW n \in Machines \ {m}, pc[m] \in Holding
  PROVE  pc[n] \in {"idle", "entry", "lock"}
<1>1. storeLock = m
  BY DEF IInv, MachinesOK, MachineOK
<1>2. pc[n] \notin Holding
  BY <1>1 DEF IInv, MachinesOK, MachineOK
<1>3. pc[n] \in Phases
  BY DEF IInv, TypeOK
<1> QED BY <1>2, <1>3 DEF Holding

\* A step that leads to the confirmation or the publication of a revision comes
\* from its upload or its confirmation, or changes no phase.
LEMMA Uploading ==
  ASSUME TypeOK, NEW m \in Machines, Does(m), pc'[m] \in {"confirm", "publish"}
  PROVE  PushUpload(m) \/ PushConfirm(m) \/ UNCHANGED <<pc, job>>
<1>1. CASE Enter(m)
  <2>1. Go(m, "lock", job[m])
    BY <1>1 DEF Enter, Step
  <2>2. pc'[m] = ("lock")
    BY <2>1, GoEffect
  <2> QED BY <2>2
<1>2. CASE TakeStore(m)
  <2>1. Go(m, IF job[m].action = "push" THEN "pushCheck" ELSE "pullFetch", job[m])
    BY <1>2 DEF TakeStore, Step
  <2>2. pc'[m] = (IF job[m].action = "push" THEN "pushCheck" ELSE "pullFetch")
    BY <2>1, GoEffect
  <2> QED BY <2>2
<1>3. CASE PushCheck(m)
  <2>1. Go(m, "capture", [job[m] EXCEPT !.expected = head])
    BY <1>3 DEF PushCheck, Step
  <2>2. pc'[m] = ("capture")
    BY <2>1, GoEffect
  <2> QED BY <2>2
<1>4. CASE PushCapture(m)
  <2>1. Go(m, "upload", job[m])
    BY <1>4 DEF PushCapture, Step
  <2>2. pc'[m] = ("upload")
    BY <2>1, GoEffect
  <2> QED BY <2>2
<1>5. CASE PushUpload(m)
  BY <1>5
<1>6. CASE PushConfirm(m)
  BY <1>6
<1>7. CASE PushHead(m)
  <2>1. Go(m, "readback", [job[m] EXCEPT !.expected = job[m].rev])
    BY <1>7 DEF PushHead, Step
  <2>2. pc'[m] = ("readback")
    BY <2>1, GoEffect
  <2> QED BY <2>2
<1>8. CASE PushRecord(m)
  <2>1. Go(m, "clear", Finishing(m))
    BY <1>8 DEF PushRecord, Step
  <2>2. pc'[m] = ("clear")
    BY <2>1, GoEffect
  <2> QED BY <2>2
<1>9. CASE PullFetch(m)
  <2>1. Go(m, IF job[m].sourceOnly THEN "install" ELSE "guard", [job[m] EXCEPT !.expected = head, !.stage = HeadTree])
    BY <1>9 DEF PullFetch, Step
  <2>2. pc'[m] = (IF job[m].sourceOnly THEN "install" ELSE "guard")
    BY <2>1, GoEffect
  <2> QED BY <2>2
<1>10. CASE PullGuard(m)
  <2>1. Go(m, "install", [job[m] EXCEPT !.local = live[m]])
    BY <1>10 DEF PullGuard, Step
  <2>2. pc'[m] = ("install")
    BY <2>1, GoEffect
  <2> QED BY <2>2
<1>11. CASE PullInstall(m)
  <2>1. Go(m, IF job[m].sourceOnly THEN "record" ELSE "recheck", job[m])
    BY <1>11 DEF PullInstall, Step
  <2>2. pc'[m] = (IF job[m].sourceOnly THEN "record" ELSE "recheck")
    BY <2>1, GoEffect
  <2> QED BY <2>2
<1>12. CASE PullRecheck(m)
  <2>1. Go(m, "apply", job[m])
    BY <1>12 DEF PullRecheck, Step
  <2>2. pc'[m] = ("apply")
    BY <2>1, GoEffect
  <2> QED BY <2>2
<1>13. CASE PullApply(m)
  <2>1. Go(m, "record", job[m])
    BY <1>13 DEF PullApply, Step
  <2>2. pc'[m] = ("record")
    BY <2>1, GoEffect
  <2> QED BY <2>2
<1>14. CASE PullRecord(m)
  BY <1>14, Recorded
<1>15. CASE PullMark(m)
  <2>1. Go(m, "release", job[m])
    BY <1>15 DEF PullMark, Step
  <2>2. pc'[m] = ("release")
    BY <2>1, GoEffect
  <2> QED BY <2>2
<1>16. CASE ClearMarker(m)
  <2>1. Go(m, "syncLocal", job[m])
    BY <1>16 DEF ClearMarker, Step
  <2>2. pc'[m] = ("syncLocal")
    BY <2>1, GoEffect
  <2> QED BY <2>2
<1>17. CASE SyncLocal(m)
  <2>1. Go(m, "syncCloud", [job[m] EXCEPT !.local = live[m]])
    BY <1>17 DEF SyncLocal, Step
  <2>2. pc'[m] = ("syncCloud")
    BY <2>1, GoEffect
  <2> QED BY <2>2
<1>18. CASE SyncCloud(m)
  <2>1. Go(m, "release", job[m])
    BY <1>18 DEF SyncCloud, Step
  <2>2. pc'[m] = ("release")
    BY <2>1, GoEffect
  <2> QED BY <2>2
<1>19. CASE Release(m)
  <2>1. Go(m, "idle", NoJob)
    BY <1>19 DEF Release, Step
  <2>2. pc'[m] = ("idle")
    BY <2>1, GoEffect
  <2> QED BY <2>2
<1>20. CASE Fail(m)
  <2>1. Go(m, "idle", NoJob)
    BY <1>20 DEF Fail, Step
  <2>2. pc'[m] = ("idle")
    BY <2>1, GoEffect
  <2> QED BY <2>2
<1>21. CASE WorkerDecide(m)
  BY <1>21 DEF WorkerDecide, Resolving
<1>22. CASE WorkerStop(m)
  BY <1>22 DEF WorkerStop, Resolving
<1>23. CASE WorkerRun(m)
  BY <1>23 DEF WorkerRun, Start, Go, TypeOK
<1>24. CASE ManualPush(m)
  BY <1>24 DEF ManualPush, Start, Go, TypeOK
<1>25. CASE ManualPull(m)
  BY <1>25 DEF ManualPull, Start, Go, TypeOK
<1>26. CASE Acknowledge(m)
  BY <1>26 DEF Acknowledge, Resolving
<1>27. CASE MergeTarget(m)
  BY <1>27 DEF MergeTarget, Resolving
<1>28. CASE MergeAll(m)
  BY <1>28 DEF MergeAll, Resolving
<1>29. CASE ForceTarget(m)
  BY <1>29 DEF ForceTarget, Resolving
<1>30. CASE PushCapturePart(m)
  <2>1. Go(m, "failed", job[m])
    BY <1>30 DEF PushCapturePart, Step
  <2>2. pc'[m] = ("failed")
    BY <2>1, GoEffect
  <2> QED BY <2>2
<1>31. CASE PullApplyPart(m)
  <2>1. Go(m, "failed", job[m])
    BY <1>31 DEF PullApplyPart, Step
  <2>2. pc'[m] = ("failed")
    BY <2>1, GoEffect
  <2> QED BY <2>2
<1>32. CASE Crash(m)
  <2>1. Go(m, "idle", NoJob)
    BY <1>32 DEF Crash, Step
  <2>2. pc'[m] = ("idle")
    BY <2>1, GoEffect
  <2> QED BY <2>2
<1>33. CASE RemoveLocks(m)
  BY <1>33 DEF RemoveLocks, Resolving
<1>34. ASSUME NEW x \in Edits, Edit(m, x) PROVE PushUpload(m) \/ PushConfirm(m) \/ UNCHANGED <<pc, job>>
  BY <1>34 DEF Edit, Resolving
<1> QED
  BY <1>1, <1>2, <1>3, <1>4, <1>5, <1>6, <1>7, <1>8, <1>9, <1>10, <1>11,
     <1>12, <1>13, <1>14, <1>15, <1>16, <1>17, <1>18, <1>19, <1>20, <1>21,
     <1>22, <1>23, <1>24, <1>25, <1>26, <1>27, <1>28, <1>29, <1>30, <1>31,
     <1>32, <1>33, <1>34
     DEF Does, Transport, Worker, People, Accident

\* The published tree after a step: what it was, or what the step published.
LEMMA HeadMoves ==
  ASSUME IInv, NEW m \in Machines, Does(m)
  PROVE  \/ head' = head /\ HeadTree' = HeadTree
         \/ /\ PushHead(m) /\ pc[m] = "publish" /\ head' # head
            /\ head' = job[m].rev /\ HeadTree' = job[m].stage
<1>1. Effect(m) /\ TypeOK /\ MachineOK(m)
  BY MachineStep DEF IInv, MachinesOK
<1>2. CASE head' = head
  BY <1>1, <1>2, HeadStays
<1>3. CASE head' # head
  <2>1. pc[m] = "publish" /\ head' = job[m].rev
    BY <1>1, <1>3 DEF Effect
  <2>2. Uploaded(job[m].rev, job[m].stage)
    BY <1>1, <2>1 DEF MachineOK
  <2>3. revisions'[job[m].rev] = revisions[job[m].rev] /\ job[m].rev # 0
    BY <1>1, <2>2 DEF Effect, Uploaded
  <2>4. HeadTree' = job[m].stage
    BY <2>1, <2>2, <2>3 DEF HeadTree, TreeOf, Uploaded
  <2> QED BY <1>3, <2>1, <2>4, Publishes
<1> QED BY <1>2, <1>3

\* Revisions are numbered as they are uploaded, so a new one is in no baseline.
LEMMA FreshStep ==
  ASSUME IInv, Kind = "local", NEW m \in Machines, Does(m),
         \A n \in Machines : FreshOK(n),
         NEW n \in Machines
  PROVE  FreshOK(n)'
<1>1. Effect(m) /\ TypeOK /\ FreshOK(n) /\ MachinesOK
  BY MachineStep DEF IInv
<1>2. Len(revisions) \in Nat /\ head \in Nat /\ head <= Len(revisions) /\ Len(revisions') >= Len(revisions)
  BY <1>1, Facts DEF TypeOK, Effect
<1>3. Len(revisions') \in Nat
  BY <1>1, TypeStep, Facts DEF IInv, Effect, Does, Next, TypeOK
<1>4. ASSUME NEW i \in Machines, provider'[i] # None
      PROVE  \/ provider[i] # None /\ provider'[i].rev = provider[i].rev
             \/ i = m /\ provider'[i].rev = head
  BY <1>1, <1>4 DEF Effect
<1>5. ASSUME NEW i \in Machines, provider[i] # None
      PROVE  provider[i].rev \in Nat /\ provider[i].rev <= Len(revisions)
  <2>1. provider[i] \in Baselines
    BY <1>1 DEF TypeOK
  <2>2. provider[i].rev \in 1..MaxRevs
    BY <1>5, <2>1 DEF Baselines
  <2>3. provider[i].rev \in Nat
    BY <2>2, BoundAssumption
  <2> QED BY <1>5, <2>3 DEF FreshOK
<1>6. provider'[n] # None => provider'[n].rev <= Len(revisions')
  BY <1>2, <1>3, <1>4, <1>5
<1>7. ASSUME pc'[n] \in {"confirm", "publish"}
      PROVE  /\ job'[n].expected < job'[n].rev
             /\ \A i \in Machines : provider'[i] # None => provider'[i].rev # job'[n].rev
  <2>1. CASE n = m /\ PushUpload(m)
    <3>1. Go(m, "confirm", [job[m] EXCEPT !.stage = ws[m], !.rev = Len(revisions')])
      BY <2>1 DEF PushUpload
    <3>2. job'[m] = [job[m] EXCEPT !.stage = ws[m], !.rev = Len(revisions')]
      BY <1>1, <3>1, GoEffect
    <3>3. job'[n].rev = Len(revisions') /\ job'[n].expected = job[n].expected
      BY <1>1, <2>1, <3>2, JobFields
    <3>4. head = job[n].expected /\ UNCHANGED provider
      BY <2>1 DEF PushUpload, SameHead, machineVars
    <3>5. Len(revisions') = Len(revisions) + 1
      <4> DEFINE r == [tree |-> ws[m], parent |-> head]
      <4>1. revisions' = Append(revisions, r)
        BY <2>1 DEF PushUpload
      <4> HIDE DEF r
      <4>2. revisions \in Seq(Revisions)
        BY <1>1 DEF TypeOK
      <4> QED BY <4>1, <4>2
    <3> QED BY <1>2, <1>5, <3>3, <3>4, <3>5
  <2>2. CASE n = m /\ PushConfirm(m)
    <3>1. Go(m, "publish", job[m]) /\ pc[m] = "confirm" /\ UNCHANGED provider
      BY <2>2 DEF PushConfirm, Step, machineVars
    <3>2. job'[m] = job[m]
      BY <1>1, <3>1, GoEffect
    <3> QED BY <1>1, <2>2, <3>1, <3>2 DEF FreshOK
  <2>3. CASE pc'[n] = pc[n] /\ job'[n] = job[n]
    <3>1. /\ job[n].expected < job[n].rev
          /\ \A i \in Machines : provider[i] # None => provider[i].rev # job[n].rev
      BY <1>1, <1>7, <2>3 DEF FreshOK
    <3>2. head = job[n].expected
      BY <1>1, <1>7, <2>3 DEF MachinesOK, MachineOK, Deciding, SameHead
    <3>3. job[n].rev \in Nat
      BY <1>1, BoundAssumption DEF TypeOK, Jobs
    <3>4. head # job[n].rev
      BY <1>2, <3>1, <3>2, <3>3
    <3> QED BY <1>4, <2>3, <3>1, <3>4
  <2>4. n # m => pc'[n] = pc[n] /\ job'[n] = job[n]
    BY <1>1 DEF Effect
  <2>5. n = m => PushUpload(m) \/ PushConfirm(m) \/ UNCHANGED <<pc, job>>
    BY <1>1, <1>7, Uploading
  <2> QED BY <2>1, <2>2, <2>3, <2>4, <2>5
<1> QED BY <1>6, <1>7 DEF FreshOK

\* What is known of the other machines while m takes a step.
LEMMA KeptOthers ==
  ASSUME IInv, Kind = "local", NEW m \in Machines, Does(m),
         FreshOK(m), NEW n \in Machines \ {m}, KeptOK(n)
  PROVE  KeptOK(n)'
<1>1. Effect(m)
  BY MachineStep
<1>2. /\ pc'[n] = pc[n] /\ job'[n] = job[n] /\ live'[n] = live[n] /\ ws'[n] = ws[n]
      /\ marker'[n] = marker[n] /\ provider'[n] = provider[n]
  BY <1>1 DEF Effect
<1>3. Excused \subseteq Excused'
  BY <1>1 DEF Effect, Excused
<1>4. CASE head' = head /\ HeadTree' = HeadTree
  BY <1>2, <1>3, <1>4 DEF KeptOK, Based
<1>5. CASE pc[m] = "publish" /\ head' = job[m].rev
  <2>1. pc[n] \in {"idle", "entry", "lock"}
    BY <1>5, OnlyHolder DEF Holding, Phases
  <2>2. ~Based(n)'
    BY <1>2, <1>5 DEF Based, FreshOK
  <2> QED BY <1>2, <2>1, <2>2 DEF KeptOK
<1> QED BY <1>4, <1>5, HeadMoves

\* Every step of a machine keeps what KeptOK says of it.
LEMMA KeptStep ==
  ASSUME IInv, Kind = "local", NEW m \in Machines, Does(m), FreshOK(m), KeptOK(m)
  PROVE  KeptOK(m)'
<1>1. Effect(m) /\ TypeOK /\ MachineOK(m)
  BY MachineStep DEF IInv, MachinesOK
<1>2. Excused \subseteq Excused'
  BY <1>1 DEF Effect, Excused
<1>3. UNCHANGED setting
  BY <1>1 DEF Effect
<1>4. \/ head' = head /\ HeadTree' = HeadTree
      \/ /\ PushHead(m) /\ pc[m] = "publish" /\ head' # head
         /\ head' = job[m].rev /\ HeadTree' = job[m].stage
  BY HeadMoves
<1>h. pc[m] # "publish" => head' = head /\ HeadTree' = HeadTree
  BY <1>4
<1>5. pc[m] \in {"readback", "guard", "install", "recheck", "apply", "record"} => HeadTree = job[m].stage
  BY <1>1 DEF MachineOK, Deciding, SameHead, Uploaded, HeadTree, TreeOf
<1>10. CASE Enter(m)
  <2>1. pc'[m] = ("lock") /\ job'[m] = job[m]
    <3>1. Go(m, "lock", job[m])
      BY <1>10 DEF Enter, Step
    <3> QED BY <1>1, <3>1, GoEffect
  <2>2. UNCHANGED <<live, ws, marker, provider>> /\ job[m].mode # "localWins" /\ pc[m] = "entry"
    BY <1>1, <1>10 DEF Enter, Step, machineVars, TypeOK, Between, EntryAccepts
  <2> QED BY <1>2, <1>h, <1>5, <2>1, <2>2 DEF KeptOK, Based
<1>11. CASE TakeStore(m)
  <2>1. pc'[m] = (IF job[m].action = "push" THEN "pushCheck" ELSE "pullFetch") /\ job'[m] = job[m]
    <3>1. Go(m, IF job[m].action = "push" THEN "pushCheck" ELSE "pullFetch", job[m])
      BY <1>11 DEF TakeStore, Step
    <3> QED BY <1>1, <3>1, GoEffect
  <2>2. UNCHANGED <<live, ws, marker, provider>> /\ pc[m] = "lock"
    BY <1>1, <1>11 DEF TakeStore, Step, machineVars, TypeOK, Between, EntryAccepts
  <2> QED BY <1>2, <1>h, <1>5, <2>1, <2>2 DEF KeptOK, Based
<1>12. CASE PushCheck(m)
  <2>1. pc'[m] = ("capture") /\ job'[m] = [job[m] EXCEPT !.expected = head]
    <3>1. Go(m, "capture", [job[m] EXCEPT !.expected = head])
      BY <1>12 DEF PushCheck, Step
    <3> QED BY <1>1, <3>1, GoEffect
  <2>2. job'[m].mode = job[m].mode
    BY <1>1, <2>1, JobFields
  <2>3. UNCHANGED <<live, ws, marker, provider>> /\ Reconciled(m) /\ BaselineIsHead(m) /\ pc[m] = "pushCheck"
    BY <1>12 DEF PushCheck, machineVars
  <2>4. HeadTree \subseteq live[m] \cup Excused
    <3>1. CASE head = 0
      BY <3>1 DEF HeadTree, TreeOf
    <3>2. CASE head # 0
      <4>1. Based(m)
        BY <2>3, <3>2 DEF BaselineIsHead, Based
      <4>2. CASE marker[m]
        BY <2>3, <4>1, <4>2 DEF Reconciled, KeptOK
      <4>3. CASE ~marker[m]
        BY <2>3, <4>1, <4>3 DEF KeptOK
      <4> QED BY <4>2, <4>3
    <3> QED BY <3>1, <3>2
  <2> QED BY <1>2, <1>h, <2>1, <2>2, <2>3, <2>4 DEF KeptOK, Based
<1>13. CASE PushCapture(m)
  <2>1. pc'[m] = ("upload") /\ job'[m] = job[m]
    <3>1. Go(m, "upload", job[m])
      BY <1>13 DEF PushCapture, Step
    <3> QED BY <1>1, <3>1, GoEffect
  <2>2. UNCHANGED <<live, marker, provider>> /\ ws'[m] = live[m] /\ pc[m] = "capture"
    BY <1>1, <1>13 DEF PushCapture, Step, machineVars, TypeOK, Between, EntryAccepts
  <2> QED BY <1>2, <1>h, <1>5, <2>1, <2>2 DEF KeptOK, Based
<1>14. CASE PushUpload(m)
  <2>1. pc'[m] = ("confirm") /\ job'[m] = [job[m] EXCEPT !.stage = ws[m], !.rev = Len(revisions')]
    <3>1. Go(m, "confirm", [job[m] EXCEPT !.stage = ws[m], !.rev = Len(revisions')])
      BY <1>14 DEF PushUpload, Step
    <3> QED BY <1>1, <3>1, GoEffect
  <2>2. job'[m].stage = ws[m] /\ job'[m].mode = job[m].mode
    BY <1>1, <2>1, JobFields
  <2>3. UNCHANGED <<live, ws, marker, provider>> /\ pc[m] = "upload"
    BY <1>14 DEF PushUpload, machineVars
  <2> QED BY <1>2, <1>h, <2>1, <2>2, <2>3 DEF KeptOK, Based
<1>15. CASE PushConfirm(m)
  <2>1. pc'[m] = ("publish") /\ job'[m] = job[m]
    <3>1. Go(m, "publish", job[m])
      BY <1>15 DEF PushConfirm, Step
    <3> QED BY <1>1, <3>1, GoEffect
  <2>2. UNCHANGED <<live, ws, marker, provider>> /\ pc[m] = "confirm"
    BY <1>1, <1>15 DEF PushConfirm, Step, machineVars, TypeOK, Between, EntryAccepts
  <2> QED BY <1>2, <1>h, <1>5, <2>1, <2>2 DEF KeptOK, Based
<1>16. CASE PushHead(m)
  <2>1. pc'[m] = ("readback") /\ job'[m] = [job[m] EXCEPT !.expected = job[m].rev]
    <3>1. Go(m, "readback", [job[m] EXCEPT !.expected = job[m].rev])
      BY <1>16 DEF PushHead, Step
    <3> QED BY <1>1, <3>1, GoEffect
  <2>2. job'[m].stage = job[m].stage /\ job'[m].mode = job[m].mode /\ job'[m].sourceOnly = job[m].sourceOnly
    BY <1>1, <2>1, JobFields
  <2>3. UNCHANGED <<live, ws, marker, provider>> /\ pc[m] = "publish" /\ head' = job[m].rev
    BY <1>16 DEF PushHead, machineVars
  <2>4. ~Based(m)'
    BY <2>3 DEF FreshOK, Based
  <2> QED BY <2>1, <2>2, <2>3, <2>4 DEF KeptOK, Based
<1>17. CASE PushRecord(m)
  <2>1. pc'[m] = ("clear") /\ job'[m] = Finishing(m)
    <3>1. Go(m, "clear", Finishing(m))
      BY <1>17 DEF PushRecord, Step
    <3> QED BY <1>1, <3>1, GoEffect
  <2>2. job'[m].mode = job[m].mode
    BY <2>1 DEF Finishing, NoJob
  <2>3. UNCHANGED <<live, ws, marker>> /\ pc[m] = "readback"
    BY <1>17 DEF PushRecord
  <2> QED BY <1>2, <1>h, <1>5, <2>1, <2>2, <2>3 DEF KeptOK, Based
<1>18. CASE PullFetch(m)
  <2>1. pc'[m] = (IF job[m].sourceOnly THEN "install" ELSE "guard") /\ job'[m] = [job[m] EXCEPT !.expected = head, !.stage = HeadTree]
    <3>1. Go(m, IF job[m].sourceOnly THEN "install" ELSE "guard", [job[m] EXCEPT !.expected = head, !.stage = HeadTree])
      BY <1>18 DEF PullFetch, Step
    <3> QED BY <1>1, <3>1, GoEffect
  <2>2. job'[m].mode = job[m].mode /\ job'[m].sourceOnly = job[m].sourceOnly
    BY <1>1, <2>1, JobFields
  <2>3. UNCHANGED <<live, ws, marker, provider>> /\ pc[m] = "pullFetch"
    BY <1>18 DEF PullFetch, machineVars
  <2> QED BY <1>2, <1>h, <2>1, <2>2, <2>3 DEF KeptOK, Based
<1>19. CASE PullGuard(m)
  <2>1. pc'[m] = ("install") /\ job'[m] = [job[m] EXCEPT !.local = live[m]]
    <3>1. Go(m, "install", [job[m] EXCEPT !.local = live[m]])
      BY <1>19 DEF PullGuard, Step
    <3> QED BY <1>1, <3>1, GoEffect
  <2>2. job'[m].stage = job[m].stage /\ job'[m].mode = job[m].mode /\ job'[m].sourceOnly = job[m].sourceOnly
    BY <1>1, <2>1, JobFields
  <2>3. UNCHANGED <<live, ws, marker, provider>> /\ pc[m] = "guard"
    BY <1>19 DEF PullGuard, machineVars
  <2> QED BY <1>2, <1>h, <2>1, <2>2, <2>3 DEF KeptOK, Based
<1>20. CASE PullInstall(m)
  <2>1. pc'[m] = (IF job[m].sourceOnly THEN "record" ELSE "recheck") /\ job'[m] = job[m]
    <3>1. Go(m, IF job[m].sourceOnly THEN "record" ELSE "recheck", job[m])
      BY <1>20 DEF PullInstall, Step
    <3> QED BY <1>1, <3>1, GoEffect
  <2>2. UNCHANGED <<live, marker, provider>> /\ ws'[m] = job[m].stage /\ pc[m] = "install"
    BY <1>1, <1>20 DEF PullInstall, Step, machineVars, TypeOK, Between, EntryAccepts
  <2> QED BY <1>2, <1>h, <1>5, <2>1, <2>2 DEF KeptOK, Based
<1>21. CASE PullRecheck(m)
  <2>1. pc'[m] = ("apply") /\ job'[m] = job[m]
    <3>1. Go(m, "apply", job[m])
      BY <1>21 DEF PullRecheck, Step
    <3> QED BY <1>1, <3>1, GoEffect
  <2>2. UNCHANGED <<live, ws, marker, provider>> /\ pc[m] = "recheck"
    BY <1>1, <1>21 DEF PullRecheck, Step, machineVars, TypeOK, Between, EntryAccepts
  <2> QED BY <1>2, <1>h, <1>5, <2>1, <2>2 DEF KeptOK, Based
<1>22. CASE PullApply(m)
  <2>1. pc'[m] = ("record") /\ job'[m] = job[m]
    <3>1. Go(m, "record", job[m])
      BY <1>22 DEF PullApply, Step
    <3> QED BY <1>1, <3>1, GoEffect
  <2>2. UNCHANGED <<ws, marker, provider>> /\ live'[m] = job[m].stage /\ pc[m] = "apply"
    BY <1>1, <1>22 DEF PullApply, Step, machineVars, TypeOK, Between, EntryAccepts
  <2> QED BY <1>2, <1>h, <1>5, <2>1, <2>2 DEF KeptOK, Based
<1>23. CASE PullRecord(m)
  <2>1. /\ pc'[m] \in {"clear", "mark", "release"} /\ job'[m] = Finishing(m)
        /\ pc'[m] = "clear" <=> ~job[m].sourceOnly
        /\ pc'[m] = "release" => Based(m)
    BY <1>1, <1>23, Recorded DEF Based
  <2>2. job'[m].mode = job[m].mode
    BY <2>1 DEF Finishing, NoJob
  <2>3. UNCHANGED <<live, ws, marker>> /\ pc[m] = "record"
    BY <1>23 DEF PullRecord
  <2> QED BY <1>2, <1>h, <1>5, <2>1, <2>2, <2>3 DEF KeptOK, Based
<1>24. CASE PullMark(m)
  <2>1. pc'[m] = ("release") /\ job'[m] = job[m]
    <3>1. Go(m, "release", job[m])
      BY <1>24 DEF PullMark, Step
    <3> QED BY <1>1, <3>1, GoEffect
  <2>2. UNCHANGED <<live, ws, provider>> /\ marker'[m] /\ pc[m] = "mark"
    BY <1>1, <1>24 DEF PullMark, Step, machineVars, TypeOK, Between, EntryAccepts
  <2> QED BY <1>2, <1>h, <1>5, <2>1, <2>2 DEF KeptOK, Based
<1>25. CASE ClearMarker(m)
  <2>1. pc'[m] = ("syncLocal") /\ job'[m] = job[m]
    <3>1. Go(m, "syncLocal", job[m])
      BY <1>25 DEF ClearMarker, Step
    <3> QED BY <1>1, <3>1, GoEffect
  <2>2. UNCHANGED <<live, ws, provider>> /\ pc[m] = "clear"
    BY <1>1, <1>25 DEF ClearMarker, Step, machineVars, TypeOK, Between, EntryAccepts
  <2> QED BY <1>2, <1>h, <1>5, <2>1, <2>2 DEF KeptOK, Based
<1>26. CASE SyncLocal(m)
  <2>1. pc'[m] = ("syncCloud") /\ job'[m] = [job[m] EXCEPT !.local = live[m]]
    <3>1. Go(m, "syncCloud", [job[m] EXCEPT !.local = live[m]])
      BY <1>26 DEF SyncLocal, Step
    <3> QED BY <1>1, <3>1, GoEffect
  <2>2. job'[m].stage = job[m].stage /\ job'[m].mode = job[m].mode /\ job'[m].sourceOnly = job[m].sourceOnly
    BY <1>1, <2>1, JobFields
  <2>3. UNCHANGED <<live, ws, marker, provider>> /\ pc[m] = "syncLocal"
    BY <1>26 DEF SyncLocal, machineVars
  <2> QED BY <1>2, <1>h, <2>1, <2>2, <2>3 DEF KeptOK, Based
<1>27. CASE SyncCloud(m)
  <2>1. pc'[m] = ("release") /\ job'[m] = job[m]
    <3>1. Go(m, "release", job[m])
      BY <1>27 DEF SyncCloud, Step
    <3> QED BY <1>1, <3>1, GoEffect
  <2>2. UNCHANGED <<live, ws, marker, provider>> /\ pc[m] = "syncCloud"
    BY <1>1, <1>27 DEF SyncCloud, Step, machineVars, TypeOK, Between, EntryAccepts
  <2> QED BY <1>2, <1>h, <1>5, <2>1, <2>2 DEF KeptOK, Based
<1>28. CASE Release(m)
  <2>1. pc'[m] = ("idle") /\ job'[m] = NoJob
    <3>1. Go(m, "idle", NoJob)
      BY <1>28 DEF Release, Step
    <3> QED BY <1>1, <3>1, GoEffect
  <2>2. UNCHANGED <<live, ws, marker, provider>> /\ pc[m] = "release"
    BY <1>1, <1>28 DEF Release, Step, machineVars, TypeOK, Between, EntryAccepts
  <2> QED BY <1>2, <1>h, <1>5, <2>1, <2>2 DEF KeptOK, Based, NoJob
<1>29. CASE Fail(m)
  <2>1. pc'[m] = "idle"
    <3>1. Go(m, "idle", NoJob)
      BY <1>29 DEF Fail
    <3> QED BY <1>1, <3>1, GoEffect
  <2>2. UNCHANGED <<live, ws, marker, provider>> /\ (pc[m] = "mark" => HeadTree \subseteq Excused')
    BY <1>29 DEF Fail, machineVars, Excused
  <2>3. head' = head /\ HeadTree' = HeadTree
    BY <1>29 DEF Fail, storeVars, HeadTree, TreeOf
  <2> QED BY <1>2, <2>1, <2>2, <2>3 DEF KeptOK, Based
<1>30. CASE WorkerDecide(m)
  <2>1. UNCHANGED <<live, ws, marker, provider, pc, job>>
    BY <1>30 DEF WorkerDecide, machineVars, Decide
  <2>2. head' = head /\ HeadTree' = HeadTree
    BY <1>30 DEF WorkerDecide, storeVars, HeadTree, TreeOf, Decide
  <2> QED BY <1>2, <2>1, <2>2 DEF KeptOK, Based
<1>31. CASE WorkerStop(m)
  <2>1. UNCHANGED <<live, ws, marker, provider, pc, job>>
    BY <1>31 DEF WorkerStop, machineVars, Decide
  <2>2. head' = head /\ HeadTree' = HeadTree
    BY <1>31 DEF WorkerStop, storeVars, HeadTree, TreeOf, Decide
  <2> QED BY <1>2, <2>1, <2>2 DEF KeptOK, Based
<1>32. CASE WorkerRun(m)
  <2>1. pc'[m] = "entry" /\ pc[m] = "idle"
    BY <1>1, <1>32 DEF WorkerRun, Start, Go, TypeOK
  <2>2. UNCHANGED <<live, ws, marker, provider>>
    BY <1>32 DEF WorkerRun, Start, machineVars
  <2> QED BY <1>2, <1>h, <2>1, <2>2 DEF KeptOK, Based
<1>33. CASE ManualPush(m)
  <2>1. pc'[m] = "entry" /\ pc[m] = "idle"
    BY <1>1, <1>33 DEF ManualPush, Start, Go, TypeOK
  <2>2. UNCHANGED <<live, ws, marker, provider>>
    BY <1>33 DEF ManualPush, Start, machineVars
  <2> QED BY <1>2, <1>h, <2>1, <2>2 DEF KeptOK, Based
<1>34. CASE ManualPull(m)
  <2>1. pc'[m] = "entry" /\ pc[m] = "idle"
    BY <1>1, <1>34 DEF ManualPull, Start, Go, TypeOK
  <2>2. UNCHANGED <<live, ws, marker, provider>>
    BY <1>34 DEF ManualPull, Start, machineVars
  <2> QED BY <1>2, <1>h, <2>1, <2>2 DEF KeptOK, Based
<1>35. CASE Acknowledge(m)
  <2>1. UNCHANGED <<pc, job, marker>> /\ pc[m] = "idle"
    BY <1>35 DEF Acknowledge, Resolving
  <2>2. UNCHANGED <<live, ws>> /\ HeadTree \subseteq Excused'
    BY <1>35 DEF Acknowledge, Excused
  <2> QED BY <1>2, <1>h, <2>1, <2>2 DEF KeptOK, Based
<1>36. CASE MergeTarget(m)
  <2>1. UNCHANGED <<pc, job, marker>> /\ pc[m] = "idle"
    BY <1>36 DEF MergeTarget, Resolving
  <2>2. UNCHANGED provider /\ live[m] \subseteq live'[m] /\ ws[m] \subseteq ws'[m]
    BY <1>1, <1>36 DEF MergeTarget, Resolving, TypeOK
  <2> QED BY <1>2, <1>h, <2>1, <2>2 DEF KeptOK, Based
<1>37. CASE MergeAll(m)
  <2>1. UNCHANGED <<pc, job, marker>> /\ pc[m] = "idle"
    BY <1>37 DEF MergeAll, Resolving
  <2>2. UNCHANGED provider /\ live[m] \subseteq live'[m] /\ ws[m] \subseteq ws'[m]
    BY <1>1, <1>37 DEF MergeAll, Resolving, TypeOK
  <2> QED BY <1>2, <1>h, <2>1, <2>2 DEF KeptOK, Based
<1>38. CASE ForceTarget(m)
  <2>1. UNCHANGED <<pc, job, marker>> /\ pc[m] = "idle"
    BY <1>38 DEF ForceTarget, Resolving
  <2>2. PICK x \in Edits : live' = [live EXCEPT ![m] = (@ \ {x}) \cup (ws[m] \cap {x})]
    BY <1>38 DEF ForceTarget
  <2>3. UNCHANGED <<provider, ws>> /\ live'[m] = (live[m] \ {x}) \cup (ws[m] \cap {x})
    BY <1>1, <1>38, <2>2 DEF ForceTarget, Resolving, TypeOK
  <2>4. Based(m) /\ (marker[m] \/ HeadTree \subseteq live[m] \cup Excused) =>
          marker[m] \/ HeadTree \subseteq live'[m] \cup Excused
    BY <2>3 DEF KeptOK
  <2> QED BY <1>2, <1>h, <2>1, <2>3, <2>4 DEF KeptOK, Based
<1>39. CASE PushCapturePart(m)
  <2>1. pc'[m] = ("failed") /\ job'[m] = job[m]
    <3>1. Go(m, "failed", job[m])
      BY <1>39 DEF PushCapturePart, Step
    <3> QED BY <1>1, <3>1, GoEffect
  <2>2. UNCHANGED <<live, marker, provider>> /\ ws[m] \cap live[m] \subseteq ws'[m] /\ pc[m] = "capture"
    BY <1>1, <1>39 DEF PushCapturePart, Step, machineVars, TypeOK, Between, EntryAccepts
  <2> QED BY <1>2, <1>h, <1>5, <2>1, <2>2 DEF KeptOK, Based
<1>40. CASE PullApplyPart(m)
  <2>1. pc'[m] = ("failed") /\ job'[m] = job[m]
    <3>1. Go(m, "failed", job[m])
      BY <1>40 DEF PullApplyPart, Step
    <3> QED BY <1>1, <3>1, GoEffect
  <2>2. UNCHANGED <<ws, marker, provider>> /\ live[m] \cap job[m].stage \subseteq live'[m] /\ pc[m] = "apply"
    BY <1>1, <1>40 DEF PullApplyPart, Step, machineVars, TypeOK, Between, EntryAccepts
  <2> QED BY <1>2, <1>h, <1>5, <2>1, <2>2 DEF KeptOK, Based
<1>41. CASE Crash(m)
  <2>1. pc'[m] = "idle"
    <3>1. Go(m, "idle", NoJob)
      BY <1>41 DEF Crash
    <3> QED BY <1>1, <3>1, GoEffect
  <2>2. UNCHANGED <<live, ws, marker, provider>> /\ (pc[m] = "mark" => HeadTree \subseteq Excused')
    BY <1>41 DEF Crash, machineVars, Excused
  <2>3. head' = head /\ HeadTree' = HeadTree
    BY <1>41 DEF Crash, storeVars, HeadTree, TreeOf
  <2> QED BY <1>2, <2>1, <2>2, <2>3 DEF KeptOK, Based
<1>42. CASE RemoveLocks(m)
  <2>1. UNCHANGED <<live, ws, marker, provider, pc, job>>
    BY <1>42 DEF RemoveLocks, machineVars, Decide
  <2>2. head' = head /\ HeadTree' = HeadTree
    BY <1>42 DEF RemoveLocks, storeVars, HeadTree, TreeOf, Decide
  <2> QED BY <1>2, <2>1, <2>2 DEF KeptOK, Based
<1>43. ASSUME NEW x \in Edits, Edit(m, x) PROVE KeptOK(m)'
  <2>1. UNCHANGED <<ws, marker, provider, pc, job>> /\ live[m] \subseteq live'[m]
    BY <1>1, <1>43 DEF Edit, TypeOK
  <2>2. head' = head /\ HeadTree' = HeadTree
    BY <1>43 DEF Edit, storeVars, HeadTree, TreeOf
  <2> QED BY <1>2, <2>1, <2>2 DEF KeptOK, Based
<1> QED
  BY <1>10, <1>11, <1>12, <1>13, <1>14, <1>15, <1>16, <1>17, <1>18, <1>19,
     <1>20, <1>21, <1>22, <1>23, <1>24, <1>25, <1>26, <1>27, <1>28, <1>29,
     <1>30, <1>31, <1>32, <1>33, <1>34, <1>35, <1>36, <1>37, <1>38, <1>39,
     <1>40, <1>41, <1>42, <1>43
     DEF Does, Transport, Worker, People, Accident

\* Nothing has been published at the start.
LEMMA PubInit == Init => PubInv
<1> SUFFICES ASSUME Init, NEW m \in Machines PROVE FreshOK(m) /\ KeptOK(m)
  BY DEF PubInv
<1>1. provider[m] = None /\ pc[m] = "idle"
  BY DEF Init
<1> QED BY <1>1 DEF FreshOK, KeptOK, Based

\* Where published edits are is inductive.
LEMMA PubKeeps == IInv /\ PubInv /\ [Next]_vars => PubInv'
<1> SUFFICES ASSUME IInv, PubInv, [Next]_vars PROVE PubInv' OBVIOUS
<1>1. CASE Next
  <2>1. PICK m \in Machines : Does(m)
    BY <1>1, NextDoes
  <2>2. Kind' = Kind
    BY <2>1, MachineStep DEF Effect, Kind
  <2>3. SUFFICES ASSUME Kind = "local", NEW n \in Machines PROVE FreshOK(n)' /\ KeptOK(n)'
    BY <2>2 DEF PubInv
  <2>4. \A i \in Machines : FreshOK(i) /\ KeptOK(i)
    BY <2>3 DEF PubInv
  <2>5. FreshOK(n)'
    BY <2>1, <2>3, <2>4, FreshStep
  <2>6. CASE n = m
    BY <2>1, <2>3, <2>4, <2>5, <2>6, KeptStep
  <2>7. CASE n # m
    BY <2>1, <2>3, <2>4, <2>5, <2>7, KeptOthers
  <2> QED BY <2>5, <2>6, <2>7
<1>2. CASE UNCHANGED vars
  BY <1>2 DEF vars, storeVars, machineVars, history, PubInv, FreshOK, KeptOK, Based, Excused,
              Kind, HeadTree, TreeOf
<1> QED BY <1>1, <1>2

\* No publication on a local store drops an edit that HEAD had, unless HEAD was
\* acknowledged without a pull or a source-only pull was cut before its marker.
THEOREM PublishedIsKept == Spec => KeepsPublished
<1> DEFINE Holds == Kind = "local" /\ head' # head => HeadTree \subseteq HeadTree' \cup acked \cup cut
<1>1. IInv /\ PubInv /\ [Next]_vars => [Holds]_vars
  <2> SUFFICES ASSUME IInv, PubInv, Next, Kind = "local", head' # head
               PROVE  HeadTree \subseteq HeadTree' \cup acked \cup cut
    BY DEF vars, storeVars
  <2>1. PICK m \in Machines : Does(m)
    BY NextDoes
  <2>2. pc[m] = "publish" /\ HeadTree' = job[m].stage
    BY <2>1, HeadMoves
  <2>3. HeadTree \subseteq job[m].stage \cup Excused
    BY <2>2 DEF PubInv, KeptOK
  <2> QED BY <2>2, <2>3 DEF Excused
<1>2. Spec => []PubInv
  <2>1. Init => PubInv
    BY PubInit
  <2>2. IInv /\ PubInv /\ [Next]_vars => PubInv'
    BY PubKeeps
  <2> QED BY <2>1, <2>2, Inductive, PTL DEF Spec
<1>3. Spec => [][Holds]_vars
  BY <1>1, <1>2, Inductive, PTL DEF Spec
<1> QED BY <1>3 DEF KeepsPublished

=============================================================================
