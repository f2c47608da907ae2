---------------------------- MODULE SyncTransport ----------------------------
(***************************************************************************)
(* Push, pull, source-only pull, acknowledge and the automatic worker of   *)
(* several machines that share a revision store (providers "local" and     *)
(* "rclone"): scripts/sync-transport-main.nu, modules/sync-provider.nu,    *)
(* modules/sync-local-guard.nu, update-sync-state.nu, auto-sync-worker.nu. *)
(*                                                                         *)
(* A tree is the set of edits it contains, so "a change was lost" is a set *)
(* difference; beside them it carries the stamp (.dotfiles-sync-meta.nuon) *)
(* every push writes anew, so no two published trees hash alike and the    *)
(* hash of HEAD's tree is as good as its number.  One operation runs       *)
(* per machine at a time (operation.lock); each phase of the transport     *)
(* that reads or writes shared files is a step, and edits, other machines, *)
(* crashes and failures fall between the steps.                            *)
(***************************************************************************)
EXTENDS Integers, Sequences, FiniteSets

CONSTANTS Machines,    \* machines sharing one store
          NoMachine,   \* nobody holds the store lock
          Edits,       \* bound: configuration changes people make
          None,        \* a state file that does not exist
          Settings,    \* ways the machines are set up and used, a set of records, see below
          MaxRevs,     \* bound: revisions uploaded
          MaxCrashes   \* bound: machines stopped in the middle

\* kind      "local" (cooperative store lock) or "rclone" (none)
\* policy    sync.conflict_policy of every machine
\* manual    machines where people run commands, and commands says which
\* setUp     machines whose setup has initialised sync-state.nuon
\* edits     bound: configuration changes people make
\* racy      people edit while an operation runs on their machine
\* faults    phases fail for reasons of their own (I/O, tools), machines stop
ASSUME SettingAssumption ==
  \A s \in Settings : /\ s.kind \in {"local", "rclone"}
                      /\ s.policy \in {"stop", "prefer_local", "prefer_cloud"}
                      /\ s.manual \cup s.setUp \subseteq Machines
                      /\ s.commands \subseteq {"push", "pull", "resolve", "acknowledge"}
                      /\ s.edits \in Nat /\ {s.racy, s.faults} \subseteq BOOLEAN
ASSUME MachineAssumption == NoMachine \notin Machines
ASSUME BoundAssumption == MaxRevs \in Nat /\ MaxCrashes \in Nat

VARIABLES setting,    \* chosen once
          revisions,  \* revisions/<id>: tree and parent, in upload order
          head,       \* HEAD.nuon: the published revision, 0 before the first
          storeLock,  \* <remote>/.initial-setup-write.lock
          live,       \* live configuration of each machine
          ws,         \* its private workspace (data_root)
          stamp,      \* .dotfiles-sync-meta.nuon in it: of the revision that has it,
                      \* below 0 of a capture not uploaded, 0 without one
          provider,   \* provider-state.nuon: baseline revision, tree, workspace and its stamp
          marker,     \* source-only-pending marker
          sync,       \* sync-state.nuon: live and cloud fingerprints
          conflict,   \* SYNC-CONFLICT.txt
          opLock,     \* operation.lock
          pc, job,    \* phase of the running operation and its locals
          worker,     \* what the automatic worker has decided to do
          when,       \* history: each edit not made yet, or made while no operation,
                      \* a pull past its last check, or another phase ran there
          published,  \* history: edits that have been in HEAD
          acked,      \* history: published edits acknowledged without a pull
          cut,        \* history: published edits whose source-only pull stopped
                      \* between recording the baseline and marking it
          crashes

storeVars == <<revisions, head>>
machineVars == <<live, ws, stamp, provider, marker, sync, conflict>>
history == <<when, published, acked, cut, crashes>>
vars == <<setting, storeVars, storeLock, machineVars, opLock, pc, job, worker, history>>

Kind == setting.kind
Faults == setting.faults
Tree == SUBSET Edits
TreeOf(r) == IF r = 0 THEN {} ELSE revisions[r].tree
HeadTree == TreeOf(head)
\* The cloud fingerprint: the tree hash of HEAD, which its stamp makes as
\* distinct as its number; empty (0) without a HEAD.
CloudHash == head
\* What record-provider-state saves of HEAD and of the workspace.
BaselineNow(m) == [rev |-> head, tree |-> HeadTree, source |-> ws[m], stamp |-> stamp[m]]

NoJob == [action |-> "none", mode |-> "auto", discard |-> FALSE, discardSource |-> FALSE, sourceOnly |-> FALSE,
          expected |-> 0, rev |-> 0, stage |-> {}, local |-> {}, onFail |-> FALSE]
NoPlan == [act |-> "none", local |-> {}, cloud |-> 0, both |-> FALSE]

Init ==
  /\ setting \in Settings
  /\ revisions = <<>> /\ head = 0 /\ storeLock = NoMachine
  /\ live = [m \in Machines |-> {}]
  /\ ws = [m \in Machines |-> {}] /\ stamp = [m \in Machines |-> 0]
  /\ provider = [m \in Machines |-> None]
  /\ marker = [m \in Machines |-> FALSE]
  /\ sync = [m \in Machines |-> IF m \in setting.setUp THEN [local |-> {}, cloud |-> 0] ELSE None]
  /\ conflict = [m \in Machines |-> FALSE]
  /\ opLock = [m \in Machines |-> FALSE]
  /\ pc = [m \in Machines |-> "idle"]
  /\ job = [m \in Machines |-> NoJob]
  /\ worker = [m \in Machines |-> NoPlan]
  /\ when = [e \in Edits |-> "never"] /\ published = {} /\ acked = {} /\ cut = {} /\ crashes = 0

\* assert-same-head; expected-push-head for a revision store.
SameHead(m) == head = job[m].expected
BaselineIsHead(m) ==
  IF provider[m] = None THEN head = 0
                        ELSE provider[m].rev = head /\ provider[m].tree = HeadTree
\* assert-source-only-reconciled: automatic pushes never pass a marker, manual
\* ones only when live files equal the source, local-wins always.
Reconciled(m) ==
  marker[m] => \/ job[m].mode = "localWins"
               \/ job[m].mode = "manual" /\ live[m] = ws[m]
\* guard-pull-local and assert-local-unchanged.
LocalChanged(m) == sync[m] # None /\ sync[m].local # live[m]
\* Workspace content that is neither the last known one nor the one fetched.
Unpublished(m) ==
  <<ws[m], stamp[m]>> \notin
    {<<{}, 0>>, <<HeadTree, head>>} \cup
    (IF provider[m] = None THEN {} ELSE {<<provider[m].source, provider[m].stamp>>})

Go(m, label, locals) ==
  /\ pc' = [pc EXCEPT ![m] = label]
  /\ job' = [job EXCEPT ![m] = locals]
\* What the last phases of an operation still use.
Finishing(m) == [NoJob EXCEPT !.mode = job[m].mode, !.onFail = job[m].onFail]
Step(m, from, to) == pc[m] = from /\ Go(m, to, job[m])

-----------------------------------------------------------------------------
(* The start of an operation: the entry script, operation.lock, the store lock *)

Start(m, locals) ==
  /\ pc[m] = "idle"
  /\ Go(m, "entry", locals)
  /\ UNCHANGED <<storeVars, storeLock, machineVars, opLock>>

\* dotpush; dotresolve choice 3 runs the push with --local-wins.
ManualPush(m) ==
  /\ m \in setting.manual /\ "push" \in setting.commands
  /\ \E mode \in {"manual", "localWins"} : Start(m, [NoJob EXCEPT !.action = "push", !.mode = mode])
  /\ UNCHANGED <<worker, history>>

ManualPull(m) ==
  /\ m \in setting.manual /\ "pull" \in setting.commands
  /\ \E d, s, so \in BOOLEAN :
       /\ so => ~d
       /\ Start(m, [NoJob EXCEPT !.action = "pull", !.mode = "manual", !.discard = d,
                                 !.discardSource = s, !.sourceOnly = so])
  /\ UNCHANGED <<worker, history>>

\* The entry script sync-transport.nu declares every flag of the implementation
\* but --local-wins, so that command line is refused.
EntryAccepts(locals) == locals.mode # "localWins"

Enter(m) ==
  /\ pc[m] = "entry"
  /\ EntryAccepts(job[m]) /\ ~opLock[m]
  /\ opLock' = [opLock EXCEPT ![m] = TRUE]
  /\ Go(m, "lock", job[m])
  /\ UNCHANGED <<storeVars, storeLock, machineVars, worker, history>>

\* Only the local provider has a lock every machine sees.
TakeStore(m) ==
  /\ pc[m] = "lock"
  /\ IF Kind = "local" THEN storeLock = NoMachine /\ storeLock' = m ELSE UNCHANGED storeLock
  /\ Go(m, IF job[m].action = "push" THEN "pushCheck" ELSE "pullFetch", job[m])
  /\ UNCHANGED <<storeVars, machineVars, opLock, worker, history>>

-----------------------------------------------------------------------------
(* Push *)

PushCheck(m) ==
  /\ pc[m] = "pushCheck"
  /\ Reconciled(m) /\ BaselineIsHead(m)
  /\ Go(m, "capture", [job[m] EXCEPT !.expected = head])
  /\ UNCHANGED <<storeVars, storeLock, machineVars, opLock, worker, history>>

\* sync-up-local: the workspace takes over the live configuration, and last
\* write-sync-meta stamps it with a time and a writer no file has had before:
\* neither an uploaded one nor the one the baseline remembers.
PushCapture(m) ==
  /\ Step(m, "capture", "upload")
  /\ ws' = [ws EXCEPT ![m] = live[m]]
  /\ stamp' = [stamp EXCEPT ![m] = IF provider[m] # None /\ provider[m].stamp = -1 THEN -2 ELSE -1]
  /\ UNCHANGED <<storeVars, storeLock, live, provider, marker, sync, conflict, opLock, worker, history>>

\* A tree that took over part of another.
Between(t, old, new) == old \cap new \subseteq t /\ t \subseteq old \cup new

\* One of its captures may fail with the earlier ones in the workspace, and no stamp.
PushCapturePart(m) ==
  /\ Faults
  /\ Step(m, "capture", "failed")
  /\ \E t \in Tree : Between(t, ws[m], live[m]) /\ ws' = [ws EXCEPT ![m] = t]
  /\ UNCHANGED <<storeVars, storeLock, live, stamp, provider, marker, sync, conflict, opLock, worker, history>>

\* The staged snapshot becomes a new immutable revision under an unchanged HEAD.
PushUpload(m) ==
  /\ pc[m] = "upload"
  /\ SameHead(m)
  /\ Len(revisions) < MaxRevs
  /\ revisions' = Append(revisions, [tree |-> ws[m], parent |-> head])
  /\ stamp' = [stamp EXCEPT ![m] = Len(revisions')]
  /\ Go(m, "confirm", [job[m] EXCEPT !.stage = ws[m], !.rev = Len(revisions')])
  /\ UNCHANGED <<head, storeLock, live, ws, provider, marker, sync, conflict, opLock, worker, history>>

PushConfirm(m) ==
  /\ SameHead(m)
  /\ Step(m, "confirm", "publish")
  /\ UNCHANGED <<storeVars, storeLock, machineVars, opLock, worker, history>>

\* HEAD is written without a compare-and-swap.
PushHead(m) ==
  /\ pc[m] = "publish"
  /\ head' = job[m].rev
  /\ Go(m, "readback", [job[m] EXCEPT !.expected = job[m].rev])
  /\ published' = published \cup job[m].stage
  /\ UNCHANGED <<revisions, storeLock, machineVars, opLock, worker, when, acked, cut, crashes>>

\* Mutant: the read-back of HEAD is not compared.
PushRecordUnchecked(m) ==
  /\ pc[m] = "readback"
  /\ provider' = [provider EXCEPT ![m] = BaselineNow(m)]
  /\ Go(m, "clear", Finishing(m))
  /\ UNCHANGED <<storeVars, storeLock, live, ws, stamp, marker, sync, conflict, opLock, worker, history>>

\* Mutant: the store is unlocked before sync-state is written.
PushRecordUnlocks(m) ==
  /\ pc[m] = "readback"
  /\ SameHead(m)
  /\ storeLock' = NoMachine
  /\ provider' = [provider EXCEPT ![m] = BaselineNow(m)]
  /\ Go(m, "clear", Finishing(m))
  /\ UNCHANGED <<storeVars, live, ws, stamp, marker, sync, conflict, opLock, worker, history>>

\* The baseline advances only after HEAD reads back as this push wrote it.
PushRecord(m) ==
  /\ pc[m] = "readback"
  /\ SameHead(m)
  /\ provider' = [provider EXCEPT ![m] = BaselineNow(m)]
  /\ Go(m, "clear", Finishing(m))
  /\ UNCHANGED <<storeVars, storeLock, live, ws, stamp, marker, sync, conflict, opLock, worker, history>>

-----------------------------------------------------------------------------
(* Pull *)

\* HEAD is read, workspace content nobody published stops the pull, and the
\* revision is fetched and verified under the same HEAD.
PullFetch(m) ==
  /\ pc[m] = "pullFetch"
  /\ head # 0
  /\ job[m].discardSource \/ ~Unpublished(m)
  /\ Go(m, IF job[m].sourceOnly THEN "install" ELSE "guard",
        [job[m] EXCEPT !.expected = head, !.stage = HeadTree])
  /\ UNCHANGED <<storeVars, storeLock, machineVars, opLock, worker, history>>

\* Mutant: the live configuration is not compared with the baseline.
PullGuardForced(m) ==
  /\ pc[m] = "guard"
  /\ Go(m, "install", [job[m] EXCEPT !.local = live[m]])
  /\ UNCHANGED <<storeVars, storeLock, machineVars, opLock, worker, history>>

PullGuard(m) ==
  /\ pc[m] = "guard"
  /\ job[m].discard \/ ~LocalChanged(m)
  /\ Go(m, "install", [job[m] EXCEPT !.local = live[m]])
  /\ UNCHANGED <<storeVars, storeLock, machineVars, opLock, worker, history>>

\* install-workspace; a failure inside it puts the old workspace back.
PullInstall(m) ==
  /\ pc[m] = "install"
  /\ job[m].sourceOnly \/ live[m] = job[m].local
  /\ ws' = [ws EXCEPT ![m] = job[m].stage] /\ stamp' = [stamp EXCEPT ![m] = job[m].expected]
  /\ Go(m, IF job[m].sourceOnly THEN "record" ELSE "recheck", job[m])
  /\ UNCHANGED <<storeVars, storeLock, live, provider, marker, sync, conflict, opLock, worker, history>>

PullRecheck(m) ==
  /\ live[m] = job[m].local
  /\ Step(m, "recheck", "apply")
  /\ UNCHANGED <<storeVars, storeLock, machineVars, opLock, worker, history>>

\* sync-down-local replaces the live configuration; it can fail after any part
\* of it has been replaced.
PullApply(m) ==
  /\ Step(m, "apply", "record")
  /\ live' = [live EXCEPT ![m] = job[m].stage]
  /\ UNCHANGED <<storeVars, storeLock, ws, stamp, provider, marker, sync, conflict, opLock, worker, history>>

PullApplyPart(m) ==
  /\ Faults
  /\ Step(m, "apply", "failed")
  /\ \E t \in Tree : Between(t, live[m], job[m].stage) /\ live' = [live EXCEPT ![m] = t]
  /\ UNCHANGED <<storeVars, storeLock, ws, stamp, provider, marker, sync, conflict, opLock, worker, history>>

\* Mutant: a source-only pull records the baseline and owes nothing.
PullRecordUnmarked(m) ==
  /\ pc[m] = "record"
  /\ SameHead(m)
  /\ Go(m, IF job[m].sourceOnly THEN "release" ELSE "clear", Finishing(m))
  /\ provider' = [provider EXCEPT ![m] = BaselineNow(m)]
  /\ UNCHANGED <<storeVars, storeLock, live, ws, stamp, marker, sync, conflict, opLock, worker, history>>

\* The baseline advances if HEAD is still the revision applied; a source-only
\* pull that advances it owes the marker.
PullRecord(m) ==
  /\ pc[m] = "record"
  /\ SameHead(m)
  /\ LET prior == provider[m]
         advanced == IF prior = None THEN TRUE ELSE prior.rev # head \/ prior.tree # HeadTree
     IN Go(m, IF ~job[m].sourceOnly THEN "clear" ELSE IF advanced THEN "mark" ELSE "release",
           Finishing(m))
  /\ provider' = [provider EXCEPT ![m] = BaselineNow(m)]
  /\ UNCHANGED <<storeVars, storeLock, live, ws, stamp, marker, sync, conflict, opLock, worker, history>>

PullMark(m) ==
  /\ Step(m, "mark", "release")
  /\ marker' = [marker EXCEPT ![m] = TRUE]
  /\ UNCHANGED <<storeVars, storeLock, live, ws, stamp, provider, sync, conflict, opLock, worker, history>>

-----------------------------------------------------------------------------
(* The end of a push or a pull: marker, sync-state, locks *)

ClearMarker(m) ==
  /\ Step(m, "clear", "syncLocal")
  /\ marker' = [marker EXCEPT ![m] = FALSE]
  /\ UNCHANGED <<storeVars, storeLock, live, ws, stamp, provider, sync, conflict, opLock, worker, history>>

\* update-sync-state fingerprints the live machine, then the provider, anew.
SyncLocal(m) ==
  /\ pc[m] = "syncLocal"
  /\ Go(m, "syncCloud", [job[m] EXCEPT !.local = live[m]])
  /\ UNCHANGED <<storeVars, storeLock, machineVars, opLock, worker, history>>

SyncCloud(m) ==
  /\ Step(m, "syncCloud", "release")
  /\ sync' = [sync EXCEPT ![m] = [local |-> job[m].local, cloud |-> CloudHash]]
  /\ conflict' = [conflict EXCEPT ![m] = FALSE]
  /\ UNCHANGED <<storeVars, storeLock, live, ws, stamp, provider, marker, opLock, worker, history>>

Unlock(m) ==
  /\ storeLock' = IF storeLock = m THEN NoMachine ELSE storeLock
  /\ opLock' = [opLock EXCEPT ![m] = FALSE]

\* Mutant: only operation.lock is released.
ReleaseKeepsStore(m) ==
  /\ pc[m] = "release"
  /\ Go(m, "idle", NoJob)
  /\ opLock' = [opLock EXCEPT ![m] = FALSE]
  /\ UNCHANGED <<storeVars, storeLock, machineVars, worker, history>>

Release(m) ==
  /\ pc[m] = "release"
  /\ Go(m, "idle", NoJob)
  /\ Unlock(m)
  /\ UNCHANGED <<storeVars, machineVars, worker, history>>

\* What the checks of each phase refuse.
Refused(m) ==
  \/ pc[m] = "entry" /\ (~EntryAccepts(job[m]) \/ opLock[m])
  \/ pc[m] = "lock" /\ Kind = "local" /\ storeLock # NoMachine
  \/ pc[m] = "pushCheck" /\ ~(Reconciled(m) /\ BaselineIsHead(m))
  \/ pc[m] \in {"upload", "confirm", "readback", "record"} /\ ~SameHead(m)
  \/ pc[m] = "pullFetch" /\ (job[m].discardSource \/ ~Unpublished(m) => head = 0)
  \/ pc[m] = "guard" /\ ~job[m].discard /\ LocalChanged(m)
  \/ pc[m] \in {"install", "recheck"} /\ ~job[m].sourceOnly /\ live[m] # job[m].local
  \/ pc[m] = "failed"

\* The failure path releases the locks this operation holds (its store lock is
\* only taken at "lock"); the worker reports a failed pull, and a failed push
\* only if both sides had changed.
Fail(m) ==
  /\ pc[m] # "idle"
  /\ Refused(m) \/ Faults
  /\ Go(m, "idle", NoJob)
  /\ IF pc[m] = "entry" THEN UNCHANGED <<storeLock, opLock>>
     ELSE IF pc[m] = "lock" THEN opLock' = [opLock EXCEPT ![m] = FALSE] /\ UNCHANGED storeLock
     ELSE Unlock(m)
  /\ conflict' = [conflict EXCEPT ![m] = @ \/ job[m].onFail]
  /\ cut' = cut \cup IF pc[m] = "mark" THEN HeadTree ELSE {}
  /\ UNCHANGED <<storeVars, live, ws, stamp, provider, marker, sync, worker, when, published, acked, crashes>>

\* A crash leaves the lock files behind...
Crash(m) ==
  /\ pc[m] # "idle"
  /\ Faults /\ crashes < MaxCrashes
  /\ crashes' = crashes + 1
  /\ Go(m, "idle", NoJob)
  /\ cut' = cut \cup IF pc[m] = "mark" THEN HeadTree ELSE {}
  /\ UNCHANGED <<storeVars, storeLock, machineVars, opLock, worker, when, published, acked>>

\* Mutant: the store lock goes too, whoever holds it.
RemoveLocksAny(m) ==
  /\ pc[m] = "idle"
  /\ opLock[m] \/ storeLock = m
  /\ storeLock' = NoMachine
  /\ opLock' = [opLock EXCEPT ![m] = FALSE]
  /\ UNCHANGED <<storeVars, machineVars, pc, job, worker, history>>

\* ...until somebody who has checked that nothing runs removes them.
RemoveLocks(m) ==
  /\ pc[m] = "idle"
  /\ opLock[m] \/ storeLock = m
  /\ Unlock(m)
  /\ UNCHANGED <<storeVars, machineVars, pc, job, worker, history>>

-----------------------------------------------------------------------------
(* Other commands and people *)

\* Mutant: an empty store is acknowledged.
AcknowledgeEmpty(m) ==
  /\ m \in setting.manual /\ "acknowledge" \in setting.commands
  /\ pc[m] = "idle" /\ ~opLock[m]
  /\ provider' = [provider EXCEPT ![m] = BaselineNow(m)]
  /\ acked' = acked \cup HeadTree
  /\ UNCHANGED <<storeVars, storeLock, live, ws, stamp, marker, sync, conflict, opLock, pc, job, worker,
                 when, published, cut, crashes>>

\* dotbackend acknowledge --expected <head>: the reviewed HEAD becomes the baseline.
Acknowledge(m) ==
  /\ m \in setting.manual /\ "acknowledge" \in setting.commands
  /\ pc[m] = "idle" /\ ~opLock[m] /\ head # 0
  /\ provider' = [provider EXCEPT ![m] = BaselineNow(m)]
  /\ acked' = acked \cup HeadTree
  /\ UNCHANGED <<storeVars, storeLock, live, ws, stamp, marker, sync, conflict, opLock, pc, job, worker,
                 when, published, cut, crashes>>

\* guarded-resolve: both locks and the trusted baseline, then the action.
Resolving(m) ==
  /\ m \in setting.manual /\ "resolve" \in setting.commands
  /\ pc[m] = "idle" /\ ~opLock[m]
  /\ Kind = "local" => storeLock = NoMachine
  /\ BaselineIsHead(m)
  /\ UNCHANGED <<storeVars, storeLock, stamp, provider, marker, sync, conflict, opLock, pc, job, worker, history>>

\* dotresolve, choice 1: one target is merged into the workspace and applied.
MergeTarget(m) ==
  /\ Resolving(m)
  /\ \E e \in Edits :
       /\ ws' = [ws EXCEPT ![m] = @ \cup (live[m] \cap {e})]
       /\ live' = [live EXCEPT ![m] = @ \cup (ws[m] \cap {e})]

\* Choice 2: everything is merged into the workspace, nothing is applied.
MergeAll(m) ==
  /\ Resolving(m)
  /\ ws' = [ws EXCEPT ![m] = @ \cup live[m]]
  /\ UNCHANGED live

\* Choice 6: one target is taken from the workspace by force.
ForceTarget(m) ==
  /\ Resolving(m)
  /\ \E e \in Edits : live' = [live EXCEPT ![m] = (@ \ {e}) \cup (ws[m] \cap {e})]
  /\ UNCHANGED ws

Edit(m, e) ==
  /\ when[e] = "never"
  /\ Cardinality({f \in Edits : when[f] # "never"}) < setting.edits
  /\ setting.racy \/ pc[m] = "idle"
  /\ when' = [when EXCEPT ![e] = IF pc[m] \in {"idle", "apply"} THEN pc[m] ELSE "busy"]
  /\ live' = [live EXCEPT ![m] = @ \cup {e}]
  /\ UNCHANGED <<storeVars, storeLock, ws, stamp, provider, marker, sync, conflict, opLock, pc, job, worker,
                 published, acked, cut, crashes>>

-----------------------------------------------------------------------------
(* The automatic worker: it decides without any lock but its own auto-sync.lock *)
(* (whose ten-minute takeover is left out), waits, looks again                *)

CloudChanged(m) == sync[m].cloud # CloudHash

Decide(m, act, both) ==
  worker' = [worker EXCEPT ![m] = [act |-> act, local |-> live[m], cloud |-> CloudHash, both |-> both]]

WorkerDecide(m) ==
  /\ worker[m].act = "none" /\ sync[m] # None
  /\ pc[m] # "idle" => job[m].mode # "auto"
  /\ \/ LocalChanged(m) /\ CloudChanged(m)
        /\ \/ setting.policy = "stop" /\ conflict' = [conflict EXCEPT ![m] = TRUE] /\ UNCHANGED worker
           \/ setting.policy = "prefer_local" /\ Decide(m, "push", TRUE) /\ UNCHANGED conflict
           \/ setting.policy = "prefer_cloud" /\ Decide(m, "pull", TRUE) /\ UNCHANGED conflict
     \/ LocalChanged(m) /\ ~CloudChanged(m) /\ Decide(m, "push", FALSE) /\ UNCHANGED conflict
     \/ ~LocalChanged(m) /\ CloudChanged(m) /\ Decide(m, "pull", FALSE) /\ UNCHANGED conflict
  /\ UNCHANGED <<storeVars, storeLock, live, ws, stamp, provider, marker, sync, opLock, pc, job, history>>

\* After the stability delay a side that moved meanwhile stops the cycle.
Unsettled(m) ==
  /\ ~worker[m].both
  /\ \/ CloudHash # worker[m].cloud
     \/ worker[m].act = "pull" /\ live[m] # worker[m].local

WorkerStop(m) ==
  /\ worker[m].act # "none" /\ Unsettled(m)
  /\ worker' = [worker EXCEPT ![m] = NoPlan]
  /\ conflict' = [conflict EXCEPT ![m] = @ \/ worker[m].act = "push" \/ CloudHash = worker[m].cloud]
  /\ UNCHANGED <<storeVars, storeLock, live, ws, stamp, provider, marker, sync, opLock, pc, job, history>>

WorkerRun(m) ==
  /\ worker[m].act # "none" /\ ~Unsettled(m)
  /\ Start(m, [NoJob EXCEPT !.action = worker[m].act,
                            !.onFail = worker[m].act = "pull" \/ worker[m].both])
  /\ worker' = [worker EXCEPT ![m] = NoPlan]
  /\ UNCHANGED history

-----------------------------------------------------------------------------
Transport(m) ==
  /\ UNCHANGED setting
  /\ \/ Enter(m) \/ TakeStore(m)
     \/ PushCheck(m) \/ PushCapture(m) \/ PushUpload(m) \/ PushConfirm(m) \/ PushHead(m) \/ PushRecord(m)
     \/ PullFetch(m) \/ PullGuard(m) \/ PullInstall(m) \/ PullRecheck(m) \/ PullApply(m)
     \/ PullRecord(m) \/ PullMark(m)
     \/ ClearMarker(m) \/ SyncLocal(m) \/ SyncCloud(m) \/ Release(m)
     \/ Fail(m)

Worker(m) == UNCHANGED setting /\ (WorkerDecide(m) \/ WorkerStop(m) \/ WorkerRun(m))

People(m) ==
  \/ ManualPush(m) \/ ManualPull(m) \/ Acknowledge(m)
  \/ MergeTarget(m) \/ MergeAll(m) \/ ForceTarget(m)

Accident(m) == PushCapturePart(m) \/ PullApplyPart(m) \/ Crash(m) \/ RemoveLocks(m)

Next ==
  \E m \in Machines :
    \/ Transport(m) \/ Worker(m)
    \/ (People(m) \/ Accident(m) \/ \E e \in Edits : Edit(m, e)) /\ UNCHANGED setting

Spec == Init /\ [][Next]_vars
\* A started operation runs on, and the scheduler keeps starting the worker.
FairSpec == Spec /\ \A m \in Machines : WF_vars(Transport(m)) /\ WF_vars(Worker(m))

-----------------------------------------------------------------------------
Fingerprints == {None} \cup [local : Tree, cloud : 0..MaxRevs]
Stamps == -2..MaxRevs
Baselines == {None} \cup [rev : 1..MaxRevs, tree : Tree, source : Tree, stamp : Stamps]
Revisions == [tree : Tree, parent : 0..MaxRevs]
Phases == {"idle", "entry", "lock", "pushCheck", "capture", "upload", "confirm", "publish", "readback",
           "pullFetch", "guard", "install", "recheck", "apply", "record", "mark", "clear",
           "syncLocal", "syncCloud", "release", "failed"}
Jobs == [action : {"none", "push", "pull"}, mode : {"auto", "manual", "localWins"},
         discard : BOOLEAN, discardSource : BOOLEAN, sourceOnly : BOOLEAN,
         expected : 0..MaxRevs, rev : 0..MaxRevs, stage : Tree, local : Tree, onFail : BOOLEAN]
Plans == [act : {"none", "push", "pull"}, local : Tree, cloud : 0..MaxRevs, both : BOOLEAN]

\* Every state file holds what its writer puts there, and HEAD names an
\* uploaded revision.
TypeOK ==
  /\ setting \in Settings
  /\ revisions \in Seq(Revisions) /\ Len(revisions) <= MaxRevs
  /\ head \in 0..Len(revisions)
  /\ storeLock \in Machines \cup {NoMachine}
  /\ live \in [Machines -> Tree] /\ ws \in [Machines -> Tree] /\ stamp \in [Machines -> Stamps]
  /\ provider \in [Machines -> Baselines]
  /\ marker \in [Machines -> BOOLEAN] /\ conflict \in [Machines -> BOOLEAN]
  /\ sync \in [Machines -> Fingerprints]
  /\ opLock \in [Machines -> BOOLEAN]
  /\ pc \in [Machines -> Phases] /\ job \in [Machines -> Jobs]
  /\ worker \in [Machines -> Plans]
  /\ when \in [Edits -> {"never", "idle", "apply", "busy"}]
  /\ {published, acked, cut} \subseteq Tree
  /\ crashes \in 0..MaxCrashes

\* Store lock (remote-lock): on a local store the HEAD an operation decided on
\* is still HEAD at each of its later phases, so no check made under the lock is
\* stale when it is used.
Deciding == {"capture", "upload", "confirm", "publish", "readback", "guard", "install", "recheck",
             "apply", "record"}
HeadHeld == Kind = "local" => \A m \in Machines : pc[m] \in Deciding => SameHead(m)

\* On a local store nothing published is dropped by a later publication (expected-push-head,
\* assert-source-only-reconciled), unless somebody acknowledged HEAD without
\* pulling it or a source-only pull was cut before its marker was written.
KeepsPublished ==
  [][Kind = "local" /\ head' # head => HeadTree \subseteq HeadTree' \cup acked \cup cut]_vars

\* guard-pull-local and assert-local-unchanged: a pull nobody allowed to discard
\* local changes takes from the live configuration only edits that were
\* published, or made while an operation ran on that machine.
Drops(m) == IF live'[m] = live[m] THEN {} ELSE live[m] \ live'[m]
Guarded(m) == pc[m] = "apply" /\ ~job[m].discard /\ sync[m] # None
MadeIn(moments) == {e \in Edits : when[e] \in moments}
PullKeepsEdits ==
  [][\A m \in Machines : Guarded(m) => Drops(m) \subseteq published \cup MadeIn({"apply", "busy"})]_vars

\* The same, but only an edit made after the pull's last check may go.
NoSilentWinner ==
  [][\A m \in Machines : Guarded(m) => Drops(m) \subseteq published \cup MadeIn({"apply"})]_vars

\* record-provider-state after assert-same-head or the read-back: the recorded
\* baseline is the tree this operation itself published or fetched, although
\* another machine may have moved HEAD meanwhile.
BaselineIsOwn ==
  [][\A m \in Machines :
       pc[m] \in {"readback", "record"} /\ provider'[m] # provider[m] => provider'[m].tree = job[m].stage]_vars

\* update-sync-state: the cloud fingerprint the worker compares with is that of
\* the baseline recorded by the same operation, so a later publication is noticed.
NoticesNewHead ==
  [][Kind = "local" =>
       \A m \in Machines : sync'[m] # sync[m] => sync'[m].cloud = provider[m].rev]_vars

\* The worker alone brings every machine to HEAD, or says that somebody must
\* decide (SYNC-CONFLICT.txt).
Converges == <>[](\A m \in Machines : live[m] = HeadTree \/ conflict[m])

=============================================================================
