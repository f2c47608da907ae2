--------------------------- MODULE MCSyncTransport ---------------------------
\* Two machines sharing one store; edits are interchangeable.
EXTENDS SyncTransport, TLC

Symmetry == Permutations(Edits)
First == CHOOSE m \in Machines : TRUE
Everything == {"push", "pull", "resolve", "acknowledge"}

\* People run every command on the first machine, whose setup is not finished.
Local == [kind |-> "local", policy |-> "stop", manual |-> {First}, commands |-> Everything,
          setUp |-> Machines \ {First}, edits |-> 2, racy |-> FALSE, faults |-> FALSE]
LocalRacy == [Local EXCEPT !.edits = 1, !.racy = TRUE]
PullFaults == [Local EXCEPT !.commands = {"pull", "resolve"}, !.setUp = Machines, !.edits = 1, !.faults = TRUE]
PushFaults == [PullFaults EXCEPT !.commands = {"push"}]
Rclone == [Local EXCEPT !.kind = "rclone", !.policy = "prefer_cloud", !.commands = {"pull"},
                        !.setUp = Machines]
\* The worker alone.
Unattended == [Local EXCEPT !.policy = "prefer_local", !.manual = {}, !.setUp = Machines]

SafetySettings == {Local, LocalRacy, PullFaults, PushFaults, Rclone}
WorkerSettings == {Unattended}
RacySettings == {[Local EXCEPT !.manual = {}, !.setUp = Machines, !.edits = 3, !.racy = TRUE]}
=============================================================================
