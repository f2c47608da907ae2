----------------------------- MODULE MCSetupRuns -----------------------------
EXTENDS SetupRuns

Bounds(r, w, f, c, P, s) ==
  [runs |-> r, writes |-> w, faults |-> f, commands |-> c, policies |-> P, snapshots |-> s]

\* One run with everything that can disturb it; two runs one after the other, of either
\* direction, and with a source that changed in between; as many commands as snapshots are
\* kept; and snapshots disabled.
BothDirections == {"push-local", "standard"}
RunLimits == {Bounds(1, 1, 1, 1, Policies, TRUE), Bounds(1, 1, 2, 0, BothDirections, TRUE),
              Bounds(2, 1, 1, 0, {"standard"}, TRUE), Bounds(2, 1, 0, 0, BothDirections, TRUE),
              Bounds(2, 0, 1, 1, {"standard"}, TRUE),
              Bounds(1, 1, 0, 2, {"standard"}, TRUE), Bounds(1, 0, 1, 2, {"standard"}, TRUE),
              Bounds(1, 0, 1, 1, BothDirections, FALSE)}
RestoreLimits == {Bounds(1, 0, 0, 2, Policies, TRUE)}
===============================================================================
