----------------------------- MODULE MCGpudNode -----------------------------
(* Model-checking instance of GpudNode: runs r1 and r2 are gpud login, r3 *)
(* is gpud up --token, r4 gpud join, r5 gpud down, r6 gpud compact and   *)
(* r7 gpud notify shutdown;                                              *)
(* each cfg picks its runs.                                                *)
EXTENDS GpudNode, TLC

CONSTANTS r1, r2, r3, r4, r5, r6, r7

MCAllRuns == {r1, r2, r3, r4, r5, r6, r7}
MCLoginUp == {r1, r2, r3}
MCUpRuns == {r3}
MCJoinRuns == {r4}
MCDownRuns == {r5}
MCCompactRuns == {r6}
MCNotifyRuns == {r7}
MCNoRuns == {}

\* two gpud login runs
MCLogins == {r1, r2}

\* The two login runs are interchangeable.
Symmetry == Permutations({r1, r2})
=============================================================================
