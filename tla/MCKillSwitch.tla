---------------------------- MODULE MCKillSwitch ----------------------------
(* Orders and requests for the runs of KillSwitch: one that sweeps both      *)
(* buckets, and one that sweeps and flattens the paper bucket.               *)
EXTENDS KillSwitch

CONSTANTS e1, x1, r1

MCFlatten == {<<"market", 2>>}
MCRequests == {<<"global", 1>>} \cup MCFlatten
==============================================================================
