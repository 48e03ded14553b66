--------------------------- MODULE MCOrderPipeline ---------------------------
(* Model values and symmetry for the runs of OrderPipeline. *)
EXTENDS OrderPipeline, TLC

CONSTANTS c1, c2, r1, boot

Sym == Permutations(Clients)
==============================================================================
