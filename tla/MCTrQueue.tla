------------------------------ MODULE MCTrQueue ------------------------------
(* Callers and priorities for the runs of TrQueue: a kill switch, the boot   *)
(* reconcile and two routine reconciles.                                     *)
EXTENDS TrQueue, TLC

CONSTANTS kill, boot, r1, r2

MCPrio == [c \in Callers |-> CASE c = kill -> 0 [] c = boot -> 1 [] OTHER -> 2]
==============================================================================
