---------------------------- MODULE MCEventStream ----------------------------
(* Slots for the sockets in the runs of EventStream.                        *)
EXTENDS EventStream, TLC

CONSTANTS w1, w2
==============================================================================
