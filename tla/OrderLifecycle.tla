--------------------------- MODULE OrderLifecycle ---------------------------
(***************************************************************************)
(* What the order pipeline promises about one order row, whoever writes    *)
(* it: a row is created once, either by place ("approved") or by           *)
(* reconcile for an order number nobody knew ("accepted"); after that its  *)
(* status moves only along the legal table, executions are only ever       *)
(* added to it, and once it is terminal neither changes again.             *)
(*                                                                         *)
(* This is the abstract specification OrderPipeline implements.            *)
(***************************************************************************)
EXTENDS OrderStates

CONSTANTS Ids,      \* the order rows that may ever exist
          Events    \* the execution events that may ever be recorded

VARIABLES status,   \* [Ids -> RowState]
          fills     \* [Ids -> SUBSET Events], the rows of table fills

lvars == <<status, fills>>

LInit ==
  /\ status = [i \in Ids |-> "none"]
  /\ fills  = [i \in Ids |-> {}]

Create(i) ==
  /\ status[i] = "none"
  /\ \E s \in {"approved", "accepted"} : status' = [status EXCEPT ![i] = s]
  /\ UNCHANGED fills

Move(i) ==
  /\ status[i] # "none"
  /\ \E s \in OrderState :
       /\ CanTransition(status[i], s)
       /\ status' = [status EXCEPT ![i] = s]
  /\ UNCHANGED fills

(* An execution is recorded in an open row, which may close it. *)
Book(i) ==
  /\ status[i] \in NonTerminal
  /\ \E e \in Events \ fills[i] : fills' = [fills EXCEPT ![i] = @ \cup {e}]
  /\ \E s \in {"partially_filled", "filled", status[i]} :
       /\ s = status[i] \/ CanTransition(status[i], s)
       /\ status' = [status EXCEPT ![i] = s]

LNext == \E i \in Ids : Create(i) \/ Move(i) \/ Book(i)

LSpec == LInit /\ [][LNext]_lvars
==============================================================================
