----------------------------- MODULE OrderStates -----------------------------
(***************************************************************************)
(* The order state machine: the states of an order row, the terminal ones, *)
(* the table of legal transitions and the judgement every writer of        *)
(* orders.status goes through (orders/state_machine.py, models/order_dto). *)
(*                                                                         *)
(* "none" stands for a row that does not exist yet; it is not a state of   *)
(* the program.                                                            *)
(***************************************************************************)

OrderState == {"approved", "submitted", "in_doubt", "accepted",
               "partially_filled", "filled", "rejected", "canceled",
               "expired", "quarantined"}

TERMINAL_STATES == {"filled", "rejected", "canceled", "expired", "quarantined"}

RowState == OrderState \cup {"none"}

(* The statuses list_open_orders selects. *)
NonTerminal == OrderState \ TERMINAL_STATES

Legal ==
  [s \in OrderState |->
     CASE s = "approved"  -> {"submitted"}
       [] s = "submitted" -> {"accepted", "rejected", "in_doubt", "canceled",
                              "quarantined"}
       [] s = "in_doubt"  -> {"accepted", "partially_filled", "filled",
                              "rejected", "canceled", "expired", "quarantined"}
       [] s = "accepted"  -> {"partially_filled", "filled", "canceled",
                              "expired", "quarantined"}
       [] s = "partially_filled" -> {"filled", "canceled", "expired",
                                     "quarantined"}
       [] OTHER -> {}]

CanTransition(frm, to) ==
  /\ frm \notin TERMINAL_STATES
  /\ to \in Legal[frm]

(* OrderService's own set: the statuses a confirmed cancel closes. *)
NON_TERMINAL_FOR_CANCEL == {"submitted", "accepted", "partially_filled",
                            "in_doubt"}

(* What boot calls in-flight: the broker's answer is not known. *)
IN_FLIGHT == {"submitted", "in_doubt"}
==============================================================================
