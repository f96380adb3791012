------------------------- MODULE OrderStateMachine -------------------------
(***************************************************************************)
(* The order lifecycle of app/live_execution/order_state_machine.py: the   *)
(* statuses, the table of allowed transitions and what transition() does   *)
(* to the status of an order.  Pure operators: the modules that keep order *)
(* rows extend this one.                                                   *)
(***************************************************************************)

\* LiveOrderStatus (app/models/live_order.py).
OrderStatus == {"PENDING", "OPEN", "PARTIALLY_FILLED",
                "FILLED", "CANCELLED", "REJECTED"}

\* _ALLOWED: the statuses a status may move to.
Allowed ==
    [s \in OrderStatus |->
        CASE s = "PENDING" -> {"OPEN", "REJECTED", "CANCELLED", "FILLED",
                               "PARTIALLY_FILLED"}
          [] s = "OPEN" -> {"PARTIALLY_FILLED", "FILLED", "CANCELLED", "REJECTED"}
          [] s = "PARTIALLY_FILLED" -> {"PARTIALLY_FILLED", "FILLED", "CANCELLED"}
          [] OTHER -> {}]

\* Mutant of IsValidTransition: the table is not consulted.
AnyTransition(from, to) == TRUE

IsValidTransition(from, to) == to \in Allowed[from]

\* LiveOrder.is_terminal: nothing leaves these statuses.
Terminal == {"FILLED", "CANCELLED", "REJECTED"}

\* BaseBroker.OrderStatus: what an adapter reports about a broker order.
BrokerStatus == {"PENDING", "OPEN", "COMPLETE", "CANCELLED", "REJECTED"}

BrokerTerminal == {"COMPLETE", "CANCELLED", "REJECTED"}

\* _broker_status_to_model: only COMPLETE changes its name.
BrokerStatusToModel(s) == IF s = "COMPLETE" THEN "FILLED" ELSE s
=============================================================================
