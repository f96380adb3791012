---------------------------- MODULE OrderLifecycle ----------------------------
(***************************************************************************)
(* What the live pipeline promises about its orders, whoever touches them: *)
(* a row is written once, before anything is sent; the broker is handed an *)
(* order at most once under the id the row will carry; the row then tells  *)
(* what the broker said, and once it is terminal it is left alone.         *)
(*                                                                         *)
(* There are no tasks, locks, copies, faults or restarts here.  The module *)
(* LiveExecution, which has them all, implements this specification.       *)
(***************************************************************************)
EXTENDS OrderStateMachine

CONSTANT Orders

VARIABLES
    row,    \* live_orders: order_status, or "ABSENT"
    acked,  \* live_orders: is broker_order_id set?
    bstat   \* broker: status of the order behind broker_order_id

orderLifecycleVars == <<row, acked, bstat>>

Init ==
    /\ row = [o \in Orders |-> "ABSENT"]
    /\ acked = [o \in Orders |-> FALSE]
    /\ bstat = [o \in Orders |-> "NONE"]

\* The row is written before the order is sent.
Place(o) ==
    /\ row[o] = "ABSENT"
    /\ row' = [row EXCEPT ![o] = "PENDING"]
    /\ UNCHANGED <<acked, bstat>>

\* The broker accepts the order of a recorded row, once.
BrokerTakes(o) ==
    /\ row[o] = "PENDING" /\ bstat[o] = "NONE"
    /\ bstat' = [bstat EXCEPT ![o] = "PENDING"]
    /\ UNCHANGED <<row, acked>>

\* The broker works on the order until it is terminal.
BrokerMoves(o) ==
    /\ bstat[o] \in {"PENDING", "OPEN"}
    /\ \E s \in {"OPEN"} \cup BrokerTerminal : bstat' = [bstat EXCEPT ![o] = s]
    /\ UNCHANGED <<row, acked>>

\* The acceptance is recorded with the broker's id ...
Acknowledge(o) ==
    /\ row[o] = "PENDING" /\ bstat[o] # "NONE"
    /\ row' = [row EXCEPT ![o] = "OPEN"]
    /\ acked' = [acked EXCEPT ![o] = TRUE]
    /\ UNCHANGED bstat

\* ... or the refusal, only if there is no order under that id.
Reject(o) ==
    /\ row[o] = "PENDING" /\ bstat[o] = "NONE"
    /\ row' = [row EXCEPT ![o] = "REJECTED"]
    /\ UNCHANGED <<acked, bstat>>

\* An open row takes over the broker's terminal status.
Settle(o) ==
    /\ row[o] = "OPEN" /\ acked[o] /\ bstat[o] \in BrokerTerminal
    /\ row' = [row EXCEPT ![o] = BrokerStatusToModel(bstat[o])]
    /\ UNCHANGED <<acked, bstat>>

Next == \E o \in Orders :
    \/ Place(o) \/ BrokerTakes(o) \/ BrokerMoves(o)
    \/ Acknowledge(o) \/ Reject(o) \/ Settle(o)

Spec == Init /\ [][Next]_orderLifecycleVars
=============================================================================
