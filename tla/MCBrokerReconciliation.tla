------------------------ MODULE MCBrokerReconciliation ------------------------
(* The instance of BrokerReconciliation that TLC checks. *)
EXTENDS BrokerReconciliation, TLC

CONSTANTS o1, b1
MCBid == o1 :> b1
MCComponents == Critical \cup Warning
=============================================================================
