--------------------------- MODULE MCLiveExecution ---------------------------
(* Small instances of LiveExecution for TLC. *)
EXTENDS LiveExecutionInv

CONSTANTS d1, d2, d3

\* Two deliveries of one signal and one of another symbol.
DuplicatedSignal == [d \in Deliveries |-> IF d = d3 THEN "INFY-BUY" ELSE "TCS-BUY"]
DuplicatedSymbol == [d \in Deliveries |-> IF d = d3 THEN "INFY" ELSE "TCS"]

\* Every delivery a signal of its own, on a symbol of its own.
OwnSignal == [d \in Deliveries |-> d]
=============================================================================
