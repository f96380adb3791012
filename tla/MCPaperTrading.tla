--------------------------- MODULE MCPaperTrading ---------------------------
(* The instance of PaperTrading that TLC checks. *)
EXTENDS PaperTrading, TLC

CONSTANTS s1, s2
MCSector == s1 :> None @@ s2 :> "bank"
MCPnls == {-1, 1}
MCLimits == {[trades |-> 1, losses |-> 2], [trades |-> 2, losses |-> 1]}
Symmetry == Permutations(Deliveries)
=============================================================================
