-------------------------- MODULE MCMarketDataSync --------------------------
EXTENDS MarketDataSync, TLC

CONSTANTS t1, t2, t3, A, B, eod, manual

\* The end-of-day job syncs A and B while an operator re-fetches A.
MCSymbolOf == (t1 :> A) @@ (t2 :> B) @@ (t3 :> A)
MCCallOf   == (t1 :> eod) @@ (t2 :> eod) @@ (t3 :> manual)
=============================================================================
