---------------------------- MODULE SignalService ----------------------------
(***************************************************************************)
(* What the live signal service promises about its signals, however ticks, *)
(* tasks and operators interleave: a symbol is signalled at most once in   *)
(* an activation of the engine and only while it is active; the first      *)
(* signal of the day is kept and none replaces it; a signal is offered to  *)
(* the store before the trading services hear it, and they hear it once    *)
(* whatever the store answered.  What was not kept, marked or heard was    *)
(* refused, or met a fault.                                                *)
(*                                                                         *)
(* There are no candles, tasks, locks or state objects here.  The module   *)
(* SignalPipeline, which has them all, implements this specification.      *)
(***************************************************************************)
EXTENDS Naturals, Sequences, Functions

CONSTANTS
    Symbols,   \* tradable symbols
    Signals,   \* records with the fields sym and gen
    None       \* no stored signal

VARIABLES
    active,    \* does the engine take candles?
    gen,       \* number of activations so far
    emitted,   \* signals not yet offered to the store
    kept,      \* signals the store took, not yet marked as broadcast
    ready,     \* signals the trading services are about to hear
    stored,    \* live_signals: the signal of a symbol and its status
    heard,     \* signals delivered to the trading services, in order
    faults     \* failed database calls, restarts and interventions so far

serviceVars == <<active, gen, emitted, kept, ready, stored, heard, faults>>

UnderWay == emitted \cup kept \cup ready

Init ==
    /\ active = FALSE /\ gen = 0
    /\ emitted = {} /\ kept = {} /\ ready = {}
    /\ stored = [s \in Symbols |-> None]
    /\ heard = <<>>
    /\ faults = 0

Fault == faults' = faults + 1

\* The engine starts over: from now on every symbol may be signalled again.
Activate ==
    /\ active' = TRUE /\ gen' = gen + 1
    /\ UNCHANGED <<emitted, kept, ready, stored, heard, faults>>

Deactivate ==
    /\ active /\ active' = FALSE
    /\ Fault \/ UNCHANGED faults
    /\ UNCHANGED <<gen, emitted, kept, ready, stored, heard>>

\* Nothing of this symbol was emitted in this activation before.
Emit(x) ==
    /\ active /\ x.gen = gen
    /\ \A y \in UnderWay \cup Range(heard) : y.sym = x.sym => y.gen # x.gen
    /\ emitted' = emitted \cup {x}
    /\ UNCHANGED <<active, gen, kept, ready, stored, heard, faults>>

\* The first signal of a symbol is kept; another is refused.
Keep(x) ==
    /\ x \in emitted /\ stored[x.sym] = None
    /\ stored' = [stored EXCEPT ![x.sym] = [signal |-> x, status |-> "NEW"]]
    /\ emitted' = emitted \ {x} /\ kept' = kept \cup {x}
    /\ UNCHANGED <<active, gen, ready, heard, faults>>

Refuse(x) ==
    /\ x \in emitted
    /\ \/ stored[x.sym] # None /\ UNCHANGED faults
       \/ Fault
    /\ emitted' = emitted \ {x} /\ ready' = ready \cup {x}
    /\ UNCHANGED <<active, gen, kept, stored, heard>>

\* Only the signal that was kept is marked as broadcast.
MarkBroadcast(x) ==
    /\ x \in kept
    /\ stored[x.sym] = [signal |-> x, status |-> "NEW"]
    /\ \/ stored' = [stored EXCEPT ![x.sym].status = "BROADCAST"] /\ UNCHANGED faults
       \/ Fault /\ UNCHANGED stored
    /\ kept' = kept \ {x} /\ ready' = ready \cup {x}
    /\ UNCHANGED <<active, gen, emitted, heard>>

Deliver(x) ==
    /\ x \in ready
    /\ ready' = ready \ {x}
    /\ heard' = Append(heard, x)
    /\ UNCHANGED <<active, gen, emitted, kept, stored, faults>>

\* A restart: what was under way is lost, what was stored is not.
Crash ==
    /\ Fault
    /\ active' = FALSE
    /\ emitted' = {} /\ kept' = {} /\ ready' = {}
    /\ UNCHANGED <<gen, stored, heard>>

Disturbance ==
    /\ Fault
    /\ UNCHANGED <<active, gen, emitted, kept, ready, stored, heard>>

Next ==
    \/ Activate \/ Deactivate \/ Crash \/ Disturbance
    \/ \E x \in Signals : \/ Emit(x) \/ Keep(x) \/ Refuse(x)
                          \/ MarkBroadcast(x) \/ Deliver(x)

Spec == Init /\ [][Next]_serviceVars
=============================================================================
