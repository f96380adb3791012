---------------------------- MODULE PortfolioRisk ----------------------------
(***************************************************************************)
(* The portfolio layer of one trading day: PortfolioService between the    *)
(* signal engine and the trading services, with CapitalAllocator,          *)
(* PortfolioRiskManager and the collections portfolio_allocations and      *)
(* portfolio_risk_states.                                                  *)
(*                                                                         *)
(* A delivery is one call of the signal callback.  It holds the pipeline   *)
(* lock from the first read to the update of the risk state and dispatches *)
(* after it; halt_today and resume_today take no lock.  One action is the  *)
(* code between two database calls.                                        *)
(***************************************************************************)
EXTENDS Integers, FiniteSetsExt

CONSTANTS
    Symbols, Sides,
    Sector,           \* sector of each symbol, None when unknown
    Deliveries,       \* calls of the signal callback
    Operators,        \* callers of the operator routes and scheduled jobs
    Method,           \* PORTFOLIO_ALLOCATION_METHOD
    RawSizes,         \* what risk per share and entry price make of a fixed risk
    TotalCapital, MaxPerTrade, MinPerTrade, MaxExposure, MaxPerStrategy, MaxPerSector,
    MaxOpen, MaxCorrelated,
    MaxTroubles,      \* bound on failed database calls, restarts and operator calls
    None

ASSUME PortfolioAssumption ==
    /\ Deliveries \cap Operators = {} /\ IsFiniteSet(Deliveries)
    /\ Method \in {"EQUAL_WEIGHT", "SCORE_WEIGHTED", "FIXED_RISK"}
    /\ Sides \subseteq {"BUY", "SELL"}
    /\ RawSizes \subseteq Nat
    /\ {TotalCapital, MaxPerTrade, MinPerTrade, MaxExposure, MaxPerStrategy, MaxPerSector,
        MaxOpen, MaxCorrelated, MaxTroubles} \subseteq Nat
    /\ MinPerTrade > 0

VARIABLES
    risk,       \* portfolio_risk_states: the document of the day, or None
    allocs,     \* portfolio_allocations: capital of the approved ones by signal
    plock,      \* PortfolioService._lock
    pc,         \* where each task is
    call,       \* what an operator was called for
    sig,        \* the signal a delivery carries
    copy,       \* the risk state a task has read
    cap,        \* the capital allocated to a delivery
    version,    \* history: number of writes of the risk state
    base,       \* history: the version a task has read
    lost,       \* history: what was replaced from an outdated copy
    sent,       \* history: capital of each approved signal that was dispatched
    halt,       \* history: halt_today has returned, resume_today neither ran then nor since
    held,       \* history: deliveries that read the risk state under such a halt
    troubles    \* counter of MaxTroubles

history == <<version, sent, halt, held>>
portfolioVars == <<risk, allocs, plock, sig, copy, cap, base, lost, history>>

Tasks   == Deliveries \cup Operators
Signals == [sym : Symbols, side : Sides]

\* PortfolioRiskState; available_capital is total_capital - used_capital.
RiskState == [used : Nat, open : Nat, halted : BOOLEAN]
FreshRisk == [used |-> 0, open |-> 0, halted |-> FALSE]
Available(r) == TotalCapital - r.used

ASSUME NoneAssumption == None \notin Tasks \cup RiskState

PortfolioInit ==
    /\ risk = None
    /\ allocs = [s \in Signals |-> None]
    /\ plock = None
    /\ call = [o \in Operators |-> None]
    /\ sig = [d \in Deliveries |-> None]
    /\ copy = [t \in Tasks |-> None]
    /\ cap = [d \in Deliveries |-> 0]
    /\ version = 0
    /\ base = [t \in Tasks |-> 0]
    /\ lost = {}
    /\ sent = [d \in Deliveries |-> 0]
    /\ halt = FALSE
    /\ held = {}

Goto(t, l) == pc' = [pc EXCEPT ![t] = l]
Trouble == troubles < MaxTroubles /\ troubles' = troubles + 1

-----------------------------------------------------------------------------
(* The repositories                                                         *)

\* get_for_date.
GetForDate(t) ==
    /\ copy' = [copy EXCEPT ![t] = risk]
    /\ base' = [base EXCEPT ![t] = version]

\* What a write from an outdated copy can undo: an operator's writes undo booked
\* capital, a delivery's and a newly created document undo a halt.
Undoes(t) == (IF t \in Operators THEN {"capital"} ELSE {})
             \cup (IF t \in Deliveries \/ pc[t] = "create" THEN {"halt"} ELSE {})

\* upsert replaces the whole document.
UpsertRisk(t, r) ==
    /\ risk' = r
    /\ version' = version + 1
    /\ lost' = IF base[t] = version THEN lost ELSE lost \cup Undoes(t)

\* Sums over the approved allocations of the day.
CapitalOf(S) == MapThenSumSet(LAMBDA s : IF allocs[s] = None THEN 0 ELSE allocs[s], S)
GetStrategyCapital == CapitalOf(Signals)
GetSectorCapital(x) == CapitalOf({s \in Signals : Sector[s.sym] = x})
CountCorrelated(x) == Cardinality({s \in Signals : Sector[s.sym] = x /\ allocs[s] # None})

\* upsert_by_signal_id: an approved allocation, or a rejected one, replaces the
\* one of an earlier delivery of the same signal.
UpsertAllocation(s, c) == allocs' = [allocs EXCEPT ![s] = c]

-----------------------------------------------------------------------------
(* CapitalAllocator, always called with one candidate                       *)

EqualWeight(avail) == Min({avail, MaxPerTrade})
ScoreWeighted(avail) == Min({avail, MaxPerTrade})
FixedRisk(avail, raw) == Min({raw, MaxPerTrade, avail})
Allocate(avail, raw) ==
    LET c == CASE Method = "EQUAL_WEIGHT"   -> EqualWeight(avail)
               [] Method = "SCORE_WEIGHTED" -> ScoreWeighted(avail)
               [] Method = "FIXED_RISK"     -> FixedRisk(avail, raw)
    IN  IF c < MinPerTrade THEN 0 ELSE c

(* PortfolioRiskManager.  realized_pnl_today is written nowhere in the code, *)
(* so the loss limit never applies.                                          *)
CheckHalt(r) == ~r.halted
CheckMaxOpen(r) == r.open < MaxOpen
CheckExposure(r, c) == r.used + c <= MaxExposure
CheckPerTrade(c) == c <= MaxPerTrade
CheckStrategy(c) == GetStrategyCapital + c <= MaxPerStrategy
CheckSector(s, c) == Sector[s.sym] # None => GetSectorCapital(Sector[s.sym]) + c <= MaxPerSector
CheckCorrelated(s) == Sector[s.sym] # None => CountCorrelated(Sector[s.sym]) < MaxCorrelated
CheckAvailable(r, c) == c <= Available(r)

\* Mutants of Evaluate: the exposure rule, the halt rule is missing.
EvaluateNoExposure(r, s, c) ==
    CheckHalt(r) /\ CheckMaxOpen(r) /\ CheckPerTrade(c) /\ CheckStrategy(c)
    /\ CheckSector(s, c) /\ CheckCorrelated(s) /\ CheckAvailable(r, c)
EvaluateNoHalt(r, s, c) ==
    CheckMaxOpen(r) /\ CheckExposure(r, c) /\ CheckPerTrade(c) /\ CheckStrategy(c)
    /\ CheckSector(s, c) /\ CheckCorrelated(s) /\ CheckAvailable(r, c)

Evaluate(r, s, c) ==
    /\ CheckHalt(r)
    /\ CheckMaxOpen(r)
    /\ CheckExposure(r, c)
    /\ CheckPerTrade(c)
    /\ CheckStrategy(c)
    /\ CheckSector(s, c)
    /\ CheckCorrelated(s)
    /\ CheckAvailable(r, c)

-----------------------------------------------------------------------------
(* PortfolioService._handle_generated_signal                                *)

\* The task is over: what it has read is dropped.
Drop(t) == copy' = [copy EXCEPT ![t] = None]

\* The pipeline lock is taken and the ranking context is read.  The score only
\* matters among several candidates.
HandleSignal(d, s) ==
    /\ pc[d] = "idle" /\ plock = None
    /\ \/ plock' = d /\ Goto(d, "state") /\ sig' = [sig EXCEPT ![d] = s] /\ UNCHANGED troubles
       \/ Trouble /\ Goto(d, "done") /\ UNCHANGED <<plock, sig>>
    /\ UNCHANGED <<risk, allocs, call, copy, cap, base, lost, history>>

\* An exception anywhere in _process_signal: nothing is dispatched.
PipelineError(d) ==
    /\ pc[d] \in {"state", "create", "allocate", "update"}
    /\ Trouble
    /\ plock' = None
    /\ Goto(d, "done")
    /\ Drop(d) /\ cap' = [cap EXCEPT ![d] = 0]
    /\ base' = [base EXCEPT ![d] = 0]
    /\ UNCHANGED <<risk, allocs, call, sig, lost, history>>

AfterState(t) == IF t \in Operators THEN "flag" ELSE "allocate"

\* _get_or_create_risk_state, read and creation.
GetRiskState(t) ==
    /\ pc[t] = "state"
    /\ GetForDate(t)
    /\ Goto(t, IF risk = None THEN "create" ELSE AfterState(t))
    /\ held' = IF halt /\ t \in Deliveries THEN held \cup {t} ELSE held
    /\ UNCHANGED <<risk, allocs, plock, call, sig, cap, version, lost, sent, halt, troubles>>

CreateRiskState(t) ==
    /\ pc[t] = "create"
    /\ UpsertRisk(t, FreshRisk)
    /\ base' = [base EXCEPT ![t] = version']
    /\ copy' = [copy EXCEPT ![t] = FreshRisk]
    /\ Goto(t, AfterState(t))
    /\ UNCHANGED <<allocs, plock, call, sig, cap, sent, halt, held, troubles>>

\* Sizing, risk gate and the allocation document.  The lock keeps the
\* allocations still, so their sums and the write are one step.
ProcessSignal(d) ==
    /\ pc[d] = "allocate"
    /\ \E raw \in RawSizes :
         LET c == Allocate(Available(copy[d]), raw)
             accepted == c > 0 /\ Evaluate(copy[d], sig[d], c)
         IN  /\ UpsertAllocation(sig[d], IF accepted THEN c ELSE None)
             /\ cap' = [cap EXCEPT ![d] = IF accepted THEN c ELSE 0]
    /\ Goto(d, "update")
    /\ UNCHANGED <<risk, plock, call, sig, copy, base, lost, history, troubles>>

\* _update_risk_state on an approved allocation of c.
Book(r, c) == [r EXCEPT !.used = @ + c, !.open = @ + 1]

\* The risk state is written back and the lock released.
UpdateRiskState(d) ==
    /\ pc[d] = "update"
    /\ UpsertRisk(d, IF cap[d] > 0 THEN Book(copy[d], cap[d]) ELSE copy[d])
    /\ base' = [base EXCEPT ![d] = 0]
    /\ Drop(d)
    /\ plock' = None
    /\ Goto(d, IF cap[d] > 0 THEN "dispatch" ELSE "done")
    /\ UNCHANGED <<allocs, call, sig, cap, sent, halt, held, troubles>>

\* _dispatch_approved.
DispatchApproved(d) ==
    /\ pc[d] = "dispatch"
    /\ sent' = [sent EXCEPT ![d] = cap[d]]
    /\ Goto(d, "approved")
    /\ UNCHANGED <<risk, allocs, plock, call, sig, copy, cap, base, lost, version, halt, held,
                   troubles>>

\* A call of halt_today or resume_today.
CallHalt(o, what) ==
    /\ pc[o] = "idle" /\ Trouble
    /\ call' = [call EXCEPT ![o] = what]
    /\ halt' = (halt /\ what = "halt")
    /\ Goto(o, "state")
    /\ UNCHANGED <<risk, allocs, plock, sig, copy, cap, base, lost, version, sent, held>>

\* resume_today is under way: it may be the one that has the last word.
Resuming(o) == call[o] = "resume" /\ pc[o] \in {"state", "create", "flag"}

\* halt_today writes the whole document back.
HaltToday(o) ==
    /\ pc[o] = "flag" /\ call[o] = "halt"
    /\ UpsertRisk(o, [copy[o] EXCEPT !.halted = TRUE])
    /\ halt' = ~ \E q \in Operators : Resuming(q)
    /\ base' = [base EXCEPT ![o] = 0]
    /\ Drop(o)
    /\ call' = [call EXCEPT ![o] = None]
    /\ Goto(o, "idle")
    /\ UNCHANGED <<allocs, plock, sig, cap, sent, held, troubles>>

\* So does resume_today.
ResumeToday(o) ==
    /\ pc[o] = "flag" /\ call[o] = "resume"
    /\ UpsertRisk(o, [copy[o] EXCEPT !.halted = FALSE])
    /\ base' = [base EXCEPT ![o] = 0]
    /\ Drop(o)
    /\ call' = [call EXCEPT ![o] = None]
    /\ Goto(o, "idle")
    /\ UNCHANGED <<allocs, plock, sig, cap, sent, halt, held, troubles>>

PortfolioNext ==
    \/ \E d \in Deliveries :
         \/ \E s \in Signals : HandleSignal(d, s)
         \/ PipelineError(d) \/ ProcessSignal(d) \/ UpdateRiskState(d) \/ DispatchApproved(d)
    \/ \E t \in Tasks : GetRiskState(t) \/ CreateRiskState(t)
    \/ \E o \in Operators :
         \/ \E what \in {"halt", "resume"} : CallHalt(o, what)
         \/ HaltToday(o) \/ ResumeToday(o)

(* The capital handed to the trading services stays within the exposure     *)
(* limit of the day, whatever fails or is redelivered, unless an operator's *)
(* halt or resume has replaced the risk state from a copy read before a     *)
(* delivery booked its capital (portfolio_service.py: halt_today and        *)
(* resume_today take no lock).                                              *)
ExposureWithinCap ==
    "capital" \notin lost => MapThenSumSet(LAMBDA d : sent[d], Deliveries) <= MaxExposure

(* A delivery that reads the risk state after halt_today has returned is    *)
(* never dispatched, unless a write from a copy read before the halt has    *)
(* replaced the risk state: by a delivery under way, or by a second call    *)
(* that creates the day's document.                                         *)
HaltHolds == "halt" \notin lost => \A d \in held : sent[d] = 0
=============================================================================
