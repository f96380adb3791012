--------------------------- MODULE SignalPipeline ---------------------------
(***************************************************************************)
(* From ticks to delivered signals: CandleBuilder, SignalEngine,           *)
(* LiveMarketEngine and LiveSignalService, with the collections            *)
(* live_signals and intraday_market_state of one trading day.              *)
(*                                                                         *)
(* Time is a sequence of 15-minute slots; slot 0 is 09:15-09:30, the       *)
(* opening range.  A feed may skip slots and, after a reconnect, repeat     *)
(* ticks of earlier ones.  The 1- and 5-minute buckets run the same code   *)
(* and are ignored by the engine and by the service; they are left out.    *)
(* A feeder is a source that awaits feed_tick for one tick after the       *)
(* other, an operator a caller of start, stop or reset_daily.  One action  *)
(* is the code between two awaits.                                         *)
(***************************************************************************)
EXTENDS Integers, Sequences, FiniteSetsExt

CONSTANTS
    Symbols,        \* tradable symbols
    Feeders,        \* tick sources
    Operators,      \* concurrent callers of start / stop / reset_daily
    Prices,         \* prices a tick may carry
    LatestEntry,    \* first slot that is too late for an entry (11:30)
    LastSlot,       \* last slot of the modelled session
    MaxOrbRange,    \* widest opening range that is traded
    MaxTicks,       \* bound on accepted ticks
    MaxLate,        \* bound on ticks older than one before them
    MaxGen,         \* bound on activations of the signal engine
    MaxTroubles,    \* bound on failed database calls, restarts, and calls of operators
                    \* and jobs other than start, taken together
    None            \* no bucket, no row, no lock holder

ASSUME PipelineAssumption ==
    /\ Feeders \cap Operators = {}
    /\ Prices \subseteq Int
    /\ LatestEntry \in Nat /\ LastSlot \in Nat /\ MaxOrbRange \in Nat
    /\ MaxTicks \in Nat /\ MaxGen \in Nat
    /\ MaxLate \in Nat /\ MaxTroubles \in Nat

VARIABLES
    bucket,    \* CandleBuilder._buckets: the open 15-minute bucket per symbol
    watch,     \* LiveMarketEngine._watchlist
    running,   \* LiveMarketEngine._running
    elock,     \* LiveMarketEngine._lock
    active,    \* SignalEngine._active
    gen,       \* number of activations so far
    st,        \* SignalEngine._states: the state objects of each activation
    signals,   \* live_signals, at most one per symbol by the unique index
    row,       \* intraday_market_state of the day
    pc,        \* where each task is
    job,       \* the closed candle a task is dispatching
    obj,       \* the activation whose state object a task holds
    todo,      \* symbols an operator still has to flush or to seed
    mode,      \* what an operator was called for
    heard,     \* history: signals delivered to the trading services
    log,       \* history: ticks accepted since the buckets were last dropped; once
               \* the session is not steady, those of the open bucket
    steady,    \* history: activated with no bucket, candle or insert pending (one of an earlier
               \* activation would lock its symbol in this one), undisturbed since
    ticks, late, latest, troubles  \* counters of the bounds

feedVars    == <<ticks, late, latest>>
builderVars == <<bucket, log>>
engineVars  == <<active, gen, st>>
dbVars      == <<signals, row>>
vars == <<builderVars, watch, running, elock, engineVars, dbVars, pc, job,
          obj, todo, mode, heard, steady, feedVars, troubles>>

Tasks  == Feeders \cup Operators
Slots  == 0..LastSlot
Side   == {"UP", "DOWN"}
Signal == [sym : Symbols, side : Side, slot : Slots, gen : 1..MaxGen]
LiveSignal == [signal : Signal, status : {"NEW", "BROADCAST"}]

Candle == [sym : Symbols, slot : Slots, high : Prices, low : Prices, close : Prices]

\* _SymbolState: opening range, skip verdict, trade lock and emitted signal.
OpeningRange(c) == [high |-> c.high, low |-> c.low]
FreshState == [range |-> None, skipped |-> FALSE, locked |-> FALSE, emitted |-> None]
OrbRange == [high : Prices, low : Prices]
SymbolState == [range : {None} \cup OrbRange, skipped : BOOLEAN, locked : BOOLEAN,
                emitted : {None} \cup Signal]

ASSUME NoneAssumption ==
    None \notin Operators \cup Candle \cup Signal \cup LiveSignal \cup OrbRange \cup SymbolState

\* IntradayMarketState as far as it mirrors the engine.
EmptyRow == [range |-> None, locked |-> FALSE, signal |-> FALSE]

(* The repositories of the two collections *)
GetRow(s) == IF row[s] = None THEN EmptyRow ELSE row[s]
UpsertRow(s, r) == row' = [row EXCEPT ![s] = r]
BulkUpsertRows(S) == row' = [s \in Symbols |-> IF s \in S THEN EmptyRow ELSE row[s]]
DeleteForDate == row' = [s \in Symbols |-> None]
InsertUnique(s, x) ==
    signals[s] = None /\ signals' = [signals EXCEPT ![s] = [signal |-> x, status |-> "NEW"]]
UpdateStatus(s, status) == signals' = [signals EXCEPT ![s].status = status]

Init ==
    /\ bucket = [s \in Symbols |-> None]
    /\ watch = {} /\ running = FALSE /\ elock = None
    /\ active = FALSE /\ gen = 0
    /\ st = [g \in 1..MaxGen |-> [s \in Symbols |-> None]]
    /\ signals = [s \in Symbols |-> None]
    /\ row = [s \in Symbols |-> None]
    /\ pc = [t \in Tasks |-> "idle"]
    /\ job = [t \in Tasks |-> None]
    /\ obj = [t \in Tasks |-> 0]
    /\ todo = [o \in Operators |-> {}]
    /\ mode = [o \in Operators |-> None]
    /\ heard = <<>>
    /\ log = [s \in Symbols |-> <<>>]
    /\ steady = FALSE
    /\ ticks = 0 /\ late = 0 /\ latest = 0 /\ troubles = 0

Goto(t, l) == pc' = [pc EXCEPT ![t] = l]

\* A call of an operator or of the scheduler, a database call that raises, a
\* restart: each counts as one trouble.
Trouble == troubles < MaxTroubles /\ troubles' = troubles + 1

-----------------------------------------------------------------------------
(* CandleBuilder                                                            *)

\* A bucket opened by its first tick, and a tick folded into an open bucket.
NewBucket(s, slot, p) == [sym |-> s, slot |-> slot, high |-> p, low |-> p, close |-> p]
Update(b, p) == [b EXCEPT !.high = Max({@, p}), !.low = Min({@, p}), !.close = p]

\* Mutant of Elapsed: the boundary tick still belongs to the old bucket.
ElapsedOffByOne(b, slot) == slot > b.slot + 1

\* The tick lies at or after the end of the open bucket.
Elapsed(b, slot) == slot > b.slot

\* feed_tick and on_tick.  A tick of an earlier slot than the open bucket is
\* folded into that bucket; the closed candle is dispatched after the lock.
FeedTick(f, s, slot, p) ==
    LET b == bucket[s]
        closes == b # None /\ Elapsed(b, slot)
    IN  /\ pc[f] = "idle" /\ running /\ s \in watch /\ ticks < MaxTicks
        /\ bucket' = [bucket EXCEPT ![s] = IF b = None \/ closes
                                           THEN NewBucket(s, slot, p) ELSE Update(b, p)]
        /\ log' = [log EXCEPT ![s] = Append(IF closes /\ ~steady THEN <<>> ELSE @,
                                            [slot |-> slot, price |-> p])]
        /\ ticks' = ticks + 1
        /\ late' = IF slot < latest THEN late + 1 ELSE late
        /\ late' <= MaxLate
        /\ latest' = Max({latest, slot})
        /\ IF closes
           THEN Goto(f, "closed") /\ job' = [job EXCEPT ![f] = b]
           ELSE UNCHANGED <<pc, job>>
        /\ UNCHANGED <<watch, running, elock, engineVars, dbVars, obj,
                       todo, mode, heard, steady, troubles>>

-----------------------------------------------------------------------------
(* SignalEngine.on_candle, first of the candle callbacks                    *)

\* The candle is exactly the opening candle and the range is not yet known.
Captures(e, c) == e.range = None /\ c.slot = 0
Capture(e, c) ==
    [e EXCEPT !.range = OpeningRange(c),
              !.skipped = c.high - c.low > MaxOrbRange]

\* Mutants: the trade lock is not tested; a close at the range's bound breaks it.
MayEnterUnlocked(e, c) ==
    /\ e.range # None /\ ~e.skipped
    /\ 1 <= c.slot /\ c.slot < LatestEntry
BreakoutAtBound(e, c) == {d \in Side : IF d = "UP" THEN c.close >= e.range.high
                                                   ELSE c.close <= e.range.low}

\* The close breaks the range strictly, in the entry window, on a free symbol.
MayEnter(e, c) ==
    /\ e.range # None /\ ~e.locked /\ ~e.skipped
    /\ 1 <= c.slot /\ c.slot < LatestEntry
Breakout(e, c) == {d \in Side : IF d = "UP" THEN c.close > e.range.high
                                            ELSE c.close < e.range.low}

BuildSignal(c, d) == [sym |-> c.sym, side |-> d, slot |-> c.slot, gen |-> gen]

\* Both callbacks of a candle have run: the feeder takes the next tick, an
\* operator flushes the next symbol.
EndCandle(t) ==
    /\ Goto(t, IF t \in Operators THEN "flush" ELSE "idle")
    /\ job' = [job EXCEPT ![t] = None]
    /\ obj' = [obj EXCEPT ![t] = 0]

OnCandle(t) ==
    LET c == job[t]
        e == IF active THEN st[gen][c.sym] ELSE None
        emits == e # None /\ MayEnter(e, c) /\ Breakout(e, c) # {}
    IN  /\ pc[t] = "closed"
        /\ IF emits
           THEN \E d \in Breakout(e, c) :
                  /\ st' = [st EXCEPT ![gen][c.sym].locked = TRUE,
                                      ![gen][c.sym].emitted = BuildSignal(c, d)]
                  /\ obj' = [obj EXCEPT ![t] = gen]
                  /\ Goto(t, "insert")
           ELSE /\ st' = IF e # None /\ Captures(e, c)
                         THEN [st EXCEPT ![gen][c.sym] = Capture(e, c)] ELSE st
                /\ UNCHANGED obj
                /\ Goto(t, "mirror")
        /\ UNCHANGED <<builderVars, watch, running, elock, active, gen, dbVars,
                       job, todo, mode, heard, steady, feedVars, troubles>>

-----------------------------------------------------------------------------
(* LiveSignalService._handle_generated_signal, first of the signal callbacks *)

Sig(t) == st[obj[t]][job[t].sym].emitted

\* lock_symbol acts on the state object of the current activation.
LockSymbol(s) ==
    st' = IF gen > 0 /\ st[gen][s] # None THEN [st EXCEPT ![gen][s].locked = TRUE] ELSE st

\* Mutant of InsertSignal: an error in the first callback ends the dispatch.
InsertSignalAborts(t) ==
    /\ pc[t] = "insert"
    /\ \/ InsertUnique(job[t].sym, Sig(t)) /\ LockSymbol(job[t].sym)
          /\ Goto(t, "state") /\ UNCHANGED troubles
       \/ Trouble /\ Goto(t, "mirror") /\ UNCHANGED <<st, signals>>
    /\ UNCHANGED <<builderVars, watch, running, elock, active, gen, row, job, obj, todo,
                   mode, heard, steady, feedVars>>

\* insert_unique: the unique index refuses a second signal of the day.  An
\* error ends the handler; the engine's dispatcher goes on to the next callback.
InsertSignal(t) ==
    LET s == job[t].sym
    IN  /\ pc[t] = "insert"
        /\ \/ /\ InsertUnique(s, Sig(t))
              /\ LockSymbol(s)
              /\ Goto(t, "state")
              /\ UNCHANGED troubles
           \/ /\ signals[s] # None
              /\ LockSymbol(s)
              /\ Goto(t, "deliver")
              /\ UNCHANGED <<signals, troubles>>
           \/ /\ Trouble
              /\ Goto(t, "deliver")
              /\ UNCHANGED <<st, signals>>
        /\ UNCHANGED <<builderVars, watch, running, elock, active, gen, row, job,
                       obj, todo, mode, heard, steady, feedVars>>

\* _update_state_for_signal.  The row is a mirror that no decision reads: its
\* read and its replacement are one step.
UpdateStateForSignal(t) ==
    LET s == job[t].sym
    IN  /\ pc[t] = "state"
        /\ \/ /\ UpsertRow(s, [range |-> st[obj[t]][s].range, locked |-> TRUE, signal |-> TRUE])
              /\ Goto(t, "status")
              /\ UNCHANGED troubles
           \/ Trouble /\ Goto(t, "deliver") /\ UNCHANGED row
        /\ UNCHANGED <<builderVars, watch, running, elock, engineVars, signals, job, obj,
                       todo, mode, heard, steady, feedVars>>

\* update_status(BROADCAST); the WebSocket broadcast that follows keeps no state.
MarkBroadcast(t) ==
    /\ pc[t] = "status"
    /\ \/ UpdateStatus(job[t].sym, "BROADCAST") /\ UNCHANGED troubles
       \/ Trouble /\ UNCHANGED signals
    /\ Goto(t, "deliver")
    /\ UNCHANGED <<builderVars, watch, running, elock, engineVars, row, job, obj,
                   todo, mode, heard, steady, feedVars>>

\* The other signal callbacks: portfolio, paper and live execution services
\* hear the signal whatever became of it in the database.
Deliver(t) ==
    /\ pc[t] = "deliver"
    /\ heard' = Append(heard, Sig(t))
    /\ Goto(t, "mirror")
    /\ UNCHANGED <<builderVars, watch, running, elock, engineVars, dbVars, job,
                   obj, todo, mode, steady, feedVars, troubles>>

-----------------------------------------------------------------------------
(* LiveSignalService._handle_built_candle, second of the candle callbacks   *)

\* The engine's view of the symbol goes onto its row.
HandleBuiltCandle(t) ==
    LET s == job[t].sym
        e == IF gen > 0 THEN st[gen][s] ELSE None
    IN  /\ pc[t] = "mirror"
        /\ \/ /\ e # None
              /\ UpsertRow(s, [range  |-> IF e.range # None THEN e.range ELSE GetRow(s).range,
                               locked |-> e.locked, signal |-> e.emitted # None])
              /\ UNCHANGED troubles
           \/ /\ IF e = None THEN UNCHANGED troubles ELSE Trouble
              /\ UNCHANGED row
        /\ EndCandle(t)
        /\ UNCHANGED <<builderVars, watch, running, elock, engineVars, signals, todo,
                       mode, heard, steady, feedVars>>

-----------------------------------------------------------------------------
(* start, stop, reset_daily and the scheduler's jobs                        *)

\* start tests running before it awaits the shortlist.
Start(o) ==
    /\ pc[o] = "idle" /\ ~running /\ gen < MaxGen
    /\ Goto(o, "shortlist")
    /\ UNCHANGED <<builderVars, watch, running, elock, engineVars, dbVars, job, obj,
                   todo, mode, heard, steady, feedVars, troubles>>

\* SignalEngine.activate: a fresh state object for every symbol of the shortlist.
Activate(list) ==
    /\ st' = [st EXCEPT ![gen + 1] = [s \in Symbols |-> IF s \in list THEN FreshState ELSE None]]
    /\ gen' = gen + 1
    /\ active' = TRUE

NothingPending ==
    (\A s \in Symbols : log[s] = <<>>) /\ (\A t \in Tasks : pc[t] \notin {"closed", "insert"})

\* LiveMarketEngine.start; buckets that are open stay open.
EngineStart(o) ==
    /\ pc[o] = "shortlist" /\ elock = None /\ gen < MaxGen
    /\ \E list \in SUBSET Symbols :
         /\ watch' = list
         /\ Activate(list)
         /\ todo' = [todo EXCEPT ![o] = list]
    /\ running' = TRUE
    /\ steady' = NothingPending
    /\ Goto(o, "seed")
    /\ UNCHANGED <<builderVars, elock, dbVars, job, obj, mode, heard, feedVars, troubles>>

\* _seed_state_rows writes an empty row for each symbol that has none.
SeedStateRows(o) ==
    /\ pc[o] = "seed"
    /\ \/ /\ BulkUpsertRows({s \in todo[o] : row[s] = None})
          /\ UNCHANGED troubles
       \/ Trouble /\ UNCHANGED row
    /\ todo' = [todo EXCEPT ![o] = {}]
    /\ Goto(o, "idle")
    /\ UNCHANGED <<builderVars, watch, running, elock, engineVars, signals, job, obj,
                   mode, heard, steady, feedVars>>

\* stop and the first half of reset_daily.
CallStop(o, why) ==
    /\ Trouble
    /\ pc[o] = "idle"
    /\ \/ running /\ Goto(o, "stop")
       \/ ~running /\ why = "reset" /\ Goto(o, "drop")
    /\ mode' = [mode EXCEPT ![o] = why]
    /\ UNCHANGED <<builderVars, watch, running, elock, engineVars, dbVars, job, obj,
                   todo, heard, steady, feedVars>>

AfterStop(o) == IF mode[o] = "reset" THEN "drop" ELSE "idle"

\* LiveMarketEngine.stop takes the lock and deactivates; it keeps the lock while
\* every registered symbol is flushed and its last candle dispatched.
EngineStop(o) ==
    /\ pc[o] = "stop" /\ elock = None
    /\ IF running
       THEN /\ elock' = o /\ active' = FALSE
            /\ todo' = [todo EXCEPT ![o] = Symbols]
            /\ steady' = FALSE
            /\ Goto(o, "flush")
       ELSE Goto(o, AfterStop(o)) /\ UNCHANGED <<elock, active, todo, steady>>
    /\ UNCHANGED <<builderVars, watch, running, gen, st, dbVars, job, obj,
                   mode, heard, feedVars, troubles>>

FlushSymbol(o, s) ==
    /\ pc[o] = "flush" /\ s \in todo[o]
    /\ todo' = [todo EXCEPT ![o] = @ \ {s}]
    /\ bucket' = [bucket EXCEPT ![s] = None]
    /\ log' = [log EXCEPT ![s] = <<>>]
    /\ IF bucket[s] # None
       THEN Goto(o, "closed") /\ job' = [job EXCEPT ![o] = bucket[s]]
       ELSE UNCHANGED <<pc, job>>
    /\ UNCHANGED <<watch, running, elock, engineVars, dbVars, obj, mode,
                   heard, steady, feedVars, troubles>>

EngineStopped(o) ==
    /\ pc[o] = "flush" /\ todo[o] = {}
    /\ running' = FALSE /\ elock' = None
    /\ Goto(o, AfterStop(o))
    /\ UNCHANGED <<builderVars, watch, engineVars, dbVars, job, obj, todo,
                   mode, heard, steady, feedVars, troubles>>

\* reset_daily: the builder forgets its buckets, then the rows are deleted.
DropBuckets(o) ==
    /\ pc[o] = "drop"
    /\ bucket' = [s \in Symbols |-> None]
    /\ log' = [s \in Symbols |-> <<>>]
    /\ steady' = FALSE
    /\ Goto(o, "delete")
    /\ UNCHANGED <<watch, running, elock, engineVars, dbVars, job, obj, todo,
                   mode, heard, feedVars, troubles>>

DeleteRows(o) ==
    /\ pc[o] = "delete"
    /\ \/ DeleteForDate /\ UNCHANGED troubles
       \/ Trouble /\ UNCHANGED row
    /\ Goto(o, "idle")
    /\ UNCHANGED <<builderVars, watch, running, elock, engineVars, signals, job, obj,
                   todo, mode, heard, steady, feedVars>>

\* The 12:00 job only deactivates the signal engine.
DeactivateJob ==
    /\ Trouble
    /\ running /\ active
    /\ active' = FALSE /\ steady' = FALSE
    /\ UNCHANGED <<builderVars, watch, running, elock, gen, st, dbVars, pc, job, obj,
                   todo, mode, heard, feedVars>>

AddCandidate(s) ==
    st' = IF active /\ st[gen][s] = None THEN [st EXCEPT ![gen][s] = FreshState] ELSE st

\* add_symbol and remove_symbol change the watchlist in the session.
AddSymbol(s) ==
    /\ Trouble
    /\ s \notin watch
    /\ watch' = watch \cup {s}
    /\ AddCandidate(s)
    /\ steady' = FALSE
    /\ UNCHANGED <<builderVars, running, elock, active, gen, dbVars, pc, job, obj,
                   todo, mode, heard, feedVars>>

RemoveSymbol(s) ==
    /\ Trouble
    /\ s \in watch
    /\ watch' = watch \ {s}
    /\ bucket' = [bucket EXCEPT ![s] = None]
    /\ log' = [log EXCEPT ![s] = <<>>]
    /\ steady' = FALSE
    /\ UNCHANGED <<running, elock, engineVars, dbVars, pc, job, obj, todo,
                   mode, heard, feedVars>>

\* The process is restarted: only the two collections survive.
Restart ==
    /\ Trouble
    /\ bucket' = [s \in Symbols |-> None]
    /\ log' = [s \in Symbols |-> <<>>]
    /\ watch' = {} /\ running' = FALSE /\ elock' = None /\ active' = FALSE
    /\ st' = [g \in 1..MaxGen |-> [s \in Symbols |-> None]]
    /\ pc' = [t \in Tasks |-> "idle"]
    /\ job' = [t \in Tasks |-> None]
    /\ obj' = [t \in Tasks |-> 0]
    /\ todo' = [o \in Operators |-> {}]
    /\ mode' = [o \in Operators |-> None]
    /\ steady' = FALSE
    /\ UNCHANGED <<gen, dbVars, heard, feedVars>>

-----------------------------------------------------------------------------
CandleStep(t) ==
    \/ OnCandle(t) \/ InsertSignal(t) \/ UpdateStateForSignal(t)
    \/ MarkBroadcast(t) \/ Deliver(t) \/ HandleBuiltCandle(t)

OperatorStep(o) ==
    \/ EngineStart(o) \/ SeedStateRows(o) \/ EngineStop(o)
    \/ \E s \in Symbols : FlushSymbol(o, s)
    \/ EngineStopped(o) \/ DropBuckets(o) \/ DeleteRows(o)

Next ==
    \/ \E f \in Feeders, s \in Symbols, slot \in Slots, p \in Prices : FeedTick(f, s, slot, p)
    \/ \E t \in Tasks : CandleStep(t)
    \/ \E o \in Operators : \/ OperatorStep(o) \/ Start(o)
                            \/ \E why \in {"stop", "reset"} : CallStop(o, why)
    \/ DeactivateJob
    \/ \E s \in Symbols : AddSymbol(s) \/ RemoveSymbol(s)
    \/ Restart

Spec == Init /\ [][Next]_vars

\* The event loop resumes every task whose await has returned.
FairSpec == Spec /\ \A t \in Tasks : WF_vars(CandleStep(t))

-----------------------------------------------------------------------------
(* Properties                                                               *)

\* The candles of a tick log.  InSlot has the ticks that arrive while the bucket
\* of slot k is open, TicksOf those whose time lies in the slot's half-open interval
\* (candle_builder.py:17); they differ by the late ticks.
SlotAt(l, i) == Max({l[j].slot : j \in 1..i})
InSlot(l, k) == {i \in DOMAIN l : SlotAt(l, i) = k}
TicksOf(l, k) == {i \in DOMAIN l : l[i].slot = k}
PricesIn(l, k) == {l[i].price : i \in InSlot(l, k)}
CandleOf(s, l, k) == [sym |-> s, slot |-> k, high |-> Max(PricesIn(l, k)),
                      low |-> Min(PricesIn(l, k)), close |-> l[Max(InSlot(l, k))].price]

\* The open bucket is that of the newest slot, none of the slot's own ticks is
\* missing from its range, and it is exactly their candle when no tick of an earlier
\* slot arrives while it is open, across gaps, flushes, resets and restarts (on_tick).
\* What a late tick does is left open: the code folds it into the bucket, against
\* candle_builder.py:8 ("reconnection-driven replays never corrupt state") and :17.
BucketIsCandle ==
    \A s \in Symbols :
        LET l == log[s]
            b == bucket[s]
            k == SlotAt(l, Len(l))
        IN  IF l = <<>> THEN b = None
            ELSE /\ b # None /\ b.slot = k
                 /\ \A i \in TicksOf(l, k) : b.low <= l[i].price /\ l[i].price <= b.high
                 /\ InSlot(l, k) = TicksOf(l, k) => b = CandleOf(s, l, k)

\* The first close outside the opening range, inside the entry window.
Breaks(s, l, k) ==
    LET r == CandleOf(s, l, 0)
        c == CandleOf(s, l, k)
    IN  c.close > r.high \/ c.close < r.low
BreakoutSlots(s, l) ==
    IF l = <<>> \/ InSlot(l, 0) = {} THEN {}
    ELSE LET r == CandleOf(s, l, 0)
         IN  {k \in 1..(LatestEntry - 1) : /\ k < SlotAt(l, Len(l)) /\ InSlot(l, k) # {}
                                           /\ r.high - r.low <= MaxOrbRange
                                           /\ Breaks(s, l, k)}

\* In a session that was activated before its first tick and not disturbed, the
\* engine has signalled exactly at the first breakout of the ticks received, in
\* the direction of that close, and not at all if there was none.  A late tick is
\* reckoned to the bucket it was folded into, the only one the engine is shown.
FirstBreakoutSignals ==
    steady => \A s \in watch :
        (\A t \in Tasks : ~(pc[t] = "closed" /\ job[t].sym = s)) =>
            LET e == st[gen][s].emitted
                ks == BreakoutSlots(s, log[s])
            IN  IF ks = {} THEN e = None
                ELSE /\ e # None /\ e.slot = Min(ks)
                     /\ (e.side = "UP") = (CandleOf(s, log[s], e.slot).close
                                             > CandleOf(s, log[s], 0).high)

\* The signals held by the tasks at these places.
SignalsAt(places) == {Sig(t) : t \in {u \in Tasks : pc[u] \in places}}

(* Every step of the pipeline, with its feeds, operators, flushes, faults and *)
(* restarts, is a step of SignalService or leaves its variables alone.  A     *)
(* signal is between emission and delivery while a task dispatches it.        *)
Service == INSTANCE SignalService
    WITH Signals <- Signal, emitted <- SignalsAt({"insert"}),
         kept <- SignalsAt({"state", "status"}), ready <- SignalsAt({"deliver"}),
         stored <- signals, faults <- troubles

\* A symbol signals once in an activation and only in an active one, the first
\* signal of the day is kept and not replaced, and each is offered to the store
\* and then heard once, whatever the store answers (on_candle, _dispatch,
\* _handle_generated_signal, insert_unique, update_status).
ImplementsSignalService == Service!Spec

\* Within one activation of the engine the trading services hear at most one
\* signal per symbol, whatever replays, faults and callers of start do.
OneSignalPerActivation ==
    \A i, j \in DOMAIN heard :
        heard[i].sym = heard[j].sym /\ heard[i].gen = heard[j].gen => i = j

\* A signal the engine emitted reaches the trading services although its insert,
\* its state row or its status update fail (SignalEngine._dispatch), unless the
\* process is restarted and the engine's state is gone.
EmittedIsDelivered ==
    \A s \in Symbols, g \in 1..MaxGen :
        st[g][s] # None /\ st[g][s].emitted # None
          ~> st[g][s] = None \/ \E i \in DOMAIN heard : heard[i].sym = s /\ heard[i].gen = g

=============================================================================
