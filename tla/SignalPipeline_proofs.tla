------------------------ MODULE SignalPipeline_proofs ------------------------
(***************************************************************************)
(* Within one activation the trading services hear at most one signal of a *)
(* symbol, and an open bucket is the candle of its ticks: for any number   *)
(* of symbols, feeders, operators, ticks and activations.                  *)
(***************************************************************************)
EXTENDS SignalPipeline, FiniteSetTheorems, WellFoundedInduction, SequenceTheorems, TLAPS

Places ==
    {"idle", "closed", "insert", "state", "status", "deliver", "mirror", "shortlist",
     "seed", "stop", "flush", "drop", "delete"}

\* A task at one of these places dispatches a candle, or a signal it emitted.
Pending == {"insert", "state", "status", "deliver"}
Handling == Pending \cup {"closed", "mirror"}

Tick == [slot : Slots, price : Prices]

TypeInv ==
    /\ bucket \in [Symbols -> {None} \cup Candle]
    /\ active \in BOOLEAN /\ gen \in 0..MaxGen
    /\ st \in [1..MaxGen -> [Symbols -> {None} \cup SymbolState]]
    /\ pc \in [Tasks -> Places]
    /\ DOMAIN job = Tasks /\ DOMAIN obj = Tasks /\ DOMAIN todo = Operators
    /\ \A t \in Tasks : pc[t] \in Handling => job[t] \in Candle
    /\ heard \in Seq(Signal)
    /\ log \in [Symbols -> Seq(Tick)]
    /\ steady \in BOOLEAN /\ watch \subseteq Symbols
    /\ active => gen > 0

LEMMA TypeInvInit == Init => TypeInv
<1> SUFFICES ASSUME Init PROVE TypeInv
  OBVIOUS
<1>1. st \in [1..MaxGen -> [Symbols -> {None} \cup SymbolState]]
  BY DEF Init
<1>2. log \in [Symbols -> Seq(Tick)] /\ heard \in Seq(Signal)
  BY DEF Init
<1>3. gen \in 0..MaxGen
  BY PipelineAssumption DEF Init
<1> QED
  BY <1>1, <1>2, <1>3 DEF Init, TypeInv, Places, Handling, Pending

-----------------------------------------------------------------------------
(* Lemmas about the operators                                               *)

LEMMA MaxIs ==
    ASSUME NEW S \in SUBSET Int, NEW m \in S, \A y \in S : y <= m
    PROVE  Max(S) = m
<1>1. \A x \in S : (\A y \in S : x >= y) => x = m
  OBVIOUS
<1>2. \A y \in S : m >= y
  OBVIOUS
<1> QED
  BY <1>1, <1>2 DEF Max

LEMMA MinIs ==
    ASSUME NEW S \in SUBSET Int, NEW m \in S, \A y \in S : m <= y
    PROVE  Min(S) = m
<1>1. \A x \in S : (\A y \in S : x =< y) => x = m
  OBVIOUS
<1> QED
  BY <1>1 DEF Min

LEMMA MaxOfTwo ==
    ASSUME NEW a \in Int, NEW b \in Int
    PROVE  Max({a, b}) = IF a >= b THEN a ELSE b
<1>1. CASE a >= b
  BY <1>1, MaxIs
<1>2. CASE ~(a >= b)
  BY <1>2, MaxIs
<1> QED
  BY <1>1, <1>2

LEMMA MinOfTwo ==
    ASSUME NEW a \in Int, NEW b \in Int
    PROVE  Min({a, b}) = IF a <= b THEN a ELSE b
<1>1. CASE a <= b
  BY <1>1, MinIs
<1>2. CASE ~(a <= b)
  BY <1>2, MinIs
<1> QED
  BY <1>1, <1>2

(* A bucket a tick has opened or updated.                                    *)
LEMMA UpdateIs ==
    ASSUME NEW b \in Candle, NEW p \in Prices
    PROVE  /\ Update(b, p) \in Candle
           /\ Update(b, p).sym = b.sym /\ Update(b, p).slot = b.slot
           /\ Update(b, p).high = (IF b.high >= p THEN b.high ELSE p)
           /\ Update(b, p).low = (IF b.low <= p THEN b.low ELSE p)
           /\ Update(b, p).close = p
<1>1. b.high \in Prices /\ b.low \in Prices /\ b.high \in Int /\ b.low \in Int /\ p \in Int
  BY PipelineAssumption DEF Candle
<1>2. Max({b.high, p}) = (IF b.high >= p THEN b.high ELSE p)
  BY <1>1, MaxOfTwo
<1>3. Min({b.low, p}) = (IF b.low <= p THEN b.low ELSE p)
  BY <1>1, MinOfTwo
<1>4. Update(b, p) = [b EXCEPT !.high = IF b.high >= p THEN b.high ELSE p,
                               !.low = IF b.low <= p THEN b.low ELSE p, !.close = p]
  BY <1>2, <1>3 DEF Update
<1> QED
  BY <1>1, <1>4 DEF Candle

LEMMA NewBucketIs ==
    ASSUME NEW s \in Symbols, NEW slot \in Slots, NEW p \in Prices
    PROVE  /\ NewBucket(s, slot, p) \in Candle
           /\ NewBucket(s, slot, p).sym = s /\ NewBucket(s, slot, p).slot = slot
           /\ NewBucket(s, slot, p).high = p /\ NewBucket(s, slot, p).low = p
           /\ NewBucket(s, slot, p).close = p
BY DEF NewBucket, Candle

LEMMA WiderIsBoolean ==
    ASSUME NEW h \in Int, NEW l \in Int, NEW m \in Int
    PROVE  (h - l > m) \in BOOLEAN
OBVIOUS

(* A state object after a capture, and after an emission.                    *)
LEMMA CaptureIs ==
    ASSUME NEW e \in SymbolState, NEW c \in Candle
    PROVE  /\ Capture(e, c) \in SymbolState
           /\ Capture(e, c).locked = e.locked /\ Capture(e, c).emitted = e.emitted
           /\ Capture(e, c).range = OpeningRange(c)
           /\ Capture(e, c).skipped = (c.high - c.low > MaxOrbRange)
<1>1. OpeningRange(c) \in OrbRange
  BY DEF OpeningRange, OrbRange, Candle
<1>2. PICK w \in BOOLEAN : w = (c.high - c.low > MaxOrbRange)
  <2>1. c.high \in Prices /\ c.low \in Prices /\ Prices \subseteq Int /\ MaxOrbRange \in Nat
    BY PipelineAssumption DEF Candle
  <2> DEFINE wide == c.high - c.low > MaxOrbRange
  <2>2. wide \in BOOLEAN
    BY <2>1, WiderIsBoolean
  <2> HIDE DEF wide
  <2>3. \E w \in BOOLEAN : w = wide
    BY <2>2
  <2> QED
    BY <2>3, Zenon DEF wide
<1>3. Capture(e, c) = [e EXCEPT !.range = OpeningRange(c), !.skipped = w]
  BY <1>2, Zenon DEF Capture
<1>4. /\ Capture(e, c) \in SymbolState
      /\ Capture(e, c).locked = e.locked /\ Capture(e, c).emitted = e.emitted
      /\ Capture(e, c).range = OpeningRange(c)
      /\ Capture(e, c).skipped = w
  BY <1>1, <1>3 DEF SymbolState
<1> QED
  BY <1>2, <1>4, Zenon

LEMMA SignalIs ==
    ASSUME NEW c \in Candle, NEW d \in Side, gen \in 1..MaxGen
    PROVE  /\ BuildSignal(c, d) \in Signal
           /\ BuildSignal(c, d).sym = c.sym /\ BuildSignal(c, d).gen = gen
           /\ BuildSignal(c, d).slot = c.slot /\ BuildSignal(c, d).side = d
BY DEF BuildSignal, Signal, Candle

-----------------------------------------------------------------------------
(* Type correctness                                                         *)

LEMMA FeedTickTypes ==
    ASSUME TypeInv, NEW f \in Feeders, NEW s \in Symbols, NEW slot \in Slots,
           NEW p \in Prices, FeedTick(f, s, slot, p)
    PROVE  TypeInv'
<1>1. bucket' \in [Symbols -> {None} \cup Candle]
  BY UpdateIs, NewBucketIs DEF FeedTick, TypeInv
<1>2. log' \in [Symbols -> Seq(Tick)]
  <2>1. [slot |-> slot, price |-> p] \in Tick
    BY DEF Tick
  <2> DEFINE l == IF (bucket[s] # None /\ Elapsed(bucket[s], slot)) /\ ~steady
                  THEN <<>> ELSE log[s]
  <2>2. l \in Seq(Tick)
    BY DEF TypeInv
  <2>3. log' = [log EXCEPT ![s] = Append(l, [slot |-> slot, price |-> p])]
    BY DEF FeedTick
  <2> HIDE DEF l
  <2>4. Append(l, [slot |-> slot, price |-> p]) \in Seq(Tick)
    BY <2>1, <2>2
  <2> QED
    BY <2>3, <2>4 DEF TypeInv
<1>3. /\ pc' \in [Tasks -> Places] /\ DOMAIN job' = Tasks
      /\ \A t \in Tasks : pc'[t] \in Handling => job'[t] \in Candle
  <2>1. CASE bucket[s] # None /\ Elapsed(bucket[s], slot)
    <3>1. pc' = [pc EXCEPT ![f] = "closed"] /\ job' = [job EXCEPT ![f] = bucket[s]]
      BY <2>1 DEF FeedTick, Goto
    <3>2. bucket[s] \in Candle
      BY <2>1 DEF TypeInv
    <3> QED
      BY <3>1, <3>2 DEF TypeInv, Places, Tasks
  <2>2. CASE ~(bucket[s] # None /\ Elapsed(bucket[s], slot))
    BY <2>2 DEF FeedTick, TypeInv
  <2> QED
    BY <2>1, <2>2
<1> QED
  BY <1>1, <1>2, <1>3 DEF FeedTick, TypeInv, engineVars

LEMMA OnCandleTypes ==
    ASSUME TypeInv, NEW t \in Tasks, OnCandle(t)
    PROVE  TypeInv'
<1> DEFINE c == job[t]
           e == st[gen][c.sym]
<1>1. c \in Candle /\ c.sym \in Symbols
  BY DEF OnCandle, TypeInv, Handling, Candle
<1>2. st' \in [1..MaxGen -> [Symbols -> {None} \cup SymbolState]]
  <2>1. CASE st' = st
    BY <2>1 DEF TypeInv
  <2>2. CASE active /\ e # None /\ st' = [st EXCEPT ![gen][c.sym] = Capture(e, c)]
    <3>1. gen \in 1..MaxGen /\ e \in SymbolState
      <4>1. gen \in 1..MaxGen
        BY <2>2 DEF TypeInv
      <4>2. e \in {None} \cup SymbolState
        BY <1>1, <4>1 DEF TypeInv
      <4> QED
        BY <2>2, <4>1, <4>2
    <3>2. Capture(e, c) \in SymbolState
      BY <1>1, <3>1, CaptureIs
    <3> QED
      BY <2>2, <3>1, <3>2 DEF TypeInv
  <2>3. CASE /\ active /\ e # None
             /\ \E d \in Side :
                  st' = [st EXCEPT ![gen][c.sym].locked = TRUE,
                                   ![gen][c.sym].emitted = BuildSignal(c, d)]
    <3>1. PICK d \in Side :
             st' = [st EXCEPT ![gen][c.sym].locked = TRUE,
                              ![gen][c.sym].emitted = BuildSignal(c, d)]
      BY <2>3
    <3>2. gen \in 1..MaxGen /\ e \in SymbolState
      BY <1>1, <2>3 DEF TypeInv
    <3>3. BuildSignal(c, d) \in Signal
      BY <1>1, <3>2, SignalIs
    <3>4. [e EXCEPT !.locked = TRUE, !.emitted = BuildSignal(c, d)] \in SymbolState
      BY <3>2, <3>3 DEF SymbolState
    <3> QED
      BY <1>1, <3>1, <3>2, <3>4 DEF TypeInv
  <2> QED
    BY <2>1, <2>2, <2>3 DEF OnCandle, Breakout
<1>3. pc' \in [Tasks -> Places] /\ (pc'[t] \in Handling => job'[t] \in Candle)
  BY <1>1 DEF OnCandle, Goto, TypeInv, Places
<1>4. \A u \in Tasks : pc'[u] \in Handling => job'[u] \in Candle
  BY <1>1 DEF OnCandle, Goto, TypeInv
<1>5. DOMAIN obj' = Tasks
  BY DEF OnCandle, TypeInv
<1> HIDE DEF c, e
<1> QED
  BY <1>2, <1>3, <1>4, <1>5 DEF OnCandle, TypeInv, builderVars

(* lock_symbol.                                                              *)
LEMMA LockSymbolIs ==
    ASSUME TypeInv, NEW s \in Symbols, LockSymbol(s)
    PROVE  /\ st' \in [1..MaxGen -> [Symbols -> {None} \cup SymbolState]]
           /\ \A g \in 1..MaxGen, r \in Symbols :
                /\ st[g][r] = None <=> st'[g][r] = None
                /\ st[g][r] # None =>
                     /\ st'[g][r].emitted = st[g][r].emitted
                     /\ st'[g][r].range = st[g][r].range
                     /\ st'[g][r].skipped = st[g][r].skipped
                     /\ st[g][r].locked => st'[g][r].locked
                     /\ st'[g][r].locked => st[g][r].locked \/ (g = gen /\ r = s)
<1>1. CASE gen > 0 /\ st[gen][s] # None
  <2>1. st[gen][s] \in SymbolState /\ gen \in 1..MaxGen
    BY <1>1 DEF TypeInv
  <2>2. [st[gen][s] EXCEPT !.locked = TRUE] \in SymbolState
    BY <2>1 DEF SymbolState
  <2>3. st' = [st EXCEPT ![gen] = [st[gen] EXCEPT ![s] = [st[gen][s] EXCEPT !.locked = TRUE]]]
    BY <1>1 DEF LockSymbol
  <2>4. [st[gen][s] EXCEPT !.locked = TRUE] # None
    BY <2>2, NoneAssumption
  <2>5. st' \in [1..MaxGen -> [Symbols -> {None} \cup SymbolState]]
    BY <2>1, <2>2, <2>3 DEF TypeInv
  <2>6. \A g \in 1..MaxGen, r \in Symbols :
          st'[g][r] = IF g = gen /\ r = s THEN [st[gen][s] EXCEPT !.locked = TRUE] ELSE st[g][r]
    BY <2>1, <2>3 DEF TypeInv
  <2>7. /\ [st[gen][s] EXCEPT !.locked = TRUE].locked
        /\ [st[gen][s] EXCEPT !.locked = TRUE].emitted = st[gen][s].emitted
        /\ [st[gen][s] EXCEPT !.locked = TRUE].range = st[gen][s].range
        /\ [st[gen][s] EXCEPT !.locked = TRUE].skipped = st[gen][s].skipped
    BY <2>1 DEF SymbolState
  <2> QED
    BY <1>1, <2>4, <2>5, <2>6, <2>7
<1>2. CASE ~(gen > 0 /\ st[gen][s] # None)
  BY <1>2 DEF LockSymbol, TypeInv
<1> QED
  BY <1>1, <1>2

LEMMA DispatchTypes ==
    ASSUME TypeInv, NEW t \in Tasks,
           \/ InsertSignal(t) \/ UpdateStateForSignal(t) \/ MarkBroadcast(t)
           \/ (Deliver(t) /\ Sig(t) \in Signal) \/ HandleBuiltCandle(t)
    PROVE  TypeInv'
<1>1. CASE InsertSignal(t)
  <2>1. job[t] \in Candle /\ job[t].sym \in Symbols
    BY <1>1 DEF InsertSignal, TypeInv, Handling, Pending, Candle
  <2>2. st' \in [1..MaxGen -> [Symbols -> {None} \cup SymbolState]]
    BY <1>1, <2>1, LockSymbolIs DEF InsertSignal, TypeInv
  <2>3. /\ pc' \in [Tasks -> Places] /\ job' = job
        /\ \A u \in Tasks : pc'[u] \in Handling => pc[u] \in Handling
    BY <1>1 DEF InsertSignal, Goto, TypeInv, Places, Handling, Pending
  <2> QED
    BY <1>1, <2>2, <2>3 DEF InsertSignal, TypeInv, builderVars
<1>2. CASE UpdateStateForSignal(t) \/ MarkBroadcast(t)
  <2>1. /\ pc' \in [Tasks -> Places] /\ job' = job
        /\ \A u \in Tasks : pc'[u] \in Handling => pc[u] \in Handling
    BY <1>2 DEF UpdateStateForSignal, MarkBroadcast, Goto, TypeInv, Places, Handling, Pending
  <2> QED
    BY <1>2, <2>1 DEF UpdateStateForSignal, MarkBroadcast, TypeInv, builderVars, engineVars
<1>3. CASE Deliver(t) /\ Sig(t) \in Signal
  <2>1. /\ pc' \in [Tasks -> Places] /\ job' = job /\ heard' \in Seq(Signal)
        /\ \A u \in Tasks : pc'[u] \in Handling => pc[u] \in Handling
    BY <1>3 DEF Deliver, Goto, TypeInv, Places, Handling, Pending
  <2> QED
    BY <1>3, <2>1 DEF Deliver, TypeInv, builderVars, engineVars
<1>4. CASE HandleBuiltCandle(t)
  <2>1. /\ pc' \in [Tasks -> Places] /\ DOMAIN job' = Tasks /\ DOMAIN obj' = Tasks
        /\ \A u \in Tasks : pc'[u] \in Handling => pc[u] \in Handling /\ job'[u] = job[u]
    BY <1>4 DEF HandleBuiltCandle, EndCandle, Goto, TypeInv, Places, Handling, Pending
  <2> QED
    BY <1>4, <2>1 DEF HandleBuiltCandle, TypeInv, builderVars, engineVars
<1> QED
  BY <1>1, <1>2, <1>3, <1>4

(* The operators, the jobs and a restart.                                    *)
LEMMA OperatorTypes ==
    ASSUME TypeInv, NEW o \in Operators,
           OperatorStep(o) \/ Start(o) \/ \E why \in {"stop", "reset"} : CallStop(o, why)
    PROVE  TypeInv'
<1> USE DEF Goto, Places, Handling, Pending, Tasks, builderVars, engineVars
<1>1. CASE EngineStart(o)
  <2>1. PICK list \in SUBSET Symbols :
          /\ watch' = list /\ todo' = [todo EXCEPT ![o] = list]
          /\ st' = [st EXCEPT ![gen + 1] = [s \in Symbols |-> IF s \in list THEN FreshState ELSE None]]
          /\ gen' = gen + 1 /\ gen < MaxGen /\ active' = TRUE
    BY <1>1 DEF EngineStart, Activate
  <2>2. FreshState \in SymbolState
    BY DEF FreshState, SymbolState
  <2>3. st' \in [1..MaxGen -> [Symbols -> {None} \cup SymbolState]]
    BY <2>1, <2>2 DEF TypeInv
  <2>4. gen' \in 0..MaxGen /\ gen' > 0
    BY <2>1, PipelineAssumption DEF TypeInv
  <2>5. steady' \in BOOLEAN
    <3>1. NothingPending \in BOOLEAN
      BY DEF NothingPending
    <3> QED
      BY <1>1, <3>1 DEF EngineStart
  <2> QED
    BY <1>1, <2>1, <2>3, <2>4, <2>5 DEF EngineStart, TypeInv
<1>2. CASE SeedStateRows(o) \/ Start(o) \/ \E why \in {"stop", "reset"} : CallStop(o, why)
  <2>1. pc' \in [Tasks -> Places] /\ (\A t \in Tasks : pc'[t] \in Handling => pc[t] \in Handling)
    BY <1>2 DEF SeedStateRows, Start, CallStop, TypeInv
  <2>2. /\ UNCHANGED <<bucket, log, active, gen, st, job, obj, heard, steady, watch>>
        /\ DOMAIN todo' = Operators
    BY <1>2 DEF SeedStateRows, Start, CallStop, TypeInv
  <2> QED
    BY <2>1, <2>2 DEF TypeInv
<1>3. CASE EngineStop(o) \/ EngineStopped(o)
  <2>1. pc' \in [Tasks -> Places] /\ (\A t \in Tasks : pc'[t] \in Handling => pc[t] \in Handling)
    BY <1>3 DEF EngineStop, EngineStopped, AfterStop, TypeInv
  <2>2. /\ UNCHANGED <<bucket, log, gen, st, job, obj, heard, watch>>
        /\ active' \in BOOLEAN /\ (active' => active) /\ steady' \in BOOLEAN
        /\ DOMAIN todo' = Operators
    <3>1. CASE EngineStop(o)
      <4>1. UNCHANGED <<bucket, log, gen, st, job, obj, heard, watch>>
        BY <3>1 DEF EngineStop
      <4>2. (active' = active \/ active' = FALSE) /\ (steady' = steady \/ steady' = FALSE)
        BY <3>1 DEF EngineStop
      <4>3. DOMAIN todo' = Operators
        BY <3>1 DEF EngineStop, TypeInv
      <4>4. active \in BOOLEAN /\ steady \in BOOLEAN
        BY DEF TypeInv
      <4>5. active' => active
        BY <4>2, Zenon
      <4>6. active' \in BOOLEAN
        BY <4>2, <4>4
      <4>7. steady' \in BOOLEAN
        BY <4>2, <4>4
      <4> QED
        BY <4>1, <4>3, <4>5, <4>6, <4>7
    <3>2. CASE EngineStopped(o)
      BY <3>2 DEF EngineStopped, TypeInv
    <3> QED
      BY <1>3, <3>1, <3>2
  <2> QED
    BY <2>1, <2>2 DEF TypeInv
<1>4. ASSUME NEW s \in Symbols, FlushSymbol(o, s) PROVE TypeInv'
  <2>1. bucket' \in [Symbols -> {None} \cup Candle] /\ log' \in [Symbols -> Seq(Tick)]
    BY <1>4 DEF FlushSymbol, TypeInv
  <2>2. /\ pc' \in [Tasks -> Places] /\ DOMAIN job' = Tasks
        /\ \A t \in Tasks : pc'[t] \in Handling => job'[t] \in Candle
    <3>1. CASE bucket[s] # None
      <4>1. bucket[s] \in Candle
        BY <3>1 DEF TypeInv
      <4> QED
        BY <1>4, <3>1, <4>1 DEF FlushSymbol, TypeInv
    <3>2. CASE bucket[s] = None
      BY <1>4, <3>2 DEF FlushSymbol, TypeInv
    <3> QED
      BY <3>1, <3>2
  <2> QED
    BY <1>4, <2>1, <2>2 DEF FlushSymbol, TypeInv
<1>5. CASE DropBuckets(o)
  <2>1. pc' \in [Tasks -> Places] /\ (\A t \in Tasks : pc'[t] \in Handling => pc[t] \in Handling)
    BY <1>5 DEF DropBuckets, TypeInv
  <2>2. bucket' \in [Symbols -> {None} \cup Candle] /\ log' \in [Symbols -> Seq(Tick)]
    BY <1>5 DEF DropBuckets
  <2>3. /\ UNCHANGED <<active, gen, st, job, obj, heard, todo, watch>>
        /\ steady' \in BOOLEAN
    BY <1>5 DEF DropBuckets
  <2> QED
    BY <2>1, <2>2, <2>3 DEF TypeInv
<1>6. CASE DeleteRows(o)
  BY <1>6 DEF DeleteRows, TypeInv
<1> QED
  BY <1>1, <1>2, <1>3, <1>4, <1>5, <1>6 DEF OperatorStep

LEMMA OtherTypes ==
    ASSUME TypeInv,
           \/ DeactivateJob \/ Restart \/ UNCHANGED vars
           \/ \E s \in Symbols : AddSymbol(s) \/ RemoveSymbol(s)
    PROVE  TypeInv'
<1>1. CASE DeactivateJob
  BY <1>1 DEF DeactivateJob, TypeInv, builderVars
<1>2. CASE Restart
  <2>1. /\ bucket' \in [Symbols -> {None} \cup Candle] /\ log' \in [Symbols -> Seq(Tick)]
        /\ st' \in [1..MaxGen -> [Symbols -> {None} \cup SymbolState]]
    BY <1>2 DEF Restart
  <2>2. /\ pc' \in [Tasks -> Places] /\ \A t \in Tasks : pc'[t] \notin Handling
        /\ DOMAIN job' = Tasks /\ DOMAIN obj' = Tasks /\ DOMAIN todo' = Operators
    BY <1>2 DEF Restart, Places, Handling, Pending
  <2>3. /\ UNCHANGED <<gen, heard>> /\ active' = FALSE /\ steady' = FALSE /\ watch' = {}
    BY <1>2 DEF Restart
  <2> QED
    BY <2>1, <2>2, <2>3 DEF TypeInv
<1>3. CASE UNCHANGED vars
  BY <1>3 DEF TypeInv, vars, builderVars, engineVars
<1>4. ASSUME NEW s \in Symbols, AddSymbol(s) PROVE TypeInv'
  <2>1. FreshState \in SymbolState
    BY DEF FreshState, SymbolState
  <2>2. st' \in [1..MaxGen -> [Symbols -> {None} \cup SymbolState]]
    BY <1>4, <2>1 DEF AddSymbol, AddCandidate, TypeInv
  <2> QED
    BY <1>4, <2>2 DEF AddSymbol, TypeInv, builderVars
<1>5. ASSUME NEW s \in Symbols, RemoveSymbol(s) PROVE TypeInv'
  <2>1. bucket' \in [Symbols -> {None} \cup Candle] /\ log' \in [Symbols -> Seq(Tick)]
    BY <1>5 DEF RemoveSymbol, TypeInv
  <2>2. UNCHANGED <<active, gen, st, pc, job, obj, todo, heard>>
    BY <1>5 DEF RemoveSymbol, engineVars
  <2>3. steady' = FALSE /\ watch' = watch \ {s}
    BY <1>5 DEF RemoveSymbol
  <2> QED
    BY <2>1, <2>2, <2>3 DEF TypeInv
<1> QED
  BY <1>1, <1>2, <1>3, <1>4, <1>5

-----------------------------------------------------------------------------
(* One signal per activation                                                *)

\* The trading services have heard of symbol s in activation g.
Heard(s, g) == \E i \in DOMAIN heard : heard[i].sym = s /\ heard[i].gen = g
Busy(s, g) == \E t \in Tasks : pc[t] \in Pending /\ job[t].sym = s /\ obj[t] = g

(* A task delivers what the state object it holds has emitted, and is the    *)
(* only one to do it; the object stays locked.                               *)
PendingInv(t) ==
    pc[t] \in Pending =>
        /\ obj[t] \in 1..gen
        /\ st[obj[t]][job[t].sym] # None
        /\ st[obj[t]][job[t].sym].locked
        /\ Sig(t) \in Signal /\ Sig(t).sym = job[t].sym /\ Sig(t).gen = obj[t]
        /\ ~Heard(job[t].sym, obj[t])

OnePerObject ==
    \A t, u \in Tasks :
        pc[t] \in Pending /\ pc[u] \in Pending /\ job[t].sym = job[u].sym /\ obj[t] = obj[u]
          => t = u

(* What was heard in the activation under way has locked its symbol.         *)
HeardInv ==
    \A i \in DOMAIN heard :
        /\ heard[i].gen <= gen
        /\ active /\ heard[i].gen = gen =>
              st[gen][heard[i].sym] # None /\ st[gen][heard[i].sym].locked

EmissionInv ==
    /\ \A t \in Tasks : PendingInv(t)
    /\ OnePerObject
    /\ HeardInv
    /\ OneSignalPerActivation

LEMMA EmissionInvInit == Init => EmissionInv
<1> SUFFICES ASSUME Init PROVE EmissionInv
  OBVIOUS
<1>1. \A t \in Tasks : pc[t] \notin Pending
  BY DEF Init, Pending
<1>2. DOMAIN heard = {}
  BY DEF Init
<1> QED
  BY <1>1, <1>2 DEF EmissionInv, PendingInv, OnePerObject, HeardInv, OneSignalPerActivation

(* No state object of an activation so far is unlocked or replaced.          *)
LocksKept ==
    \A g \in 1..gen, s \in Symbols :
        st[g][s] # None /\ st[g][s].locked =>
            /\ st'[g][s] # None /\ st'[g][s].locked
            /\ st'[g][s].emitted = st[g][s].emitted

(* A step that emits and delivers nothing.                                   *)
LEMMA QuietPreserves ==
    ASSUME TypeInv, EmissionInv, LocksKept, heard' = heard,
           gen' \in Nat, gen <= gen', active' => gen' # gen \/ active,
           \A t \in Tasks : pc'[t] \in Pending =>
               pc[t] \in Pending /\ obj'[t] = obj[t] /\ job'[t] = job[t]
    PROVE  EmissionInv'
<1>0. gen \in Nat
  BY DEF TypeInv
<1>1. ASSUME NEW t \in Tasks PROVE PendingInv(t)'
  <2>1. CASE pc'[t] \in Pending
    <3>1. pc[t] \in Pending /\ obj'[t] = obj[t] /\ job'[t] = job[t]
      BY <2>1
    <3>2. obj[t] \in 1..gen /\ job[t].sym \in Symbols
      BY <3>1 DEF EmissionInv, PendingInv, TypeInv, Handling, Candle
    <3>3. /\ st'[obj[t]][job[t].sym] # None /\ st'[obj[t]][job[t].sym].locked
          /\ st'[obj[t]][job[t].sym].emitted = st[obj[t]][job[t].sym].emitted
      BY <3>1, <3>2 DEF EmissionInv, PendingInv, LocksKept
    <3>4. obj'[t] \in 1..gen'
      BY <1>0, <3>1, <3>2
    <3>5. PendingInv(t)
      BY DEF EmissionInv
    <3>6. Sig(t) \in Signal /\ Sig(t).sym = job[t].sym /\ Sig(t).gen = obj[t]
      BY <3>1, <3>5 DEF PendingInv
    <3>7. ~Heard(job[t].sym, obj[t])
      BY <3>1, <3>5 DEF PendingInv
    <3>8. Sig(t)' = Sig(t)
      BY <3>1, <3>3 DEF Sig
    <3>9. ~Heard(job[t].sym, obj[t])'
      BY <3>1, <3>7 DEF Heard
    <3> QED
      BY <3>1, <3>3, <3>4, <3>6, <3>8, <3>9 DEF PendingInv
  <2> QED
    BY <2>1 DEF PendingInv
<1>2. OnePerObject'
  BY DEF EmissionInv, OnePerObject
<1>3. HeardInv'
  <2> SUFFICES ASSUME NEW i \in DOMAIN heard
               PROVE  /\ heard[i].gen <= gen'
                      /\ active' /\ heard[i].gen = gen' =>
                           st'[gen'][heard[i].sym] # None /\ st'[gen'][heard[i].sym].locked
    BY DEF HeardInv
  <2>1. heard[i] \in Signal
    BY DEF TypeInv
  <2>2. heard[i].gen \in 1..MaxGen /\ heard[i].sym \in Symbols /\ heard[i].gen <= gen
    BY <2>1 DEF Signal, EmissionInv, HeardInv
  <2>3. CASE active' /\ heard[i].gen = gen'
    <3>1. gen' = gen /\ active /\ gen \in 1..gen
      BY <1>0, <2>2, <2>3
    <3> QED
      BY <2>2, <2>3, <3>1 DEF EmissionInv, HeardInv, LocksKept
  <2> QED
    BY <1>0, <2>2, <2>3
<1>4. OneSignalPerActivation'
  BY DEF EmissionInv, OneSignalPerActivation
<1> QED
  BY <1>1, <1>2, <1>3, <1>4 DEF EmissionInv

(* A capture leaves locks and emitted signals alone.                         *)
LEMMA CaptureKeepsLocks ==
    ASSUME TypeInv, NEW c \in Candle,
           st' = IF active /\ st[gen][c.sym] # None /\ Captures(st[gen][c.sym], c)
                 THEN [st EXCEPT ![gen][c.sym] = Capture(st[gen][c.sym], c)] ELSE st
    PROVE  LocksKept
<1> DEFINE e == st[gen][c.sym]
<1>0. c.sym \in Symbols
  BY DEF Candle
<1>1. CASE active /\ e # None /\ Captures(e, c)
  <2>1. gen \in 1..MaxGen /\ e \in SymbolState
    BY <1>0, <1>1, SMTT(30) DEF TypeInv
  <2>2. /\ Capture(e, c) \in SymbolState
        /\ Capture(e, c).locked = e.locked /\ Capture(e, c).emitted = e.emitted
    BY <2>1, CaptureIs
  <2>3. \A g \in 1..MaxGen, s \in Symbols :
          st'[g][s] = IF g = gen /\ s = c.sym THEN Capture(e, c) ELSE st[g][s]
    BY <1>0, <1>1, <2>1 DEF TypeInv
  <2>4. Capture(e, c) # None
    BY <2>2, NoneAssumption
  <2>5. \A g \in 1..gen : g \in 1..MaxGen
    BY <2>1, PipelineAssumption
  <2>6. /\ Capture(e, c).locked = st[gen][c.sym].locked
        /\ Capture(e, c).emitted = st[gen][c.sym].emitted
    BY <2>2
  <2> HIDE DEF e
  <2> QED
    BY <1>0, <2>3, <2>4, <2>5, <2>6 DEF LocksKept
<1>2. CASE ~(active /\ e # None /\ Captures(e, c))
  BY <1>2 DEF LocksKept
<1> QED
  BY <1>1, <1>2

(* The engine emits on an unlocked symbol, so nothing of this activation was *)
(* heard or is under way.                                                    *)
LEMMA OnCandlePreserves ==
    ASSUME TypeInv, EmissionInv, NEW t \in Tasks, OnCandle(t)
    PROVE  EmissionInv'
<1> DEFINE c == job[t]
           e == st[gen][c.sym]
<1>0. /\ c \in Candle /\ c.sym \in Symbols /\ pc[t] = "closed"
      /\ UNCHANGED <<active, gen, heard, job>>
  BY DEF OnCandle, TypeInv, Handling, Candle, dbVars
<1>1. CASE /\ active /\ e # None /\ ~e.locked
           /\ \E d \in Breakout(e, c) :
                /\ st' = [st EXCEPT ![gen][c.sym].locked = TRUE,
                                    ![gen][c.sym].emitted = BuildSignal(c, d)]
                /\ obj' = [obj EXCEPT ![t] = gen]
                /\ pc' = [pc EXCEPT ![t] = "insert"]
  <2>1. PICK d \in Side :
          /\ st' = [st EXCEPT ![gen][c.sym].locked = TRUE,
                              ![gen][c.sym].emitted = BuildSignal(c, d)]
          /\ obj' = [obj EXCEPT ![t] = gen]
          /\ pc' = [pc EXCEPT ![t] = "insert"]
    BY <1>1 DEF Breakout
  <2>2. gen \in 1..MaxGen /\ e \in SymbolState
    BY <1>0, <1>1 DEF TypeInv
  <2>3. /\ BuildSignal(c, d) \in Signal
        /\ BuildSignal(c, d).sym = c.sym /\ BuildSignal(c, d).gen = gen
    BY <1>0, <2>2, SignalIs
  <2> DEFINE x == [e EXCEPT !.locked = TRUE, !.emitted = BuildSignal(c, d)]
  <2>4. x \in SymbolState /\ x.locked /\ x.emitted = BuildSignal(c, d) /\ x # None
    <3>1. x \in SymbolState /\ x.locked /\ x.emitted = BuildSignal(c, d)
      BY <2>2, <2>3 DEF SymbolState
    <3> QED
      BY <3>1, NoneAssumption
  <2>5. \A g \in 1..MaxGen, s \in Symbols :
          st'[g][s] = IF g = gen /\ s = c.sym THEN x ELSE st[g][s]
    BY <1>0, <2>1, <2>2 DEF TypeInv
  <2> HIDE DEF x, c, e
  <2>6. ~Heard(c.sym, gen) /\ ~Busy(c.sym, gen)
    <3>1. ~Heard(c.sym, gen)
      BY <1>1 DEF Heard, EmissionInv, HeardInv, e
    <3>2. ~Busy(c.sym, gen)
      BY <1>1 DEF Busy, EmissionInv, PendingInv, e
    <3> QED
      BY <3>1, <3>2
  <2>7. /\ pc'[t] = "insert" /\ obj'[t] = gen /\ t \in Tasks
        /\ \A u \in Tasks \ {t} : pc'[u] = pc[u] /\ obj'[u] = obj[u]
    BY <2>1 DEF TypeInv
  <2>8. PendingInv(t)'
    <3>1. st'[gen][c.sym] = x
      BY <1>0, <2>2, <2>5
    <3> QED
      BY <1>0, <2>2, <2>3, <2>4, <2>6, <2>7, <3>1 DEF PendingInv, Sig, Heard, c
  <2>9. ASSUME NEW u \in Tasks \ {t} PROVE PendingInv(u)'
    <3>1. CASE pc[u] \in Pending
      <4>1. obj[u] \in 1..MaxGen /\ job[u].sym \in Symbols /\ ~(obj[u] = gen /\ job[u].sym = c.sym)
        <5>1. obj[u] \in 1..gen /\ job[u] \in Candle
          BY <3>1 DEF EmissionInv, PendingInv, TypeInv, Handling
        <5>2. ~(obj[u] = gen /\ job[u].sym = c.sym)
          BY <2>6, <3>1 DEF Busy
        <5>3. gen <= MaxGen /\ gen \in Int /\ MaxGen \in Int
          BY PipelineAssumption DEF TypeInv
        <5> QED
          BY <5>1, <5>2, <5>3 DEF Candle
      <4>2. st'[obj[u]][job[u].sym] = st[obj[u]][job[u].sym]
        BY <2>5, <4>1
      <4>3. PendingInv(u)
        BY DEF EmissionInv
      <4>4. Sig(u)' = Sig(u)
        BY <1>0, <2>7, <4>2 DEF Sig
      <4>5. ~Heard(job[u].sym, obj[u]) => ~Heard(job[u].sym, obj[u])'
        BY <1>0, <2>7 DEF Heard
      <4> QED
        BY <1>0, <2>7, <3>1, <4>2, <4>3, <4>4, <4>5 DEF PendingInv
    <3> QED
      BY <2>7, <3>1 DEF PendingInv
  <2>10. OnePerObject'
    <3> SUFFICES ASSUME NEW u \in Tasks, NEW w \in Tasks, pc'[u] \in Pending, pc'[w] \in Pending,
                        job[u].sym = job[w].sym, obj'[u] = obj'[w], u # w
                 PROVE  FALSE
      BY <1>0 DEF OnePerObject
    <3>1. CASE u # t /\ w # t
      BY <2>7, <3>1 DEF EmissionInv, OnePerObject
    <3>2. CASE u = t
      BY <2>6, <2>7, <3>2 DEF Busy, c
    <3>3. CASE w = t
      BY <2>6, <2>7, <3>3 DEF Busy, c
    <3> QED
      BY <3>1, <3>2, <3>3
  <2>11. HeardInv'
    <3> SUFFICES ASSUME NEW i \in DOMAIN heard
                 PROVE  /\ heard[i].gen <= gen
                        /\ active /\ heard[i].gen = gen =>
                             st'[gen][heard[i].sym] # None /\ st'[gen][heard[i].sym].locked
      BY <1>0 DEF HeardInv
    <3>1. heard[i] \in Signal
      BY DEF TypeInv
    <3>2. heard[i].sym \in Symbols
      BY <3>1 DEF Signal
    <3> QED
      BY <2>2, <2>4, <2>5, <3>2 DEF EmissionInv, HeardInv
  <2>12. OneSignalPerActivation'
    BY <1>0 DEF EmissionInv, OneSignalPerActivation
  <2> QED
    BY <2>8, <2>9, <2>10, <2>11, <2>12 DEF EmissionInv
<1>2. CASE /\ st' = IF active /\ e # None /\ Captures(e, c)
                    THEN [st EXCEPT ![gen][c.sym] = Capture(e, c)] ELSE st
           /\ UNCHANGED obj /\ pc' = [pc EXCEPT ![t] = "mirror"]
  <2>1. LocksKept
    BY <1>0, <1>2, CaptureKeepsLocks
  <2>2. \A u \in Tasks : pc'[u] \in Pending => pc[u] \in Pending
    BY <1>2 DEF TypeInv, Pending
  <2> HIDE DEF c, e
  <2> QED
    BY <1>0, <1>2, <2>1, <2>2, QuietPreserves DEF TypeInv
<1>3. QED
  <2>1. CASE active /\ e # None /\ MayEnter(e, c) /\ Breakout(e, c) # {}
    BY <1>1, <2>1 DEF OnCandle, Goto, MayEnter
  <2>2. CASE ~(active /\ e # None /\ MayEnter(e, c) /\ Breakout(e, c) # {})
    <3>1. CASE active
      BY <1>2, <2>2, <3>1 DEF OnCandle, Goto
    <3>2. CASE ~active
      BY <1>2, <2>2, <3>2 DEF OnCandle, Goto
    <3> QED
      BY <3>1, <3>2
  <2> QED
    BY <2>1, <2>2

LEMMA DeliverPreserves ==
    ASSUME TypeInv, EmissionInv, NEW t \in Tasks, Deliver(t)
    PROVE  EmissionInv'
<1> DEFINE x == Sig(t)
<1>1. /\ pc[t] = "deliver" /\ heard' = Append(heard, x) /\ pc' = [pc EXCEPT ![t] = "mirror"]
      /\ UNCHANGED <<active, gen, st, job, obj>>
  BY DEF Deliver, Goto, engineVars
<1>2. /\ obj[t] \in 1..gen /\ x \in Signal /\ x.sym = job[t].sym /\ x.gen = obj[t]
      /\ st[obj[t]][x.sym] # None /\ st[obj[t]][x.sym].locked
      /\ ~Heard(x.sym, x.gen)
  BY <1>1 DEF EmissionInv, PendingInv, Pending
<1> HIDE DEF x
<1>3. /\ DOMAIN heard' = 1..(Len(heard) + 1) /\ DOMAIN heard = 1..Len(heard)
      /\ heard'[Len(heard) + 1] = x /\ Len(heard) \in Nat
      /\ \A i \in 1..Len(heard) : heard'[i] = heard[i]
  BY <1>1, <1>2 DEF TypeInv
<1>4. pc'[t] = "mirror" /\ \A u \in Tasks \ {t} : pc'[u] = pc[u]
  BY <1>1 DEF TypeInv
<1>5. ASSUME NEW u \in Tasks PROVE PendingInv(u)'
  <2>1. CASE pc'[u] \in Pending
    <3>1. u # t /\ pc[u] \in Pending
      BY <1>4, <2>1 DEF Pending
    <3>2. ~(job[u].sym = x.sym /\ obj[u] = x.gen)
      BY <1>1, <1>2, <3>1 DEF EmissionInv, OnePerObject, Pending
    <3>3. ~Heard(job[u].sym, obj[u])'
      BY <1>1, <1>3, <3>1, <3>2 DEF EmissionInv, PendingInv, Heard
    <3> QED
      BY <1>1, <3>1, <3>3 DEF EmissionInv, PendingInv, Sig
  <2> QED
    BY <2>1 DEF PendingInv
<1>6. OnePerObject'
  <2>1. \A u \in Tasks : pc'[u] \in Pending => pc[u] \in Pending
    BY <1>4 DEF Pending
  <2> QED
    BY <1>1, <2>1 DEF EmissionInv, OnePerObject
<1>7. HeardInv'
  BY <1>1, <1>2, <1>3 DEF EmissionInv, HeardInv
<1>8. OneSignalPerActivation'
  BY <1>2, <1>3 DEF EmissionInv, OneSignalPerActivation, Heard
<1> QED
  BY <1>5, <1>6, <1>7, <1>8 DEF EmissionInv

LEMMA DispatchPreserves ==
    ASSUME TypeInv, EmissionInv, NEW t \in Tasks,
           \/ InsertSignal(t) \/ UpdateStateForSignal(t) \/ MarkBroadcast(t)
           \/ HandleBuiltCandle(t)
    PROVE  EmissionInv'
<1>1. /\ UNCHANGED <<active, gen, heard>>
      /\ \A u \in Tasks : pc'[u] \in Pending =>
            pc[u] \in Pending /\ obj'[u] = obj[u] /\ job'[u] = job[u]
  BY DEF InsertSignal, UpdateStateForSignal, MarkBroadcast, HandleBuiltCandle, EndCandle,
         Goto, TypeInv, Pending, engineVars
<1>2. LocksKept
  <2>1. CASE st' = st
    BY <2>1 DEF LocksKept
  <2>2. CASE InsertSignal(t) /\ LockSymbol(job[t].sym)
    <3>1. job[t].sym \in Symbols
      BY <2>2 DEF InsertSignal, TypeInv, Handling, Pending, Candle
    <3>2. \A g \in 1..gen : g \in 1..MaxGen
      BY PipelineAssumption DEF TypeInv
    <3>3. \A g \in 1..MaxGen, r \in Symbols :
            /\ st[g][r] = None <=> st'[g][r] = None
            /\ st[g][r] # None =>
                 /\ st'[g][r].emitted = st[g][r].emitted
                 /\ st[g][r].locked => st'[g][r].locked
      BY <2>2, <3>1, LockSymbolIs
    <3> QED
      BY <3>2, <3>3 DEF LocksKept
  <2> QED
    BY <2>1, <2>2 DEF InsertSignal, UpdateStateForSignal, MarkBroadcast, HandleBuiltCandle,
                      engineVars
<1> QED
  BY <1>1, <1>2, QuietPreserves DEF TypeInv

LEMMA FeedTickPreserves ==
    ASSUME TypeInv, EmissionInv, NEW f \in Feeders, NEW s \in Symbols, NEW slot \in Slots,
           NEW p \in Prices, FeedTick(f, s, slot, p)
    PROVE  EmissionInv'
<1>1. /\ UNCHANGED <<active, gen, st, heard, obj>>
      /\ pc[f] = "idle"
      /\ \/ UNCHANGED <<pc, job>>
         \/ /\ pc' = [pc EXCEPT ![f] = "closed"]
            /\ job' = [job EXCEPT ![f] = bucket[s]]
  BY DEF FeedTick, Goto, engineVars
<1>2. \A u \in Tasks : pc'[u] \in Pending =>
         pc[u] \in Pending /\ obj'[u] = obj[u] /\ job'[u] = job[u]
  BY <1>1 DEF TypeInv, Pending
<1> QED
  BY <1>1, <1>2, QuietPreserves DEF TypeInv, LocksKept

LEMMA OperatorPreserves ==
    ASSUME TypeInv, EmissionInv, NEW o \in Operators,
           OperatorStep(o) \/ Start(o) \/ \E why \in {"stop", "reset"} : CallStop(o, why)
    PROVE  EmissionInv'
<1> USE DEF Goto, Pending, Tasks, engineVars
<1>1. CASE EngineStart(o)
  <2>1. PICK list \in SUBSET Symbols :
          /\ st' = [st EXCEPT ![gen + 1] = [s \in Symbols |-> IF s \in list THEN FreshState ELSE None]]
          /\ gen' = gen + 1
    BY <1>1 DEF EngineStart, Activate
  <2>2. LocksKept
    BY <2>1 DEF LocksKept, TypeInv
  <2>3. /\ heard' = heard /\ obj' = obj /\ job' = job
        /\ \A u \in Tasks : pc'[u] \in Pending => pc[u] \in Pending
    BY <1>1 DEF EngineStart, TypeInv
  <2> QED
    BY <2>1, <2>2, <2>3, QuietPreserves DEF TypeInv
<1>2. CASE \E s \in Symbols : FlushSymbol(o, s)
  <2>1. /\ UNCHANGED <<active, gen, st, heard, obj>>
        /\ \A u \in Tasks : pc'[u] \in Pending =>
             pc[u] \in Pending /\ obj'[u] = obj[u] /\ job'[u] = job[u]
    BY <1>2 DEF FlushSymbol, TypeInv
  <2> QED
    BY <2>1, QuietPreserves DEF TypeInv, LocksKept
<1>3. CASE \/ SeedStateRows(o) \/ Start(o) \/ EngineStop(o) \/ EngineStopped(o)
           \/ DropBuckets(o) \/ DeleteRows(o)
           \/ \E why \in {"stop", "reset"} : CallStop(o, why)
  <2>1. /\ UNCHANGED <<gen, st, heard, obj, job>> /\ (active' => active)
        /\ \A u \in Tasks : pc'[u] \in Pending => pc[u] \in Pending
    BY <1>3 DEF SeedStateRows, Start, EngineStop, EngineStopped, DropBuckets, DeleteRows,
                CallStop, AfterStop, TypeInv
  <2> QED
    BY <2>1, QuietPreserves DEF TypeInv, LocksKept
<1> QED
  BY <1>1, <1>2, <1>3 DEF OperatorStep

(* add_candidate replaces no state object.                                   *)
LEMMA CandidateKeepsLocks ==
    ASSUME TypeInv, NEW s \in Symbols, AddCandidate(s)
    PROVE  LocksKept
<1>1. CASE active /\ st[gen][s] = None
  <2>1. gen \in 1..MaxGen /\ st' = [st EXCEPT ![gen][s] = FreshState]
    BY <1>1 DEF AddCandidate, TypeInv
  <2>2. \A g \in 1..MaxGen, r \in Symbols :
          st'[g][r] = IF g = gen /\ r = s THEN FreshState ELSE st[g][r]
    BY <2>1 DEF TypeInv
  <2> QED
    BY <1>1, <2>1, <2>2 DEF LocksKept, TypeInv
<1>2. CASE st' = st
  BY <1>2 DEF LocksKept
<1> QED
  BY <1>1, <1>2 DEF AddCandidate

LEMMA OtherPreserves ==
    ASSUME TypeInv, EmissionInv,
           \/ DeactivateJob \/ Restart \/ UNCHANGED vars
           \/ \E s \in Symbols : AddSymbol(s) \/ RemoveSymbol(s)
    PROVE  EmissionInv'
<1>1. CASE DeactivateJob \/ UNCHANGED vars \/ \E s \in Symbols : RemoveSymbol(s)
  <2>1. UNCHANGED <<gen, st, heard, obj, job, pc>> /\ (active' => active)
    BY <1>1 DEF DeactivateJob, RemoveSymbol, vars, engineVars
  <2> QED
    BY <2>1, QuietPreserves DEF TypeInv, LocksKept
<1>2. CASE Restart
  <2>1. /\ gen' = gen /\ heard' = heard /\ ~active'
        /\ \A u \in Tasks : pc'[u] \notin Pending
    BY <1>2 DEF Restart, Pending
  <2> QED
    BY <2>1 DEF EmissionInv, PendingInv, OnePerObject, HeardInv, OneSignalPerActivation
<1>3. ASSUME NEW s \in Symbols, AddSymbol(s) PROVE EmissionInv'
  <2>1. UNCHANGED <<active, gen, heard, obj, job, pc>>
    BY <1>3 DEF AddSymbol
  <2>2. LocksKept
    BY <1>3, CandidateKeepsLocks DEF AddSymbol
  <2> QED
    BY <2>1, <2>2, QuietPreserves DEF TypeInv
<1> QED
  BY <1>1, <1>2, <1>3

LEMMA EmissionInvNext ==
    TypeInv /\ EmissionInv /\ [Next]_vars => TypeInv' /\ EmissionInv'
<1> SUFFICES ASSUME TypeInv, EmissionInv, [Next]_vars PROVE TypeInv' /\ EmissionInv'
  OBVIOUS
<1>1. ASSUME NEW f \in Feeders, NEW s \in Symbols, NEW slot \in Slots, NEW p \in Prices,
             FeedTick(f, s, slot, p)
      PROVE  TypeInv' /\ EmissionInv'
  BY <1>1, FeedTickTypes, FeedTickPreserves
<1>2. ASSUME NEW t \in Tasks, CandleStep(t) PROVE TypeInv' /\ EmissionInv'
  <2>1. CASE OnCandle(t)
    BY <2>1, OnCandleTypes, OnCandlePreserves
  <2>2. CASE Deliver(t)
    <3>1. Sig(t) \in Signal
      BY <2>2 DEF Deliver, EmissionInv, PendingInv, Pending
    <3> QED
      BY <2>2, <3>1, DispatchTypes, DeliverPreserves
  <2>3. CASE \/ InsertSignal(t) \/ UpdateStateForSignal(t) \/ MarkBroadcast(t)
             \/ HandleBuiltCandle(t)
    BY <2>3, DispatchTypes, DispatchPreserves
  <2> QED
    BY <1>2, <2>1, <2>2, <2>3 DEF CandleStep
<1>3. ASSUME NEW o \in Operators,
             OperatorStep(o) \/ Start(o) \/ \E why \in {"stop", "reset"} : CallStop(o, why)
      PROVE  TypeInv' /\ EmissionInv'
  BY <1>3, OperatorTypes, OperatorPreserves
<1>4. ASSUME \/ DeactivateJob \/ Restart \/ UNCHANGED vars
             \/ \E s \in Symbols : AddSymbol(s) \/ RemoveSymbol(s)
      PROVE  TypeInv' /\ EmissionInv'
  BY <1>4, OtherTypes, OtherPreserves
<1> QED
  BY <1>1, <1>2, <1>3, <1>4 DEF Next

(* What was heard, what is locked and what is about to be delivered belong   *)
(* together, in each activation (signal_engine.py: on_candle).               *)
THEOREM EmissionInvariant == Spec => [](TypeInv /\ EmissionInv)
<1> QED
  BY TypeInvInit, EmissionInvInit, EmissionInvNext, PTL DEF Spec

(* The trading services hear at most one signal of a symbol in an activation *)
(* of the engine, for any number of feeders, replays, faults, restarts and   *)
(* callers of start (signal_engine.py: on_candle locks before it dispatches; *)
(* lock_symbol).                                                             *)
THEOREM OneSignalTheorem == FairSpec => []OneSignalPerActivation
<1>1. EmissionInv => OneSignalPerActivation
  BY DEF EmissionInv
<1> QED
  BY <1>1, EmissionInvariant, PTL DEF FairSpec

-----------------------------------------------------------------------------
(* The pipeline implements SignalService                                    *)

(* The signal a task is to mark as broadcast is the one on record.           *)
KeptInv ==
    /\ DOMAIN signals = Symbols
    /\ \A t \in Tasks : pc[t] \in {"state", "status"} =>
          signals[job[t].sym] = [signal |-> Sig(t), status |-> "NEW"]

LEMMA KeptInvInit == Init => KeptInv
BY DEF Init, KeptInv

LEMMA PendingSignal ==
    ASSUME TypeInv, EmissionInv, NEW t \in Tasks, pc[t] \in Pending
    PROVE  /\ job[t].sym \in Symbols /\ obj[t] \in 1..gen
           /\ Sig(t) \in Signal /\ Sig(t).sym = job[t].sym /\ Sig(t).gen = obj[t]
BY DEF EmissionInv, PendingInv, TypeInv, Handling, Candle

(* No two tasks dispatch the same signal.                                    *)
LEMMA PendingDiffer ==
    ASSUME TypeInv, EmissionInv, NEW t \in Tasks, NEW u \in Tasks,
           pc[t] \in Pending, pc[u] \in Pending, Sig(t) = Sig(u)
    PROVE  t = u
<1>1. job[t].sym = job[u].sym /\ obj[t] = obj[u]
  BY PendingSignal
<1> QED
  BY <1>1 DEF EmissionInv, OnePerObject

(* A task that goes on dispatching keeps its signal.                         *)
LEMMA SignalKept ==
    ASSUME TypeInv, EmissionInv, LocksKept, NEW t \in Tasks, pc[t] \in Pending,
           obj'[t] = obj[t], job'[t] = job[t]
    PROVE  Sig(t)' = Sig(t)
<1>1. /\ obj[t] \in 1..gen /\ job[t].sym \in Symbols
      /\ st[obj[t]][job[t].sym] # None /\ st[obj[t]][job[t].sym].locked
  BY PendingSignal DEF EmissionInv, PendingInv
<1>2. st'[obj[t]][job[t].sym].emitted = st[obj[t]][job[t].sym].emitted
  BY <1>1 DEF LocksKept
<1> QED
  BY <1>2 DEF Sig

(* One task goes on to its next place.                                       *)
LEMMA OneMoves ==
    ASSUME TypeInv, EmissionInv, LocksKept, NEW t \in Tasks, NEW l, NEW P \in SUBSET Pending,
           pc[t] \in Pending, pc' = [pc EXCEPT ![t] = l], obj' = obj, job' = job
    PROVE  SignalsAt(P)' = IF l \in P THEN SignalsAt(P) \cup {Sig(t)}
                                      ELSE SignalsAt(P) \ {Sig(t)}
<1>1. pc'[t] = l /\ \A u \in Tasks \ {t} : pc'[u] = pc[u]
  BY DEF TypeInv
<1>2. \A u \in Tasks : pc[u] \in Pending => Sig(u)' = Sig(u)
  BY SignalKept
<1>3. \A u \in Tasks \ {t} : pc[u] \in P => Sig(u) # Sig(t)
  BY PendingDiffer
<1>4. SignalsAt(P)' = {Sig(u)' : u \in {v \in Tasks : pc'[v] \in P}}
  BY DEF SignalsAt
<1>5. ASSUME NEW x
      PROVE  x \in SignalsAt(P)' <=> \/ l \in P /\ x = Sig(t)
                                     \/ \E u \in Tasks \ {t} : pc[u] \in P /\ x = Sig(u)
  <2>1. x \in SignalsAt(P)' <=> \E u \in Tasks : pc'[u] \in P /\ x = Sig(u)'
    BY <1>4
  <2>2. (\E u \in Tasks : pc'[u] \in P /\ x = Sig(u)')
          <=> \/ pc'[t] \in P /\ x = Sig(t)'
              \/ \E u \in Tasks \ {t} : pc'[u] \in P /\ x = Sig(u)'
    OBVIOUS
  <2>3. (\E u \in Tasks \ {t} : pc'[u] \in P /\ x = Sig(u)')
          <=> \E u \in Tasks \ {t} : pc[u] \in P /\ x = Sig(u)
    BY <1>1, <1>2
  <2> QED
    BY <1>1, <1>2, <2>1, <2>2, <2>3
<1>6. \A x : x \in SignalsAt(P) <=> \/ pc[t] \in P /\ x = Sig(t)
                                    \/ \E u \in Tasks \ {t} : pc[u] \in P /\ x = Sig(u)
  BY DEF SignalsAt
<1>7. CASE l \in P
  BY <1>5, <1>6, <1>7
<1>8. CASE l \notin P
  BY <1>3, <1>5, <1>6, <1>8
<1> QED
  BY <1>7, <1>8

(* A step in which no task begins, goes on with or ends a dispatch.          *)
SameDispatches ==
    /\ LocksKept
    /\ \A t \in Tasks : /\ pc'[t] \in Pending \/ pc[t] \in Pending => pc'[t] = pc[t]
                        /\ pc[t] \in Pending => obj'[t] = obj[t] /\ job'[t] = job[t]

LEMMA SameSignals ==
    ASSUME TypeInv, EmissionInv, SameDispatches, NEW P \in SUBSET Pending
    PROVE  SignalsAt(P)' = SignalsAt(P)
<1>1. \A u \in Tasks : pc[u] \in Pending => Sig(u)' = Sig(u)
  BY SignalKept DEF SameDispatches
<1>2. \A u \in Tasks : pc'[u] \in P <=> pc[u] \in P
  BY DEF SameDispatches
<1>3. SignalsAt(P)' = {Sig(u)' : u \in {v \in Tasks : pc'[v] \in P}}
  BY DEF SignalsAt
<1> QED
  BY <1>1, <1>2, <1>3 DEF SignalsAt

LEMMA SameKept ==
    ASSUME TypeInv, EmissionInv, KeptInv, SameDispatches, signals' = signals
    PROVE  KeptInv'
<1> SUFFICES ASSUME NEW t \in Tasks, pc'[t] \in {"state", "status"}
             PROVE  signals'[job'[t].sym] = [signal |-> Sig(t)', status |-> "NEW"]
  BY DEF KeptInv
<1>1. pc[t] = pc'[t] /\ pc[t] \in Pending /\ job'[t] = job[t] /\ obj'[t] = obj[t]
  BY DEF SameDispatches, Pending
<1>2. Sig(t)' = Sig(t)
  BY <1>1, SignalKept DEF SameDispatches
<1> QED
  BY <1>1, <1>2 DEF KeptInv

\* The sets of signals of the refinement mapping.
Emitted == SignalsAt({"insert"})
Kept == SignalsAt({"state", "status"})
Ready == SignalsAt({"deliver"})

ServiceStep == Service!Next \/ UNCHANGED <<active, gen, Emitted, Kept, Ready, signals, heard, troubles>>

LEMMA SamePlaces ==
    ASSUME TypeInv, EmissionInv, SameDispatches
    PROVE  Emitted' = Emitted /\ Kept' = Kept /\ Ready' = Ready
<1>1. {"insert"} \in SUBSET Pending /\ {"state", "status"} \in SUBSET Pending
      /\ {"deliver"} \in SUBSET Pending
  BY DEF Pending
<1> QED
  BY <1>1, SameSignals DEF Emitted, Kept, Ready

(* The steps that emit, store and deliver nothing.                           *)
LEMMA QuietRefines ==
    ASSUME TypeInv, EmissionInv, KeptInv, SameDispatches, UNCHANGED <<signals, heard>>,
           \/ UNCHANGED <<active, gen>> /\ (troubles' = troubles \/ troubles' = troubles + 1)
           \/ active' = TRUE /\ gen' = gen + 1 /\ UNCHANGED troubles
           \/ /\ active' = FALSE /\ UNCHANGED gen
              /\ troubles' = troubles \/ troubles' = troubles + 1
    PROVE  KeptInv' /\ ServiceStep
<1>1. Emitted' = Emitted /\ Kept' = Kept /\ Ready' = Ready
  BY SamePlaces
<1>2. SUFFICES ServiceStep
  BY SameKept
<1>3. CASE UNCHANGED <<active, gen, troubles>>
  BY <1>1, <1>3 DEF ServiceStep
<1>4. CASE UNCHANGED <<active, gen>> /\ troubles' = troubles + 1
  <2>1. Service!Disturbance
    BY <1>1, <1>4 DEF Service!Disturbance, Service!Fault, Emitted, Kept, Ready
  <2> QED
    BY <2>1 DEF ServiceStep, Service!Next
<1>5. CASE active' = TRUE /\ gen' = gen + 1 /\ UNCHANGED troubles
  <2>1. Service!Activate
    BY <1>1, <1>5 DEF Service!Activate, Emitted, Kept, Ready
  <2> QED
    BY <2>1 DEF ServiceStep, Service!Next
<1>6. CASE active /\ active' = FALSE /\ UNCHANGED gen
           /\ (troubles' = troubles \/ troubles' = troubles + 1)
  <2>1. Service!Deactivate
    BY <1>1, <1>6 DEF Service!Deactivate, Service!Fault, Emitted, Kept, Ready
  <2> QED
    BY <2>1 DEF ServiceStep, Service!Next
<1> QED
  BY <1>3, <1>4, <1>5, <1>6 DEF TypeInv

(* on_candle emits on a symbol of which nothing was heard or is under way in *)
(* this activation.                                                          *)
LEMMA OnCandleRefines ==
    ASSUME TypeInv, EmissionInv, KeptInv, NEW t \in Tasks, OnCandle(t)
    PROVE  KeptInv' /\ ServiceStep
<1> DEFINE c == job[t]
           e == st[gen][c.sym]
<1>0. /\ c \in Candle /\ c.sym \in Symbols /\ pc[t] = "closed"
      /\ UNCHANGED <<active, gen, heard, job, signals, troubles>>
  BY DEF OnCandle, TypeInv, Handling, Candle, dbVars
<1>1. TypeInv' /\ EmissionInv'
  BY OnCandleTypes, OnCandlePreserves
<1>2. CASE /\ active /\ e # None /\ ~e.locked
           /\ \E d \in Breakout(e, c) :
                /\ st' = [st EXCEPT ![gen][c.sym].locked = TRUE,
                                    ![gen][c.sym].emitted = BuildSignal(c, d)]
                /\ obj' = [obj EXCEPT ![t] = gen]
                /\ pc' = [pc EXCEPT ![t] = "insert"]
  <2>1. PICK x : st' = [st EXCEPT ![gen][c.sym].locked = TRUE, ![gen][c.sym].emitted = x]
    BY <1>2
  <2>2. /\ pc'[t] = "insert" /\ obj'[t] = gen /\ gen \in 1..MaxGen
        /\ \A u \in Tasks \ {t} : pc'[u] = pc[u] /\ obj'[u] = obj[u]
    BY <1>2 DEF TypeInv
  <2>3. LocksKept
    <3>1. \A g \in 1..MaxGen, s \in Symbols :
            ~(g = gen /\ s = c.sym) => st'[g][s] = st[g][s]
      BY <1>0, <2>1, <2>2 DEF TypeInv
    <3>2. \A g \in 1..gen : g \in 1..MaxGen
      BY <2>2, PipelineAssumption
    <3>3. \A g, s : g = gen /\ s = c.sym => ~st[g][s].locked
      BY <1>2
    <3> HIDE DEF c, e
    <3> QED
      BY <3>1, <3>2, <3>3 DEF LocksKept
  <2> DEFINE y == Sig(t)'
  <2>4. /\ y \in Signal /\ y.sym = c.sym /\ y.gen = gen /\ ~Heard(c.sym, gen)
    <3>1. pc'[t] \in Pending
      BY <2>2 DEF Pending
    <3> QED
      BY <1>0, <1>1, <2>2, <3>1 DEF EmissionInv, PendingInv, Heard
  <2>5. \A u \in Tasks : pc[u] \in Pending => /\ u # t /\ Sig(u)' = Sig(u)
                                              /\ ~(Sig(u).sym = y.sym /\ Sig(u).gen = y.gen)
    <3> SUFFICES ASSUME NEW u \in Tasks, pc[u] \in Pending
                 PROVE  /\ u # t /\ Sig(u)' = Sig(u)
                        /\ ~(Sig(u).sym = y.sym /\ Sig(u).gen = y.gen)
      OBVIOUS
    <3>1. u # t
      BY <1>0 DEF Pending
    <3>2. Sig(u)' = Sig(u)
      BY <1>0, <2>2, <2>3, <3>1, SignalKept
    <3>3. ~(job[u].sym = job[t].sym /\ obj[u] = gen)
      BY <1>0, <1>1, <2>2, <3>1 DEF EmissionInv, OnePerObject, Pending
    <3> QED
      BY <2>4, <3>1, <3>2, <3>3, PendingSignal
  <2> HIDE DEF y, c, e
  <2>6. ASSUME NEW P \in SUBSET Pending
        PROVE  SignalsAt(P)' = SignalsAt(P) \cup (IF "insert" \in P THEN {y} ELSE {})
    <3>1. SignalsAt(P)' = {Sig(u)' : u \in {v \in Tasks : pc'[v] \in P}}
      BY DEF SignalsAt
    <3>2. ASSUME NEW z
          PROVE  z \in SignalsAt(P)' <=> \/ "insert" \in P /\ z = y
                                         \/ \E u \in Tasks : pc[u] \in P /\ z = Sig(u)
      <4>1. z \in SignalsAt(P)' <=> \/ "insert" \in P /\ z = y
                                    \/ \E u \in Tasks \ {t} : pc[u] \in P /\ z = Sig(u)'
        BY <2>2, <3>1 DEF y
      <4>2. pc[t] \notin P
        BY <1>0 DEF Pending
      <4> QED
        BY <2>5, <4>1, <4>2
    <3> QED
      BY <3>2 DEF SignalsAt
  <2>7. Emitted' = Emitted \cup {y} /\ Kept' = Kept /\ Ready' = Ready
    <3>1. {"insert"} \in SUBSET Pending /\ {"state", "status"} \in SUBSET Pending
          /\ {"deliver"} \in SUBSET Pending
      BY DEF Pending
    <3> QED
      BY <2>6, <3>1 DEF Emitted, Kept, Ready
  <2>8. Service!Emit(y)
    <3>1. \A z \in Service!UnderWay : ~(z.sym = y.sym /\ z.gen = y.gen)
      BY <2>5 DEF Service!UnderWay, SignalsAt, Pending
    <3>2. \A z \in Service!Range(heard) : ~(z.sym = y.sym /\ z.gen = y.gen)
      BY <2>4 DEF Service!Range, Heard
    <3> QED
      BY <1>0, <1>2, <2>4, <2>7, <3>1, <3>2 DEF Service!Emit, Emitted, Kept, Ready
  <2>9. ServiceStep
    BY <2>4, <2>8 DEF ServiceStep, Service!Next
  <2>10. KeptInv'
    <3> SUFFICES ASSUME NEW u \in Tasks, pc'[u] \in {"state", "status"}
                 PROVE  signals'[job'[u].sym] = [signal |-> Sig(u)', status |-> "NEW"]
      BY <1>0 DEF KeptInv
    <3>1. u # t /\ pc[u] = pc'[u] /\ pc[u] \in Pending
      BY <2>2 DEF Pending
    <3> QED
      BY <1>0, <2>5, <3>1 DEF KeptInv
  <2> QED
    BY <2>9, <2>10
<1>3. CASE /\ st' = IF active /\ e # None /\ Captures(e, c)
                    THEN [st EXCEPT ![gen][c.sym] = Capture(e, c)] ELSE st
           /\ UNCHANGED obj /\ pc' = [pc EXCEPT ![t] = "mirror"]
  <2>1. LocksKept
    BY <1>0, <1>3, CaptureKeepsLocks
  <2>2. SameDispatches
    BY <1>0, <1>3, <2>1 DEF SameDispatches, Pending, TypeInv
  <2> QED
    BY <1>0, <2>2, QuietRefines
<1> QED
  <2>1. CASE active /\ e # None /\ MayEnter(e, c) /\ Breakout(e, c) # {}
    BY <1>2, <2>1 DEF OnCandle, Goto, MayEnter
  <2>2. CASE ~(active /\ e # None /\ MayEnter(e, c) /\ Breakout(e, c) # {})
    <3>1. CASE active
      BY <1>3, <2>2, <3>1 DEF OnCandle, Goto
    <3>2. CASE ~active
      BY <1>3, <2>2, <3>2 DEF OnCandle, Goto
    <3> QED
      BY <3>1, <3>2
  <2> QED
    BY <2>1, <2>2

(* A dispatching task goes on: what the set of its old and of its new place  *)
(* become.                                                                   *)
Advances(t, l) ==
    /\ pc[t] \in Pending /\ pc' = [pc EXCEPT ![t] = l]
    /\ UNCHANGED <<obj, job, active, gen>>

LEMMA AdvanceMoves ==
    ASSUME TypeInv, EmissionInv, LocksKept, NEW t \in Tasks, NEW l, Advances(t, l)
    PROVE  /\ Emitted' = IF l = "insert" THEN Emitted \cup {Sig(t)} ELSE Emitted \ {Sig(t)}
           /\ Kept' = IF l \in {"state", "status"} THEN Kept \cup {Sig(t)} ELSE Kept \ {Sig(t)}
           /\ Ready' = IF l = "deliver" THEN Ready \cup {Sig(t)} ELSE Ready \ {Sig(t)}
<1>1. {"insert"} \in SUBSET Pending /\ {"state", "status"} \in SUBSET Pending
      /\ {"deliver"} \in SUBSET Pending
  BY DEF Pending
<1>2. \A P \in SUBSET Pending :
        SignalsAt(P)' = IF l \in P THEN SignalsAt(P) \cup {Sig(t)} ELSE SignalsAt(P) \ {Sig(t)}
  BY OneMoves DEF Advances
<1> QED
  BY <1>1, <1>2 DEF Emitted, Kept, Ready

(* A signal is in the set of its task's place and in no other.               *)
LEMMA PlaceOfSignal ==
    ASSUME TypeInv, EmissionInv, NEW t \in Tasks, pc[t] \in Pending
    PROVE  /\ Sig(t) \in Emitted <=> pc[t] = "insert"
           /\ Sig(t) \in Kept <=> pc[t] \in {"state", "status"}
           /\ Sig(t) \in Ready <=> pc[t] = "deliver"
<1>1. ASSUME NEW P \in SUBSET Pending PROVE Sig(t) \in SignalsAt(P) <=> pc[t] \in P
  BY PendingDiffer DEF SignalsAt
<1>2. {"insert"} \in SUBSET Pending /\ {"state", "status"} \in SUBSET Pending
      /\ {"deliver"} \in SUBSET Pending
  BY DEF Pending
<1> QED
  BY <1>1, <1>2 DEF Emitted, Kept, Ready

(* The tasks that are to mark a signal, but for the one that moves.          *)
LEMMA OthersKept ==
    ASSUME TypeInv, EmissionInv, KeptInv, LocksKept, NEW t \in Tasks, NEW l, Advances(t, l),
           DOMAIN signals' = Symbols,
           \A s \in Symbols : s # job[t].sym \/ signals[s] # None
                                => signals'[s] = signals[s] \/ signals[s].signal = Sig(t),
           l \in {"state", "status"} =>
               signals'[job[t].sym] = [signal |-> Sig(t), status |-> "NEW"]
    PROVE  KeptInv'
<1> SUFFICES ASSUME NEW u \in Tasks, pc'[u] \in {"state", "status"}
             PROVE  signals'[job'[u].sym] = [signal |-> Sig(u)', status |-> "NEW"]
  BY DEF KeptInv
<1>1. CASE u = t
  <2>1. Sig(t)' = Sig(t) /\ job' = job /\ l \in {"state", "status"}
    BY <1>1, SignalKept DEF Advances, TypeInv
  <2> QED
    BY <1>1, <2>1
<1>2. CASE u # t
  <2>1. pc[u] = pc'[u] /\ pc[u] \in Pending /\ job' = job /\ obj' = obj
    BY <1>2 DEF Advances, Pending, TypeInv
  <2>2. /\ Sig(u)' = Sig(u) /\ Sig(u) # Sig(t) /\ Sig(u) \in Signal /\ job[u].sym \in Symbols
    BY <1>2, <2>1, SignalKept, PendingDiffer, PendingSignal DEF Advances
  <2>3. signals[job[u].sym] = [signal |-> Sig(u), status |-> "NEW"]
    BY <2>1 DEF KeptInv
  <2>4. signals[job[u].sym] # None
    <3>1. [signal |-> Sig(u), status |-> "NEW"] \in LiveSignal
      BY <2>2 DEF LiveSignal
    <3> QED
      BY <2>3, <3>1, NoneAssumption
  <2> QED
    BY <2>1, <2>2, <2>3, <2>4
<1> QED
  BY <1>1, <1>2

LEMMA LockKeepsLocks ==
    ASSUME TypeInv, NEW s \in Symbols, LockSymbol(s)
    PROVE  LocksKept
<1>1. \A g \in 1..gen : g \in 1..MaxGen
  BY PipelineAssumption DEF TypeInv
<1>2. \A g \in 1..MaxGen, r \in Symbols :
        /\ st[g][r] = None <=> st'[g][r] = None
        /\ st[g][r] # None =>
             /\ st'[g][r].emitted = st[g][r].emitted
             /\ st[g][r].locked => st'[g][r].locked
  BY LockSymbolIs
<1> QED
  BY <1>1, <1>2 DEF LocksKept

(* insert_unique keeps the first signal of a symbol, or refuses, or fails.   *)
LEMMA InsertRefines ==
    ASSUME TypeInv, EmissionInv, KeptInv, NEW t \in Tasks, InsertSignal(t)
    PROVE  KeptInv' /\ ServiceStep
<1> DEFINE s == job[t].sym
           x == Sig(t)
<1>1. /\ pc[t] = "insert" /\ pc[t] \in Pending /\ UNCHANGED <<heard, active, gen, obj, job>>
      /\ LockSymbol(s) \/ st' = st
  BY DEF InsertSignal, Pending
<1>2. /\ s \in Symbols /\ x \in Signal /\ x.sym = s
      /\ x \in Emitted /\ x \notin Kept /\ x \notin Ready
  BY <1>1, PendingSignal, PlaceOfSignal
<1>3. LocksKept
  BY <1>1, <1>2, LockKeepsLocks DEF LocksKept
<1> HIDE DEF x, s
<1>4. CASE InsertUnique(s, x) /\ pc' = [pc EXCEPT ![t] = "state"] /\ UNCHANGED troubles
  <2>1. Advances(t, "state")
    BY <1>1, <1>4 DEF Advances
  <2>2. Emitted' = Emitted \ {x} /\ Kept' = Kept \cup {x} /\ Ready' = Ready \ {x}
    BY <1>3, <2>1, AdvanceMoves DEF x
  <2>3. /\ signals[s] = None
        /\ signals' = [signals EXCEPT ![s] = [signal |-> x, status |-> "NEW"]]
    BY <1>4 DEF InsertUnique
  <2>4. Service!Keep(x)
    BY <1>1, <1>2, <1>4, <2>2, <2>3 DEF Service!Keep, Emitted, Kept, Ready
  <2>5. KeptInv'
    <3>1. /\ DOMAIN signals' = Symbols
          /\ \A r \in Symbols : r # s \/ signals[r] # None => signals'[r] = signals[r]
          /\ signals'[s] = [signal |-> x, status |-> "NEW"]
      BY <1>2, <2>3 DEF KeptInv
    <3> QED
      BY <1>3, <2>1, <3>1, OthersKept DEF x, s
  <2> QED
    BY <1>2, <2>4, <2>5 DEF ServiceStep, Service!Next
<1>5. CASE /\ (signals[s] # None /\ UNCHANGED troubles) \/ troubles' = troubles + 1
           /\ UNCHANGED signals /\ pc' = [pc EXCEPT ![t] = "deliver"]
  <2>1. Advances(t, "deliver")
    BY <1>1, <1>5 DEF Advances
  <2>2. Emitted' = Emitted \ {x} /\ Kept' = Kept \ {x} /\ Ready' = Ready \cup {x}
    BY <1>3, <2>1, AdvanceMoves DEF x
  <2>3. Service!Refuse(x)
    BY <1>1, <1>2, <1>5, <2>2 DEF Service!Refuse, Service!Fault, Emitted, Kept, Ready
  <2>4. KeptInv'
    BY <1>3, <1>5, <2>1, OthersKept DEF KeptInv
  <2> QED
    BY <1>2, <2>3, <2>4 DEF ServiceStep, Service!Next
<1> QED
  BY <1>4, <1>5 DEF InsertSignal, Goto, Trouble, x, s

(* The state row is written, or the signal goes on without its mark.         *)
LEMMA UpdateStateRefines ==
    ASSUME TypeInv, EmissionInv, KeptInv, NEW t \in Tasks, UpdateStateForSignal(t)
    PROVE  KeptInv' /\ ServiceStep
<1> DEFINE s == job[t].sym
           x == Sig(t)
<1>1. /\ pc[t] = "state" /\ pc[t] \in Pending
      /\ UNCHANGED <<heard, active, gen, st, obj, job, signals>>
  BY DEF UpdateStateForSignal, Pending, engineVars
<1>2. /\ s \in Symbols /\ x \in Signal /\ x.sym = s
      /\ x \notin Emitted /\ x \in Kept /\ x \notin Ready
      /\ signals[s] = [signal |-> x, status |-> "NEW"]
  BY <1>1, PendingSignal, PlaceOfSignal DEF KeptInv
<1>3. LocksKept
  BY <1>1 DEF LocksKept
<1> HIDE DEF x, s
<1>4. CASE pc' = [pc EXCEPT ![t] = "status"] /\ UNCHANGED troubles
  <2>1. Advances(t, "status")
    BY <1>1, <1>4 DEF Advances
  <2>2. Emitted' = Emitted \ {x} /\ Kept' = Kept \cup {x} /\ Ready' = Ready \ {x}
    BY <1>3, <2>1, AdvanceMoves DEF x
  <2>3. KeptInv'
    BY <1>1, <1>2, <1>3, <2>1, OthersKept DEF KeptInv, x, s
  <2> QED
    BY <1>1, <1>2, <1>4, <2>2, <2>3 DEF ServiceStep
<1>5. CASE pc' = [pc EXCEPT ![t] = "deliver"] /\ troubles' = troubles + 1
  <2>1. Advances(t, "deliver")
    BY <1>1, <1>5 DEF Advances
  <2>2. Emitted' = Emitted \ {x} /\ Kept' = Kept \ {x} /\ Ready' = Ready \cup {x}
    BY <1>3, <2>1, AdvanceMoves DEF x
  <2>3. Service!MarkBroadcast(x)
    BY <1>1, <1>2, <1>5, <2>2 DEF Service!MarkBroadcast, Service!Fault, Emitted, Kept, Ready
  <2>4. KeptInv'
    BY <1>1, <1>3, <2>1, OthersKept DEF KeptInv
  <2> QED
    BY <1>2, <2>3, <2>4 DEF ServiceStep, Service!Next
<1> QED
  BY <1>4, <1>5 DEF UpdateStateForSignal, Goto, Trouble

LEMMA MarkRefines ==
    ASSUME TypeInv, EmissionInv, KeptInv, NEW t \in Tasks, MarkBroadcast(t)
    PROVE  KeptInv' /\ ServiceStep
<1> DEFINE s == job[t].sym
           x == Sig(t)
<1>1. /\ pc[t] = "status" /\ pc[t] \in Pending /\ pc' = [pc EXCEPT ![t] = "deliver"]
      /\ UNCHANGED <<heard, active, gen, st, obj, job>>
      /\ \/ signals' = [signals EXCEPT ![s].status = "BROADCAST"] /\ UNCHANGED troubles
         \/ troubles' = troubles + 1 /\ UNCHANGED signals
  BY DEF MarkBroadcast, UpdateStatus, Goto, Trouble, Pending, engineVars
<1>2. /\ s \in Symbols /\ x \in Signal /\ x.sym = s
      /\ x \notin Emitted /\ x \in Kept /\ x \notin Ready
      /\ signals[s] = [signal |-> x, status |-> "NEW"]
  BY <1>1, PendingSignal, PlaceOfSignal DEF KeptInv
<1>3. LocksKept /\ Advances(t, "deliver")
  BY <1>1 DEF LocksKept, Advances
<1>4. Emitted' = Emitted \ {x} /\ Kept' = Kept \ {x} /\ Ready' = Ready \cup {x}
  BY <1>3, AdvanceMoves
<1>5. KeptInv'
  <2>1. /\ DOMAIN signals' = Symbols
        /\ \A r \in Symbols : r # s => signals'[r] = signals[r]
        /\ signals[s].signal = x
    BY <1>1, <1>2 DEF KeptInv
  <2> QED
    BY <1>3, <2>1, OthersKept
<1> HIDE DEF x, s
<1>6. Service!MarkBroadcast(x)
  BY <1>1, <1>2, <1>4 DEF Service!MarkBroadcast, Service!Fault, Emitted, Kept, Ready
<1> QED
  BY <1>2, <1>5, <1>6 DEF ServiceStep, Service!Next

LEMMA DeliverRefines ==
    ASSUME TypeInv, EmissionInv, KeptInv, NEW t \in Tasks, Deliver(t)
    PROVE  KeptInv' /\ ServiceStep
<1> DEFINE x == Sig(t)
<1>1. /\ pc[t] = "deliver" /\ pc[t] \in Pending /\ pc' = [pc EXCEPT ![t] = "mirror"]
      /\ heard' = Append(heard, x)
      /\ UNCHANGED <<active, gen, st, obj, job, signals, troubles>>
  BY DEF Deliver, Goto, Pending, engineVars, dbVars
<1>2. x \in Signal /\ x \notin Emitted /\ x \notin Kept /\ x \in Ready
  BY <1>1, PendingSignal, PlaceOfSignal
<1>3. LocksKept /\ Advances(t, "mirror")
  BY <1>1 DEF LocksKept, Advances
<1>4. Emitted' = Emitted \ {x} /\ Kept' = Kept \ {x} /\ Ready' = Ready \ {x}
  BY <1>3, AdvanceMoves
<1>5. KeptInv'
  BY <1>1, <1>3, OthersKept DEF KeptInv
<1> HIDE DEF x
<1>6. Service!Deliver(x)
  BY <1>1, <1>2, <1>4 DEF Service!Deliver, Emitted, Kept, Ready
<1> QED
  BY <1>2, <1>5, <1>6 DEF ServiceStep, Service!Next

(* The steps that neither begin nor go on with a dispatch.                   *)
LEMMA OthersRefine ==
    ASSUME TypeInv, EmissionInv, KeptInv,
           \/ \E f \in Feeders, s \in Symbols, slot \in Slots, p \in Prices : FeedTick(f, s, slot, p)
           \/ \E t \in Tasks : HandleBuiltCandle(t)
           \/ \E o \in Operators :
                OperatorStep(o) \/ Start(o) \/ \E why \in {"stop", "reset"} : CallStop(o, why)
           \/ DeactivateJob \/ \E s \in Symbols : AddSymbol(s) \/ RemoveSymbol(s)
    PROVE  KeptInv' /\ ServiceStep
<1>1. ASSUME NEW t \in Tasks, NEW l, pc[t] \notin Pending, l \notin Pending,
             LocksKept, UNCHANGED <<signals, heard>>,
             pc' = pc \/ pc' = [pc EXCEPT ![t] = l],
             \A u \in Tasks \ {t} : obj'[u] = obj[u] /\ job'[u] = job[u],
             \/ UNCHANGED <<active, gen>> /\ (troubles' = troubles \/ troubles' = troubles + 1)
             \/ active' = TRUE /\ gen' = gen + 1 /\ UNCHANGED troubles
             \/ active' = FALSE /\ UNCHANGED <<gen, troubles>>
      PROVE  KeptInv' /\ ServiceStep
  <2>1. SameDispatches
    BY <1>1 DEF SameDispatches, TypeInv
  <2> QED
    BY <1>1, <2>1, QuietRefines
<1>2. st' = st => LocksKept
  BY DEF LocksKept
<1>3. ASSUME NEW f \in Feeders, NEW s \in Symbols, NEW slot \in Slots, NEW p \in Prices,
             FeedTick(f, s, slot, p)
      PROVE  KeptInv' /\ ServiceStep
  <2>1. /\ f \in Tasks /\ pc[f] = "idle" /\ UNCHANGED <<signals, heard, active, gen, troubles, st, obj>>
        /\ \/ UNCHANGED <<pc, job>>
           \/ pc' = [pc EXCEPT ![f] = "closed"] /\ job' = [job EXCEPT ![f] = bucket[s]]
    BY <1>3 DEF FeedTick, Goto, engineVars, dbVars, Tasks
  <2>2. \A u \in Tasks \ {f} : obj'[u] = obj[u] /\ job'[u] = job[u]
    BY <2>1 DEF TypeInv
  <2>3. pc[f] \notin Pending /\ "closed" \notin Pending
    BY <2>1 DEF Pending
  <2> QED
    BY <1>1, <1>2, <2>1, <2>2, <2>3
<1>4. ASSUME NEW t \in Tasks, HandleBuiltCandle(t) PROVE KeptInv' /\ ServiceStep
  <2>1. PICK l \in {"flush", "idle"} : pc' = [pc EXCEPT ![t] = l]
    BY <1>4 DEF HandleBuiltCandle, EndCandle, Goto
  <2>2. /\ pc[t] = "mirror" /\ UNCHANGED <<signals, heard, active, gen, st>>
        /\ job' = [job EXCEPT ![t] = None] /\ obj' = [obj EXCEPT ![t] = 0]
        /\ troubles' = troubles \/ troubles' = troubles + 1
    BY <1>4 DEF HandleBuiltCandle, EndCandle, Trouble, engineVars
  <2>3. \A u \in Tasks \ {t} : obj'[u] = obj[u] /\ job'[u] = job[u]
    BY <2>2 DEF TypeInv
  <2>4. pc[t] \notin Pending /\ l \notin Pending
    BY <2>2 DEF Pending
  <2> QED
    BY <1>1, <1>2, <2>1, <2>2, <2>3, <2>4
<1>5. ASSUME NEW o \in Operators, EngineStart(o) PROVE KeptInv' /\ ServiceStep
  <2>1. /\ o \in Tasks /\ pc[o] = "shortlist" /\ pc' = [pc EXCEPT ![o] = "seed"]
        /\ UNCHANGED <<signals, heard, troubles, obj, job>>
        /\ active' = TRUE /\ gen' = gen + 1
    BY <1>5 DEF EngineStart, Activate, Goto, dbVars, Tasks
  <2>2. LocksKept
    <3>1. PICK list : st' = [st EXCEPT ![gen + 1] =
                               [s \in Symbols |-> IF s \in list THEN FreshState ELSE None]]
      BY <1>5 DEF EngineStart, Activate
    <3> QED
      BY <3>1 DEF LocksKept, TypeInv
  <2>3. pc[o] \notin Pending /\ "seed" \notin Pending
    BY <2>1 DEF Pending
  <2> QED
    BY <1>1, <2>1, <2>2, <2>3
<1>6. ASSUME NEW o \in Operators, NEW s \in Symbols, FlushSymbol(o, s) PROVE KeptInv' /\ ServiceStep
  <2>1. /\ o \in Tasks /\ pc[o] = "flush" /\ UNCHANGED <<signals, heard, active, gen, troubles, st, obj>>
        /\ \/ UNCHANGED <<pc, job>>
           \/ pc' = [pc EXCEPT ![o] = "closed"] /\ job' = [job EXCEPT ![o] = bucket[s]]
    BY <1>6 DEF FlushSymbol, Goto, engineVars, dbVars, Tasks
  <2>2. \A u \in Tasks \ {o} : obj'[u] = obj[u] /\ job'[u] = job[u]
    BY <2>1 DEF TypeInv
  <2>3. pc[o] \notin Pending /\ "closed" \notin Pending
    BY <2>1 DEF Pending
  <2> QED
    BY <1>1, <1>2, <2>1, <2>2, <2>3
<1>7. ASSUME NEW o \in Operators,
             \/ SeedStateRows(o) \/ EngineStop(o) \/ EngineStopped(o) \/ DropBuckets(o)
             \/ DeleteRows(o) \/ Start(o) \/ \E why \in {"stop", "reset"} : CallStop(o, why)
      PROVE  KeptInv' /\ ServiceStep
  <2>1. PICK l \in {"idle", "flush", "drop", "delete", "shortlist", "stop"} :
          pc' = [pc EXCEPT ![o] = l]
    BY <1>7 DEF SeedStateRows, EngineStop, EngineStopped, DropBuckets, DeleteRows, Start,
                CallStop, AfterStop, Goto
  <2>2. /\ o \in Tasks /\ pc[o] \in {"seed", "stop", "flush", "drop", "delete", "idle"}
        /\ UNCHANGED <<signals, heard, gen, st, obj, job>>
    BY <1>7 DEF SeedStateRows, EngineStop, EngineStopped, DropBuckets, DeleteRows, Start,
                CallStop, engineVars, dbVars, Tasks
  <2>3. \/ active' = active /\ (troubles' = troubles \/ troubles' = troubles + 1)
        \/ active' = FALSE /\ troubles' = troubles
    BY <1>7 DEF SeedStateRows, EngineStop, EngineStopped, DropBuckets, DeleteRows, Start,
                CallStop, engineVars, Trouble
  <2>4. pc[o] \notin Pending /\ l \notin Pending
    BY <2>2 DEF Pending
  <2> QED
    BY <1>1, <1>2, <2>1, <2>2, <2>3, <2>4
<1>8. CASE DeactivateJob \/ \E s \in Symbols : RemoveSymbol(s)
  <2>1. /\ UNCHANGED <<signals, heard, gen, st, pc, obj, job>> /\ troubles' = troubles + 1
        /\ active' = active \/ active' = FALSE
    BY <1>8 DEF DeactivateJob, RemoveSymbol, Trouble, engineVars, dbVars
  <2>2. SameDispatches
    BY <1>2, <2>1 DEF SameDispatches
  <2> QED
    BY <2>1, <2>2, QuietRefines
<1>9. ASSUME NEW s \in Symbols, AddSymbol(s) PROVE KeptInv' /\ ServiceStep
  <2>1. /\ UNCHANGED <<signals, heard, gen, active, pc, obj, job>> /\ troubles' = troubles + 1
        /\ AddCandidate(s)
    BY <1>9 DEF AddSymbol, Trouble, dbVars
  <2>2. LocksKept
    BY <2>1, CandidateKeepsLocks
  <2>3. SameDispatches
    BY <2>1, <2>2 DEF SameDispatches
  <2> QED
    BY <2>1, <2>3, QuietRefines
<1> QED
  BY <1>3, <1>4, <1>5, <1>6, <1>7, <1>8, <1>9 DEF OperatorStep

(* A restart forgets every signal under way.                                 *)
LEMMA RestartRefines ==
    ASSUME Restart, KeptInv
    PROVE  KeptInv' /\ ServiceStep
<1>1. /\ \A t \in Tasks : pc'[t] = "idle"
      /\ UNCHANGED <<signals, heard, gen>> /\ active' = FALSE /\ troubles' = troubles + 1
  BY DEF Restart, Trouble, dbVars
<1>2. Emitted' = {} /\ Kept' = {} /\ Ready' = {}
  BY <1>1 DEF Emitted, Kept, Ready, SignalsAt
<1>3. Service!Crash
  BY <1>1, <1>2 DEF Service!Crash, Service!Fault, Emitted, Kept, Ready
<1>4. KeptInv'
  BY <1>1 DEF KeptInv
<1> QED
  BY <1>3, <1>4 DEF ServiceStep, Service!Next

LEMMA StepRefines ==
    TypeInv /\ EmissionInv /\ KeptInv /\ [Next]_vars => KeptInv' /\ ServiceStep
<1> SUFFICES ASSUME TypeInv, EmissionInv, KeptInv, [Next]_vars PROVE KeptInv' /\ ServiceStep
  OBVIOUS
<1>1. ASSUME NEW t \in Tasks, CandleStep(t) PROVE KeptInv' /\ ServiceStep
  BY <1>1, OnCandleRefines, InsertRefines, UpdateStateRefines, MarkRefines, DeliverRefines,
     OthersRefine DEF CandleStep
<1>2. CASE UNCHANGED vars
  <2>1. /\ UNCHANGED <<st, pc, obj, job, signals, heard, active, gen, troubles>>
    BY <1>2 DEF vars, engineVars, dbVars
  <2>2. SameDispatches
    BY <2>1 DEF SameDispatches, LocksKept
  <2> QED
    BY <2>1, <2>2, QuietRefines
<1> QED
  BY <1>1, <1>2, OthersRefine, RestartRefines DEF Next

(* Every behaviour of the pipeline, with its feeds, operators, flushes,      *)
(* faults and restarts, is for the signals one of SignalService: a symbol    *)
(* signals once in an activation and only in an active one, the first signal *)
(* of the day is kept and not replaced, and each is offered to the store and *)
(* then heard once (signal_engine.py: on_candle, _dispatch;                  *)
(* live_signal_service.py: _handle_generated_signal).                        *)
THEOREM PipelineImplementsService == FairSpec => ImplementsSignalService
<1>1. Init => Service!Init
  <2> SUFFICES ASSUME Init PROVE Service!Init
    OBVIOUS
  <2>1. \A P \in SUBSET Pending : SignalsAt(P) = {}
    BY DEF Init, SignalsAt, Pending
  <2>2. {"insert"} \in SUBSET Pending /\ {"state", "status"} \in SUBSET Pending
        /\ {"deliver"} \in SUBSET Pending
    BY DEF Pending
  <2> QED
    BY <2>1, <2>2 DEF Init, Service!Init
<1>2. ServiceStep <=> [Service!Next]_(Service!serviceVars)
  BY DEF ServiceStep, Service!serviceVars, Emitted, Kept, Ready
<1>3. Init => KeptInv
  BY KeptInvInit
<1>4. TypeInv /\ EmissionInv /\ KeptInv /\ [Next]_vars
        => KeptInv' /\ [Service!Next]_(Service!serviceVars)
  BY <1>2, StepRefines
<1> QED
  BY <1>1, <1>3, <1>4, EmissionInvariant, PTL DEF FairSpec, Spec, ImplementsSignalService, Service!Spec

-----------------------------------------------------------------------------
(* The open bucket is the candle of its ticks                               *)

\* The slot of the log's last tick as the reference reckons it, and the ticks
\* that count for the bucket b.
LatestSlot(l, k) == (\A i \in DOMAIN l : l[i].slot <= k) /\ (\E i \in DOMAIN l : l[i].slot = k)

Summarises(b, s, l) ==
    /\ b \in Candle /\ b.sym = s
    /\ LatestSlot(l, b.slot)
    /\ \A i \in DOMAIN l : SlotAt(l, i) \in Int /\ SlotAt(l, i) <= b.slot
    /\ Len(l) \in InSlot(l, b.slot)
    /\ b.close = l[Len(l)].price
    /\ \A i \in InSlot(l, b.slot) : b.low <= l[i].price /\ l[i].price <= b.high
    /\ \E i \in InSlot(l, b.slot) : l[i].price = b.high
    /\ \E i \in InSlot(l, b.slot) : l[i].price = b.low

BucketInv ==
    \A s \in Symbols : IF log[s] = <<>> THEN bucket[s] = None
                                        ELSE Summarises(bucket[s], s, log[s])

(* What the invariant says of a bucket is what the reference computes.       *)
LEMMA SummaryIsCandle ==
    ASSUME NEW s \in Symbols, NEW l \in Seq(Tick), NEW b, Summarises(b, s, l)
    PROVE  b = CandleOf(s, l, SlotAt(l, Len(l)))
<1> DEFINE k == b.slot
           P == PricesIn(l, k)
<1>1. /\ b \in Candle /\ Len(l) \in InSlot(l, k) /\ DOMAIN l = 1..Len(l)
      /\ b.high \in Int /\ b.low \in Int
  <2>1. b \in Candle /\ Len(l) \in InSlot(l, k) /\ DOMAIN l = 1..Len(l)
    BY DEF Summarises
  <2>2. b.high \in Prices /\ b.low \in Prices /\ Prices \subseteq Int
    BY <2>1, PipelineAssumption DEF Candle
  <2> QED
    BY <2>1, <2>2
<1>2. SlotAt(l, Len(l)) = k
  BY <1>1 DEF InSlot
<1>3. Max(InSlot(l, k)) = Len(l)
  <2>1. InSlot(l, k) \in SUBSET Int /\ \A i \in InSlot(l, k) : i <= Len(l)
    BY <1>1 DEF InSlot
  <2> DEFINE S == InSlot(l, k)
  <2>2. S \in SUBSET Int /\ Len(l) \in S /\ \A y \in S : y <= Len(l)
    BY <1>1, <2>1
  <2> HIDE DEF S
  <2>3. Max(S) = Len(l)
    BY <2>2, MaxIs
  <2> QED
    BY <2>3 DEF S
<1>4. P \in SUBSET Int
  <2>1. \A i \in DOMAIN l : l[i].price \in Prices
    <3>1. \A i \in DOMAIN l : l[i] \in Tick
      OBVIOUS
    <3> QED
      BY <3>1 DEF Tick
  <2>2. InSlot(l, k) \subseteq DOMAIN l
    BY DEF InSlot
  <2> QED
    BY <2>1, <2>2, PipelineAssumption DEF PricesIn
<1>5. Max(P) = b.high
  <2>1. b.high \in P /\ \A y \in P : y <= b.high
    BY DEF Summarises, PricesIn
  <2> QED
    BY <1>4, <2>1, MaxIs
<1>6. Min(P) = b.low
  <2>1. b.low \in P /\ \A y \in P : b.low <= y
    BY DEF Summarises, PricesIn
  <2> QED
    BY <1>4, <2>1, MinIs
<1>7. CandleOf(s, l, k) = [sym |-> s, slot |-> k, high |-> b.high, low |-> b.low,
                           close |-> b.close]
  BY <1>3, <1>5, <1>6 DEF CandleOf, Summarises
<1> HIDE DEF k
<1>8. b = [sym |-> b.sym, slot |-> b.slot, high |-> b.high, low |-> b.low, close |-> b.close]
  BY <1>1 DEF Candle
<1> QED
  BY <1>2, <1>7, <1>8 DEF Summarises, k

(* A tick appended to a log leaves the slots of the ticks before it.         *)
LEMMA AppendLog ==
    ASSUME NEW l \in Seq(Tick), NEW x \in Tick, NEW k \in Int,
           LatestSlot(Append(l, x), k)
    PROVE  /\ DOMAIN Append(l, x) = DOMAIN l \cup {Len(l) + 1}
           /\ Append(l, x)[Len(l) + 1] = x
           /\ \A i \in DOMAIN l : /\ Append(l, x)[i] = l[i]
                                  /\ SlotAt(Append(l, x), i) = SlotAt(l, i)
           /\ SlotAt(Append(l, x), Len(l) + 1) = k
           /\ InSlot(Append(l, x), k) = InSlot(l, k) \cup {Len(l) + 1}
           /\ \A j : j # k => InSlot(Append(l, x), j) = InSlot(l, j)
<1> DEFINE m == Append(l, x)
           n == Len(l)
<1>1. /\ n \in Nat /\ DOMAIN l = 1..n /\ DOMAIN m = 1..(n + 1) /\ m \in Seq(Tick)
      /\ m[n + 1] = x /\ \A i \in 1..n : m[i] = l[i]
  OBVIOUS
<1> HIDE DEF m, n
<1>2. 1..(n + 1) = (1..n) \cup {n + 1} /\ n + 1 \notin 1..n
  BY <1>1
<1>3. ASSUME NEW i \in 1..n PROVE SlotAt(m, i) = SlotAt(l, i)
  <2>1. \A j \in 1..i : m[j] = l[j]
    BY <1>1
  <2>2. {m[j].slot : j \in 1..i} = {l[j].slot : j \in 1..i}
    BY <2>1
  <2> QED
    BY <2>2 DEF SlotAt
<1>4. SlotAt(m, n + 1) = k
  <2> DEFINE S == {m[j].slot : j \in 1..(n + 1)}
  <2>1. S \in SUBSET Int
    <3>1. \A j \in 1..(n + 1) : m[j] \in Tick
      BY <1>1
    <3>2. \A y \in Tick : y.slot \in Int
      BY DEF Tick, Slots
    <3> QED
      BY <3>1, <3>2
  <2>2. k \in S /\ \A y \in S : y <= k
    BY <1>1 DEF LatestSlot, m
  <2> QED
    BY <2>1, <2>2, MaxIs DEF SlotAt
<1>5. InSlot(m, k) = InSlot(l, k) \cup {n + 1}
  BY <1>1, <1>2, <1>3, <1>4 DEF InSlot
<1>6. ASSUME NEW j, j # k PROVE InSlot(m, j) = InSlot(l, j)
  BY <1>1, <1>2, <1>3, <1>4, <1>6 DEF InSlot
<1> QED
  BY <1>1, <1>2, <1>3, <1>4, <1>5, <1>6 DEF m, n

(* A tick folded into an open bucket, and a tick that opens one.             *)
LEMMA UpdateSummarises ==
    ASSUME NEW s \in Symbols, NEW l \in Seq(Tick), NEW b, Summarises(b, s, l),
           NEW slot \in Slots, NEW p \in Prices, slot <= b.slot
    PROVE  Summarises(Update(b, p), s, Append(l, [slot |-> slot, price |-> p]))
<1> DEFINE x == [slot |-> slot, price |-> p]
           m == Append(l, x)
           k == b.slot
           u == Update(b, p)
<1>1. /\ b \in Candle /\ k \in Int /\ b.high \in Int /\ b.low \in Int /\ p \in Int /\ slot \in Int
      /\ b.sym = s
  <2>1. b \in Candle /\ b.sym = s
    BY DEF Summarises
  <2>2. b.high \in Prices /\ b.low \in Prices /\ Prices \subseteq Int
    BY <2>1, PipelineAssumption DEF Candle
  <2>3. k \in Int /\ slot \in Int
    BY <2>1 DEF Candle, Slots
  <2> QED
    BY <2>1, <2>2, <2>3
<1>2. x \in Tick /\ x.slot = slot /\ x.price = p
  BY DEF Tick
<1>3. /\ u \in Candle /\ u.sym = s /\ u.slot = k /\ u.close = p
      /\ u.high = (IF b.high >= p THEN b.high ELSE p)
      /\ u.low = (IF b.low <= p THEN b.low ELSE p)
  BY <1>1, UpdateIs
<1>4. /\ Len(l) \in Nat /\ DOMAIN l = 1..Len(l) /\ m \in Seq(Tick) /\ Len(m) = Len(l) + 1
      /\ DOMAIN m = 1..(Len(l) + 1)
      /\ m[Len(l) + 1] = x /\ \A i \in 1..Len(l) : m[i] = l[i]
  BY <1>2
<1> HIDE DEF x, u
<1>5. LatestSlot(m, k)
  <2> HIDE DEF m
  <2>1. \A i \in DOMAIN m : m[i].slot <= k
    BY <1>1, <1>2, <1>4 DEF Summarises, LatestSlot
  <2>2. \E i \in DOMAIN m : m[i].slot = k
    BY <1>4 DEF Summarises, LatestSlot
  <2> QED
    BY <2>1, <2>2 DEF LatestSlot
<1>6. /\ \A i \in DOMAIN l : m[i] = l[i] /\ SlotAt(m, i) = SlotAt(l, i)
      /\ SlotAt(m, Len(l) + 1) = k
      /\ InSlot(m, k) = InSlot(l, k) \cup {Len(l) + 1}
      /\ DOMAIN m = DOMAIN l \cup {Len(l) + 1}
  BY <1>1, <1>2, <1>5, AppendLog
<1> HIDE DEF m, k
<1>7. \A i \in DOMAIN m : SlotAt(m, i) \in Int /\ SlotAt(m, i) <= k
  <2>1. \A i \in DOMAIN l : SlotAt(l, i) \in Int /\ SlotAt(l, i) <= k
    BY DEF Summarises, k
  <2>2. ASSUME NEW i \in DOMAIN l PROVE SlotAt(m, i) \in Int /\ SlotAt(m, i) <= k
    BY <1>6, <2>1
  <2>3. SlotAt(m, Len(l) + 1) \in Int /\ SlotAt(m, Len(l) + 1) <= k
    BY <1>1, <1>6
  <2> QED
    BY <1>6, <2>2, <2>3
<1>8. \A i \in InSlot(l, k) : i \in DOMAIN l /\ l[i].price \in Int /\ m[i] = l[i]
  <2>1. \A i \in DOMAIN l : l[i].price \in Prices
    <3>1. \A i \in DOMAIN l : l[i] \in Tick
      OBVIOUS
    <3> QED
      BY <3>1 DEF Tick
  <2> QED
    BY <1>6, <2>1, PipelineAssumption DEF InSlot
<1>9. \A i \in InSlot(m, k) : u.low <= m[i].price /\ m[i].price <= u.high
  <2>1. \A i \in InSlot(l, k) : b.low <= l[i].price /\ l[i].price <= b.high
    BY DEF Summarises, k
  <2>2. ASSUME NEW i \in InSlot(l, k) PROVE u.low <= m[i].price /\ m[i].price <= u.high
    BY <1>1, <1>3, <1>8, <2>1
  <2>3. u.low <= m[Len(l) + 1].price /\ m[Len(l) + 1].price <= u.high
    BY <1>1, <1>2, <1>3, <1>4
  <2> QED
    BY <1>6, <2>2, <2>3
<1>10. \E i \in InSlot(m, k) : m[i].price = u.high
  <2>1. \E i \in InSlot(l, k) : l[i].price = b.high
    BY DEF Summarises, k
  <2> QED
    BY <1>2, <1>3, <1>4, <1>6, <1>8, <2>1
<1>11. \E i \in InSlot(m, k) : m[i].price = u.low
  <2>1. \E i \in InSlot(l, k) : l[i].price = b.low
    BY DEF Summarises, k
  <2> QED
    BY <1>2, <1>3, <1>4, <1>6, <1>8, <2>1
<1>12. Len(m) \in InSlot(m, k) /\ u.close = m[Len(m)].price
  BY <1>2, <1>3, <1>4, <1>6
<1>13. Summarises(u, s, m)
  BY <1>3, <1>5, <1>7, <1>9, <1>10, <1>11, <1>12 DEF Summarises
<1> QED
  BY <1>13 DEF u, m, x

LEMMA NewBucketSummarises ==
    ASSUME NEW s \in Symbols, NEW l \in Seq(Tick), NEW slot \in Slots, NEW p \in Prices,
           \A i \in DOMAIN l : /\ l[i].slot < slot
                               /\ SlotAt(l, i) \in Int /\ SlotAt(l, i) < slot
    PROVE  Summarises(NewBucket(s, slot, p), s, Append(l, [slot |-> slot, price |-> p]))
<1> DEFINE x == [slot |-> slot, price |-> p]
           m == Append(l, x)
           u == NewBucket(s, slot, p)
<1>1. slot \in Int /\ p \in Int
  BY PipelineAssumption DEF Slots
<1>2. x \in Tick /\ x.slot = slot /\ x.price = p
  BY DEF Tick
<1>3. u \in Candle /\ u.sym = s /\ u.slot = slot /\ u.close = p /\ u.high = p /\ u.low = p
  BY NewBucketIs
<1>4. /\ Len(l) \in Nat /\ DOMAIN l = 1..Len(l) /\ m \in Seq(Tick) /\ Len(m) = Len(l) + 1
      /\ DOMAIN m = 1..(Len(l) + 1)
      /\ m[Len(l) + 1] = x /\ \A i \in 1..Len(l) : m[i] = l[i] /\ l[i] \in Tick
  BY <1>2
<1> HIDE DEF x, u
<1>5. LatestSlot(m, slot)
  <2> HIDE DEF m
  <2>1. ASSUME NEW i \in DOMAIN m PROVE m[i].slot <= slot
    <3>1. i = Len(l) + 1 \/ i \in 1..Len(l)
      BY <1>4
    <3>2. CASE i \in 1..Len(l)
      <4>1. m[i] = l[i] /\ l[i].slot \in Int /\ l[i].slot < slot
        BY <1>4, <3>2 DEF Tick, Slots
      <4> QED
        BY <1>1, <4>1
    <3> QED
      BY <1>1, <1>2, <1>4, <3>1, <3>2
  <2>2. m[Len(l) + 1].slot = slot /\ Len(l) + 1 \in DOMAIN m
    BY <1>2, <1>4
  <2> QED
    BY <2>1, <2>2 DEF LatestSlot
<1>6. /\ \A i \in DOMAIN l : m[i] = l[i] /\ SlotAt(m, i) = SlotAt(l, i)
      /\ SlotAt(m, Len(l) + 1) = slot
      /\ InSlot(m, slot) = InSlot(l, slot) \cup {Len(l) + 1}
      /\ DOMAIN m = DOMAIN l \cup {Len(l) + 1}
  BY <1>1, <1>2, <1>5, AppendLog
<1>7. InSlot(l, slot) = {}
  BY <1>1 DEF InSlot
<1> HIDE DEF m
<1>8. InSlot(m, slot) = {Len(m)}
  BY <1>4, <1>6, <1>7
<1>9. \A i \in DOMAIN m : SlotAt(m, i) \in Int /\ SlotAt(m, i) <= slot
  BY <1>1, <1>6
<1>10. m[Len(m)].price = p
  BY <1>2, <1>4
<1>11. Summarises(u, s, m)
  BY <1>1, <1>3, <1>5, <1>8, <1>9, <1>10 DEF Summarises
<1> QED
  BY <1>11 DEF u, m, x

LEMMA BucketInvInit == Init => BucketInv
BY DEF Init, BucketInv

LEMMA FeedTickBuckets ==
    ASSUME TypeInv, BucketInv, NEW f \in Feeders, NEW s \in Symbols, NEW slot \in Slots,
           NEW p \in Prices, FeedTick(f, s, slot, p)
    PROVE  BucketInv'
<1> DEFINE b == bucket[s]
           x == [slot |-> slot, price |-> p]
           closes == b # None /\ Elapsed(b, slot)
           l == IF closes /\ ~steady THEN <<>> ELSE log[s]
           u == IF b = None \/ closes THEN NewBucket(s, slot, p) ELSE Update(b, p)
<1>1. bucket' = [bucket EXCEPT ![s] = u] /\ log' = [log EXCEPT ![s] = Append(l, x)]
  BY DEF FeedTick
<1>2. l \in Seq(Tick) /\ x \in Tick
  <2>1. l \in Seq(Tick)
    BY DEF TypeInv
  <2>2. x \in Tick
    BY DEF Tick
  <2> QED
    BY <2>1, <2>2
<1>3. Append(l, x) # <<>>
  BY <1>2
<1>4. /\ b = None => log[s] = <<>>
      /\ b # None => Summarises(b, s, log[s])
  BY NoneAssumption DEF BucketInv, Summarises
<1>5. Summarises(u, s, Append(l, x))
  <2>1. CASE b = None
    <3>1. l = <<>> /\ u = NewBucket(s, slot, p)
      BY <1>4, <2>1
    <3>2. \A i \in DOMAIN l : /\ l[i].slot < slot
                              /\ SlotAt(l, i) \in Int /\ SlotAt(l, i) < slot
      BY <3>1
    <3> QED
      BY <1>2, <3>1, <3>2, NewBucketSummarises
  <2>2. CASE closes
    <3>1. u = NewBucket(s, slot, p)
      BY <2>2
    <3>2. /\ Summarises(b, s, log[s]) /\ b.slot < slot /\ b.slot \in Int /\ slot \in Int
          /\ log[s] \in Seq(Tick)
      <4>1. Summarises(b, s, log[s]) /\ slot > b.slot
        BY <1>4, <2>2 DEF Elapsed
      <4> QED
        BY <4>1 DEF TypeInv, Summarises, Candle, Slots
    <3>3. \A i \in DOMAIN log[s] :
             /\ log[s][i].slot < slot /\ SlotAt(log[s], i) \in Int /\ SlotAt(log[s], i) < slot
      <4> SUFFICES ASSUME NEW i \in DOMAIN log[s]
                   PROVE  /\ log[s][i].slot < slot
                          /\ SlotAt(log[s], i) \in Int /\ SlotAt(log[s], i) < slot
        OBVIOUS
      <4>1. log[s][i] \in Tick
        BY <3>2
      <4>2. log[s][i].slot \in Int /\ log[s][i].slot <= b.slot
        BY <3>2, <4>1 DEF Summarises, LatestSlot, Tick, Slots
      <4>3. SlotAt(log[s], i) \in Int /\ SlotAt(log[s], i) <= b.slot
        BY <3>2 DEF Summarises
      <4> HIDE DEF b
      <4> QED
        BY <3>2, <4>2, <4>3
    <3>4. \A i \in DOMAIN l : /\ l[i].slot < slot
                              /\ SlotAt(l, i) \in Int /\ SlotAt(l, i) < slot
      BY <3>3
    <3> HIDE DEF l
    <3> QED
      BY <1>2, <3>1, <3>4, NewBucketSummarises
  <2>3. CASE b # None /\ ~closes
    <3>1. u = Update(b, p) /\ l = log[s]
      BY <2>3
    <3>2. Summarises(b, s, log[s]) /\ log[s] \in Seq(Tick)
      BY <1>4, <2>3 DEF TypeInv
    <3>3. slot <= b.slot
      <4>1. ~(slot > b.slot)
        BY <2>3 DEF Elapsed
      <4>2. slot \in Int /\ b.slot \in Int
        BY <3>2 DEF Summarises, Candle, Slots
      <4> HIDE DEF b
      <4> QED
        BY <4>1, <4>2
    <3> HIDE DEF b
    <3> QED
      BY <3>1, <3>2, <3>3, UpdateSummarises
  <2> QED
    BY <2>1, <2>2, <2>3
<1>6. DOMAIN bucket = Symbols /\ DOMAIN log = Symbols
  BY DEF TypeInv
<1> HIDE DEF b, x, l, u
<1> QED
  BY <1>1, <1>3, <1>5, <1>6 DEF BucketInv

(* A step that leaves each bucket as it is or forgets it with its ticks.     *)
LEMMA OtherBuckets ==
    ASSUME TypeInv, BucketInv,
           \A s \in Symbols : \/ bucket'[s] = bucket[s] /\ log'[s] = log[s]
                              \/ bucket'[s] = None /\ log'[s] = <<>>
    PROVE  BucketInv'
BY DEF BucketInv

LEMMA BucketInvNext ==
    TypeInv /\ BucketInv /\ [Next]_vars => BucketInv'
<1> SUFFICES ASSUME TypeInv, BucketInv, [Next]_vars PROVE BucketInv'
  OBVIOUS
<1>1. ASSUME NEW f \in Feeders, NEW s \in Symbols, NEW slot \in Slots, NEW p \in Prices,
             FeedTick(f, s, slot, p)
      PROVE  BucketInv'
  BY <1>1, FeedTickBuckets
<1>2. CASE \/ UNCHANGED builderVars
           \/ \E o \in Operators : DropBuckets(o) \/ \E s \in Symbols : FlushSymbol(o, s)
           \/ \E s \in Symbols : RemoveSymbol(s)
           \/ Restart
  <2>1. \A s \in Symbols : \/ bucket'[s] = bucket[s] /\ log'[s] = log[s]
                           \/ bucket'[s] = None /\ log'[s] = <<>>
    <3>1. CASE UNCHANGED builderVars
      BY <3>1 DEF builderVars
    <3>2. CASE \E o \in Operators : DropBuckets(o)
      BY <3>2 DEF DropBuckets
    <3>3. ASSUME NEW r \in Symbols,
                 RemoveSymbol(r) \/ \E o \in Operators : FlushSymbol(o, r)
          PROVE  \A s \in Symbols : \/ bucket'[s] = bucket[s] /\ log'[s] = log[s]
                                    \/ bucket'[s] = None /\ log'[s] = <<>>
      <4>1. /\ bucket' = [bucket EXCEPT ![r] = None]
            /\ log' = [log EXCEPT ![r] = <<>>]
        BY <3>3 DEF RemoveSymbol, FlushSymbol
      <4> QED
        BY <4>1 DEF TypeInv
    <3>4. CASE Restart
      BY <3>4 DEF Restart
    <3> QED
      BY <1>2, <3>1, <3>2, <3>3, <3>4
  <2> QED
    BY <2>1, OtherBuckets
<1>3. ASSUME NEW t \in Tasks, CandleStep(t) PROVE UNCHANGED builderVars
  BY <1>3 DEF CandleStep, OnCandle, InsertSignal, UpdateStateForSignal, MarkBroadcast, Deliver,
              HandleBuiltCandle
<1>4. ASSUME NEW o \in Operators,
             \/ EngineStart(o) \/ SeedStateRows(o) \/ EngineStop(o) \/ EngineStopped(o)
             \/ DeleteRows(o) \/ Start(o) \/ \E why \in {"stop", "reset"} : CallStop(o, why)
      PROVE  UNCHANGED builderVars
  BY <1>4 DEF EngineStart, SeedStateRows, EngineStop, EngineStopped, DeleteRows, Start, CallStop
<1>5. CASE DeactivateJob \/ UNCHANGED vars \/ \E s \in Symbols : AddSymbol(s)
  <2>1. UNCHANGED builderVars
    BY <1>5 DEF DeactivateJob, AddSymbol, vars
  <2> QED
    BY <1>2, <2>1
<1> QED
  BY <1>1, <1>2, <1>3, <1>4, <1>5 DEF Next, OperatorStep

(* Every open bucket has the extremes and the last price of the ticks of its *)
(* slot (candle_builder.py: on_tick, flush).                                 *)
THEOREM BucketInvariant == Spec => [](TypeInv /\ EmissionInv /\ BucketInv)
<1> QED
  BY TypeInvInit, EmissionInvInit, EmissionInvNext, BucketInvInit, BucketInvNext, PTL DEF Spec

(* A tick of the newest slot arrives while the bucket of that slot is open.  *)
LEMMA TicksOfArrive ==
    ASSUME NEW l \in Seq(Tick), NEW k \in Int, LatestSlot(l, k), NEW i \in TicksOf(l, k)
    PROVE  i \in InSlot(l, k)
<1> DEFINE S == {l[j].slot : j \in 1..i}
<1>1. i \in DOMAIN l /\ l[i].slot = k /\ DOMAIN l = 1..Len(l) /\ Len(l) \in Nat
  BY DEF TicksOf
<1>2. i \in 1..i /\ 1..i \subseteq DOMAIN l
  BY <1>1
<1>3. \A j \in DOMAIN l : l[j].slot \in Int /\ l[j].slot <= k
  <2>1. \A j \in DOMAIN l : l[j] \in Tick
    OBVIOUS
  <2>2. \A y \in Tick : y.slot \in Int
    BY PipelineAssumption DEF Tick, Slots
  <2> QED
    BY <2>1, <2>2 DEF LatestSlot
<1>4. S \in SUBSET Int /\ k \in S /\ \A y \in S : y <= k
  BY <1>1, <1>2, <1>3
<1> HIDE DEF S
<1>5. Max(S) = k
  BY <1>4, MaxIs
<1> QED
  BY <1>1, <1>5 DEF S, InSlot, SlotAt

(* The open bucket of a symbol is that of the newest slot, holds every tick  *)
(* of the slot, and is exactly their candle when no late tick was folded     *)
(* into it, across gaps, flushes, resets and restarts (candle_builder.py:    *)
(* on_tick, update, flush_symbol, reset).                                    *)
THEOREM BucketIsCandleTheorem == FairSpec => []BucketIsCandle
<1>1. TypeInv /\ BucketInv => BucketIsCandle
  <2> SUFFICES ASSUME TypeInv, BucketInv, NEW s \in Symbols, log[s] # <<>>,
                      NEW k, k = SlotAt(log[s], Len(log[s]))
               PROVE  /\ bucket[s] # None /\ bucket[s].slot = k
                      /\ \A i \in TicksOf(log[s], k) :
                           bucket[s].low <= log[s][i].price /\ log[s][i].price <= bucket[s].high
                      /\ bucket[s] = CandleOf(s, log[s], k)
    BY DEF BucketIsCandle, BucketInv
  <2>1. log[s] \in Seq(Tick) /\ Summarises(bucket[s], s, log[s])
    BY DEF TypeInv, BucketInv
  <2>2. bucket[s] = CandleOf(s, log[s], k)
    BY <2>1, SummaryIsCandle
  <2>3. bucket[s] \in Candle /\ Len(log[s]) \in InSlot(log[s], bucket[s].slot)
    BY <2>1 DEF Summarises
  <2>4. bucket[s] # None /\ bucket[s].slot = k /\ k \in Int
    BY <2>3, NoneAssumption, PipelineAssumption DEF InSlot, Candle, Slots
  <2>5. \A i \in TicksOf(log[s], k) : i \in InSlot(log[s], k)
    BY <2>1, <2>4, TicksOfArrive DEF Summarises
  <2> QED
    BY <2>1, <2>2, <2>4, <2>5 DEF Summarises
<1> QED
  BY <1>1, BucketInvariant, PTL DEF FairSpec

-----------------------------------------------------------------------------
(* The engine signals at the first breakout of the ticks                    *)

(* A nonempty finite set of integers has a greatest member: the one with the *)
(* fewest members above it.                                                  *)
LEMMA MaxExists ==
    ASSUME NEW S \in SUBSET Int, IsFiniteSet(S), S # {}
    PROVE  Max(S) \in S
<1> DEFINE Above(y) == {z \in S : z > y}
           Tops == {Above(y) : y \in S}
<1>1. Tops \subseteq FiniteSubsetsOf(S) /\ Tops # {}
  <2>1. \A y \in S : Above(y) \subseteq S
    OBVIOUS
  <2> HIDE DEF Above
  <2>2. \A y \in S : IsFiniteSet(Above(y))
    BY <2>1, FS_Subset
  <2> QED
    BY <2>1, <2>2 DEF FiniteSubsetsOf
<1>2. PICK T \in Tops : \A V \in Tops : ~(<<V, T>> \in StrictSubsetOrdering(S))
  <2> HIDE DEF Tops
  <2> QED
    BY <1>1, FS_StrictSubsetOrderingWellFounded, WFMin
<1>3. PICK m \in S : T = Above(m)
  OBVIOUS
<1>4. ASSUME NEW y \in S, y > m PROVE FALSE
  <2>1. \A z \in S : z > y => z > m
    <3>1. y \in Int /\ m \in Int /\ \A z \in S : z \in Int
      OBVIOUS
    <3> QED
      BY <1>4, <3>1
  <2>2. Above(y) \subseteq T
    BY <1>3, <2>1
  <2>3. y \in T /\ T \subseteq S
    BY <1>3, <1>4
  <2>4. y \notin Above(y)
    <3>1. ~(y > y)
      BY <1>4
    <3> QED
      BY <3>1
  <2> HIDE DEF Above, Tops
  <2>5. <<Above(y), T>> \in StrictSubsetOrdering(S)
    BY <2>2, <2>3, <2>4 DEF StrictSubsetOrdering
  <2>6. Above(y) \in Tops
    BY DEF Tops
  <2> QED
    BY <1>2, <2>5, <2>6
<1>5. m \in S /\ \A y \in S : y <= m
  BY <1>3, <1>4
<1> HIDE DEF Above, Tops
<1> QED
  BY <1>5, MaxIs

\* The slots of a log whose candle is closed, and those handed to the engine.
Closed(l) == {k \in Slots : InSlot(l, k) # {} /\ k < SlotAt(l, Len(l))}
Waiting(s) == {job[t].slot : t \in {u \in Tasks : pc[u] = "closed" /\ job[u].sym = s}}
Done(s) == Closed(log[s]) \ Waiting(s)

\* The breakout slots among the closed slots K.
Narrow(r) == r.high - r.low <= MaxOrbRange
Breaking(s, l, K) ==
    {k \in K : /\ 1 <= k /\ k < LatestEntry
               /\ 0 \in K /\ Narrow(CandleOf(s, l, 0))
               /\ Breaks(s, l, k)}

\* The state object after the candles of the slots K.
Follows(e, s, l, K) ==
    /\ e \in SymbolState
    /\ e.range # None <=> 0 \in K
    /\ 0 \in K => /\ e.range = OpeningRange(CandleOf(s, l, 0))
                  /\ e.range.low <= e.range.high
                  /\ e.skipped <=> ~Narrow(CandleOf(s, l, 0))
    /\ e.locked <=> e.emitted # None
    /\ e.emitted = None => Breaking(s, l, K) = {}
    /\ e.emitted # None =>
          /\ e.emitted.slot \in Breaking(s, l, K)
          /\ \A k \in Breaking(s, l, K) : e.emitted.slot <= k
          /\ (e.emitted.side = "UP") = (CandleOf(s, l, e.emitted.slot).close
                                          > CandleOf(s, l, 0).high)

\* The lock is held through a flush, so a steady session is the feeder's alone.
LockInv ==
    /\ \A o \in Operators : pc[o] \in Handling \cup {"flush"} => elock = o
    /\ steady => elock = None /\ running /\ active

\* A pending candle of a steady session is the last one its ticks have closed,
\* a pending insert is of this activation.
SteadyInv ==
    steady =>
        /\ \A s \in watch : Follows(st[gen][s], s, log[s], Done(s))
        /\ \A t \in Tasks :
             /\ pc[t] = "closed" =>
                  LET c == job[t]
                  IN  /\ c.sym \in watch /\ c.slot \in Closed(log[c.sym])
                      /\ c = CandleOf(c.sym, log[c.sym], c.slot) /\ c.low <= c.high
                      /\ \A k \in Closed(log[c.sym]) : k <= c.slot
             /\ pc[t] = "insert" => obj[t] = gen

\* None of several feeders may overtake another between a tick and its candle.
OneFeeder == \A f, g \in Feeders : f = g

LEMMA MaxInSlot ==
    ASSUME NEW l \in Seq(Tick), NEW k, InSlot(l, k) # {}
    PROVE  Max(InSlot(l, k)) \in InSlot(l, k)
<1>1. InSlot(l, k) \subseteq 1..Len(l) /\ Len(l) \in Nat
  BY DEF InSlot
<1>2. IsFiniteSet(1..Len(l))
  BY <1>1, FS_Interval
<1>3. IsFiniteSet(InSlot(l, k))
  BY <1>1, <1>2, FS_Subset
<1>4. InSlot(l, k) \in SUBSET Int
  BY <1>1
<1> QED
  BY <1>3, <1>4, MaxExists

(* A tick of another slot leaves a candle as it is.                          *)
LEMMA CandleKept ==
    ASSUME NEW l \in Seq(Tick), NEW x \in Tick, NEW k \in Int,
           LatestSlot(Append(l, x), k), NEW j, j # k, InSlot(l, j) # {}, NEW s
    PROVE  CandleOf(s, Append(l, x), j) = CandleOf(s, l, j)
<1> DEFINE m == Append(l, x)
<1>1. InSlot(m, j) = InSlot(l, j) /\ \A i \in DOMAIN l : m[i] = l[i]
  BY AppendLog
<1> HIDE DEF m
<1>2. InSlot(l, j) \subseteq DOMAIN l
  BY DEF InSlot
<1>3. PricesIn(m, j) = PricesIn(l, j)
  BY <1>1, <1>2 DEF PricesIn
<1>4. m[Max(InSlot(m, j))] = l[Max(InSlot(l, j))]
  BY <1>1, <1>2, MaxInSlot
<1>5. CandleOf(s, m, j) = CandleOf(s, l, j)
  BY <1>3, <1>4 DEF CandleOf
<1> QED
  BY <1>5 DEF m

LEMMA EmptyLog == Closed(<<>>) = {} /\ \A k : InSlot(<<>>, k) = {}
<1>1. \A k : InSlot(<<>>, k) = {}
  BY DEF InSlot
<1> QED
  BY <1>1 DEF Closed

(* The first tick of a log closes nothing.                                   *)
LEMMA FirstTickCloses ==
    ASSUME NEW x \in Tick
    PROVE  Closed(Append(<<>>, x)) = {}
<1> DEFINE m == Append(<<>>, x)
<1>1. <<>> \in Seq(Tick) /\ Len(<<>>) = 0 /\ Len(m) = 1 /\ m[1] = x /\ DOMAIN m = {1}
  OBVIOUS
<1>2. x.slot \in Int
  BY DEF Tick, Slots
<1>3. LatestSlot(m, x.slot)
  BY <1>1, <1>2 DEF LatestSlot
<1>4. SlotAt(m, 1) = x.slot /\ \A j : j # x.slot => InSlot(m, j) = InSlot(<<>>, j)
  <2> DEFINE e == <<>>
  <2>1. e \in Seq(Tick) /\ Len(e) + 1 = 1 /\ LatestSlot(Append(e, x), x.slot)
    BY <1>1, <1>3
  <2> HIDE DEF e
  <2>2. SlotAt(Append(e, x), 1) = x.slot
    BY <1>2, <2>1, AppendLog
  <2>3. \A j : j # x.slot => InSlot(Append(e, x), j) = InSlot(e, j)
    BY <1>2, <2>1, AppendLog
  <2> QED
    BY <2>2, <2>3 DEF e
<1> HIDE DEF m
<1>5. \A j \in Slots : j < SlotAt(m, 1) => InSlot(m, j) = {}
  BY <1>2, <1>4, EmptyLog DEF Slots
<1>6. Closed(m) = {}
  BY <1>1, <1>5 DEF Closed
<1> QED
  BY <1>6 DEF m

(* A tick of the open bucket's slot or an earlier one closes no candle.      *)
LEMMA UpdateCloses ==
    ASSUME NEW s, NEW l \in Seq(Tick), NEW b, Summarises(b, s, l),
           NEW x \in Tick, LatestSlot(Append(l, x), b.slot)
    PROVE  /\ Closed(Append(l, x)) = Closed(l)
           /\ \A j \in Closed(l) : CandleOf(s, Append(l, x), j) = CandleOf(s, l, j)
<1> DEFINE m == Append(l, x)
           k == b.slot
<1>1. k \in Slots /\ k \in Int
  BY DEF Summarises, Candle, Slots
<1>2. SlotAt(l, Len(l)) = k
  BY DEF Summarises, InSlot
<1>3. Len(m) = Len(l) + 1 /\ Len(l) \in Nat
  OBVIOUS
<1>4. SlotAt(m, Len(m)) = k /\ \A j : j # k => InSlot(m, j) = InSlot(l, j)
  BY <1>1, <1>3, AppendLog
<1>5. \A j \in Closed(l) : j # k /\ InSlot(l, j) # {}
  BY <1>1, <1>2 DEF Closed
<1>6. \A j \in Closed(l) : CandleOf(s, m, j) = CandleOf(s, l, j)
  BY <1>1, <1>5, CandleKept
<1> HIDE DEF m, k
<1>7. Closed(m) = Closed(l)
  BY <1>1, <1>2, <1>4 DEF Closed, Slots
<1> QED
  BY <1>6, <1>7 DEF m

(* A tick of a later slot closes the candle of the open bucket.              *)
LEMMA LaterTickCloses ==
    ASSUME NEW s \in Symbols, NEW l \in Seq(Tick), NEW b, Summarises(b, s, l),
           NEW x \in Tick, x.slot > b.slot
    PROVE  /\ Closed(Append(l, x)) = Closed(l) \cup {b.slot} /\ b.slot \notin Closed(l)
           /\ \A j \in Closed(Append(l, x)) :
                j <= b.slot /\ CandleOf(s, Append(l, x), j) = CandleOf(s, l, j)
           /\ b = CandleOf(s, Append(l, x), b.slot) /\ b.low <= b.high
<1> DEFINE m == Append(l, x)
           k == b.slot
<1>1. b \in Candle /\ k \in Slots /\ k \in Int /\ x.slot \in Int
  BY DEF Summarises, Candle, Slots, Tick
<1>2. SlotAt(l, Len(l)) = k /\ Len(l) \in InSlot(l, k)
  BY DEF Summarises, InSlot
<1>3. /\ Len(m) = Len(l) + 1 /\ Len(l) \in Nat /\ DOMAIN l = 1..Len(l)
      /\ DOMAIN m = 1..(Len(l) + 1) /\ m[Len(l) + 1] = x
      /\ \A i \in 1..Len(l) : m[i] = l[i] /\ l[i] \in Tick
  OBVIOUS
<1>4. LatestSlot(m, x.slot)
  <2> HIDE DEF m
  <2>1. ASSUME NEW i \in 1..Len(l) PROVE m[i].slot <= x.slot
    <3>1. l[i].slot \in Int /\ l[i].slot <= k
      BY <1>3 DEF Summarises, LatestSlot, Tick, Slots
    <3> QED
      BY <1>1, <1>3, <3>1
  <2>2. m[Len(l) + 1].slot <= x.slot /\ Len(l) + 1 \in DOMAIN m
    BY <1>1, <1>3
  <2> QED
    BY <1>3, <2>1, <2>2 DEF LatestSlot
<1>5. SlotAt(m, Len(m)) = x.slot /\ \A j : j # x.slot => InSlot(m, j) = InSlot(l, j)
  BY <1>1, <1>3, <1>4, AppendLog
<1>6. \A j : j # x.slot /\ InSlot(l, j) # {} => CandleOf(s, m, j) = CandleOf(s, l, j)
  BY <1>1, <1>4, CandleKept
<1> HIDE DEF m
<1>7. \A j : InSlot(l, j) # {} => j <= k
  BY DEF Summarises, InSlot
<1>8. \A j \in Slots : j < x.slot /\ InSlot(m, j) # {} <=> j \in Closed(l) \/ j = k
  BY <1>1, <1>2, <1>5, <1>7 DEF Closed, Slots
<1>9. Closed(m) = Closed(l) \cup {k} /\ k \notin Closed(l)
  BY <1>1, <1>2, <1>5, <1>8 DEF Closed
<1>10. \A j \in Closed(m) : j <= k /\ CandleOf(s, m, j) = CandleOf(s, l, j)
  BY <1>1, <1>2, <1>6, <1>7, <1>9 DEF Closed
<1>11. b = CandleOf(s, m, k)
  BY <1>2, <1>9, <1>10, SummaryIsCandle
<1>12. b.low <= b.high
  <2>1. b.low <= l[Len(l)].price /\ l[Len(l)].price <= b.high
    BY <1>2 DEF Summarises
  <2>2. b.low \in Prices /\ b.high \in Prices /\ l[Len(l)].price \in Prices
    <3>1. l[Len(l)] \in Tick
      BY <1>2, <1>3 DEF InSlot
    <3> QED
      BY <1>1, <3>1 DEF Candle, Tick
  <2>3. \A u, v, w \in Int : u <= v /\ v <= w => u <= w
    OBVIOUS
  <2> QED
    BY <2>1, <2>2, <2>3, PipelineAssumption
<1> QED
  BY <1>9, <1>10, <1>11, <1>12 DEF m

(* A state object goes by the candles of the slots handed to it.             *)
LEMMA FollowsKept ==
    ASSUME NEW e, NEW s, NEW l, NEW m, NEW K, Follows(e, s, l, K),
           \A k \in K : CandleOf(s, m, k) = CandleOf(s, l, k)
    PROVE  Follows(e, s, m, K)
<1>1. Breaking(s, m, K) = Breaking(s, l, K)
  BY DEF Breaking, Breaks
<1>2. \A k \in Breaking(s, l, K) : k \in K /\ 0 \in K
  BY DEF Breaking
<1>3. e.emitted # None =>
         (e.emitted.side = "UP") = (CandleOf(s, m, e.emitted.slot).close
                                      > CandleOf(s, m, 0).high)
  BY <1>2 DEF Follows
<1>4. 0 \in K => CandleOf(s, m, 0) = CandleOf(s, l, 0)
  OBVIOUS
<1> QED
  BY <1>1, <1>3, <1>4 DEF Follows

\* The next closed candle c of a log, and the state object e before it.
NextCandle(e, s, l, K, c) ==
    /\ Follows(e, s, l, K) /\ K \subseteq Slots
    /\ c \in Candle /\ c = CandleOf(s, l, c.slot) /\ c.low <= c.high
    /\ c.slot \notin K /\ \A k \in K : k <= c.slot

LEMMA BreaksIs ==
    ASSUME NEW e, NEW s, NEW l, NEW K, NEW c, NextCandle(e, s, l, K, c), 0 \in K
    PROVE  /\ e.range # None /\ c.slot \in Int /\ c.slot >= 1
           /\ e.range.high = CandleOf(s, l, 0).high /\ e.range.low = CandleOf(s, l, 0).low
           /\ e.range.high \in Int /\ e.range.low \in Int /\ c.close \in Int
           /\ Breaks(s, l, c.slot) <=> Breakout(e, c) # {}
<1>1. e.range # None /\ e.range = OpeningRange(CandleOf(s, l, 0)) /\ e \in SymbolState
  BY DEF NextCandle, Follows
<1>2. e.range \in OrbRange
  BY <1>1 DEF SymbolState
<1>3. e.range.high \in Prices /\ e.range.low \in Prices /\ c.close \in Prices /\ c.slot \in Slots
  BY <1>2 DEF OrbRange, NextCandle, Candle
<1>4. e.range.high = CandleOf(s, l, 0).high /\ e.range.low = CandleOf(s, l, 0).low
  BY <1>1 DEF OpeningRange
<1>5. c.slot \in Int /\ c.slot >= 1
  <2>1. c.slot \in Nat /\ c.slot # 0
    BY <1>3 DEF NextCandle, Slots
  <2> QED
    BY <2>1
<1>6. Breaks(s, l, c.slot) <=> c.close > e.range.high \/ c.close < e.range.low
  BY <1>4 DEF Breaks, NextCandle
<1>7. Breakout(e, c) # {} <=> c.close > e.range.high \/ c.close < e.range.low
  BY DEF Breakout, Side
<1> QED
  BY <1>1, <1>3, <1>4, <1>5, <1>6, <1>7, PipelineAssumption

LEMMA BreakingGrows ==
    ASSUME NEW e, NEW s, NEW l, NEW K, NEW c, NextCandle(e, s, l, K, c), 0 \in K
    PROVE  LET breaks == /\ c.slot < LatestEntry /\ Narrow(CandleOf(s, l, 0))
                         /\ Breakout(e, c) # {}
           IN  /\ breaks => Breaking(s, l, K \cup {c.slot}) = Breaking(s, l, K) \cup {c.slot}
               /\ ~breaks => Breaking(s, l, K \cup {c.slot}) = Breaking(s, l, K)
<1>1. c.slot >= 1 /\ (Breaks(s, l, c.slot) <=> Breakout(e, c) # {})
  BY BreaksIs
<1>2. 1 <= c.slot
  BY <1>1, BreaksIs
<1> QED
  BY <1>1, <1>2 DEF Breaking

LEMMA EmitFollows ==
    ASSUME NEW e, NEW s, NEW l, NEW K, NEW c, NextCandle(e, s, l, K, c),
           MayEnter(e, c), NEW d \in Breakout(e, c), gen \in 1..MaxGen
    PROVE  Follows([e EXCEPT !.locked = TRUE, !.emitted = BuildSignal(c, d)],
                   s, l, K \cup {c.slot})
<1> DEFINE x == BuildSignal(c, d)
           u == [e EXCEPT !.locked = TRUE, !.emitted = x]
           L == K \cup {c.slot}
           r == CandleOf(s, l, 0)
<1>1. e \in SymbolState /\ c \in Candle /\ d \in Side
  BY DEF NextCandle, Follows, Breakout
<1>2. x \in Signal /\ x.slot = c.slot /\ x.side = d /\ x # None
  BY <1>1, SignalIs, NoneAssumption
<1>3. 0 \in K /\ 0 \in L
  BY DEF MayEnter, NextCandle, Follows
<1>4. /\ e.range # None /\ c.slot \in Int
      /\ e.range.high = r.high /\ e.range.low = r.low
      /\ e.range.high \in Int /\ e.range.low \in Int /\ c.close \in Int
  BY <1>3, BreaksIs
<1> HIDE DEF x
<1>5. /\ u \in SymbolState /\ u.range = e.range /\ u.skipped = e.skipped
      /\ u.locked /\ u.emitted = x
  BY <1>1, <1>2 DEF SymbolState
<1>6. Breaking(s, l, K) = {} /\ Narrow(r) /\ c.slot < LatestEntry
  BY <1>3 DEF MayEnter, NextCandle, Follows
<1>7. Breaking(s, l, L) = {c.slot}
  <2>1. Breaking(s, l, L) = Breaking(s, l, K) \cup {c.slot}
    BY <1>3, <1>6, BreakingGrows
  <2> QED
    BY <1>6, <2>1
<1>8. (x.side = "UP") = (CandleOf(s, l, x.slot).close > r.high)
  <2>1. e.range.low <= e.range.high /\ CandleOf(s, l, x.slot) = c
    BY <1>2, <1>3 DEF NextCandle, Follows
  <2>2. d = "UP" <=> c.close > e.range.high
    <3>1. CASE d = "UP"
      BY <3>1 DEF Breakout
    <3>2. CASE d = "DOWN"
      <4>1. c.close < e.range.low
        BY <3>2 DEF Breakout
      <4>2. ~(c.close > e.range.high)
        BY <1>4, <2>1, <4>1
      <4> QED
        BY <3>2, <4>2
    <3> QED
      BY <1>1, <3>1, <3>2 DEF Side
  <2>3. x.side = "UP" <=> CandleOf(s, l, x.slot).close > r.high
    BY <1>2, <1>4, <2>1, <2>2
  <2> HIDE DEF r
  <2> QED
    BY <2>3
<1>9. e.range = OpeningRange(r) /\ e.range.low <= e.range.high /\ (e.skipped <=> ~Narrow(r))
  BY <1>3 DEF NextCandle, Follows
<1> HIDE DEF u, L, r
<1>10. Follows(u, s, l, L)
  BY <1>2, <1>3, <1>4, <1>5, <1>7, <1>8, <1>9 DEF Follows, r
<1> QED
  BY <1>10 DEF u, L, x

LEMMA CaptureFollows ==
    ASSUME NEW e, NEW s, NEW l, NEW K, NEW c, NextCandle(e, s, l, K, c), Captures(e, c)
    PROVE  Follows(Capture(e, c), s, l, K \cup {c.slot})
<1> DEFINE u == Capture(e, c)
           L == K \cup {c.slot}
<1>1. e \in SymbolState /\ c \in Candle /\ c.slot = 0 /\ c = CandleOf(s, l, 0) /\ K \subseteq Slots
  BY DEF NextCandle, Follows, Captures
<1>2. 0 \notin K
  BY DEF NextCandle, Follows, Captures
<1>3. L = {0}
  <2>1. \A k \in K : k \in Nat /\ k <= 0
    BY <1>1 DEF NextCandle, Slots
  <2>2. K = {}
    BY <1>2, <2>1
  <2> QED
    BY <1>1, <2>2
<1>4. Breaking(s, l, K) = {} /\ Breaking(s, l, L) = {}
  BY <1>2, <1>3 DEF Breaking
<1>5. e.emitted = None /\ ~e.locked
  BY <1>4 DEF NextCandle, Follows
<1>6. /\ u \in SymbolState /\ u.locked = e.locked /\ u.emitted = e.emitted
      /\ u.range = OpeningRange(c) /\ u.skipped = (c.high - c.low > MaxOrbRange)
  BY <1>1, CaptureIs
<1>7. u.range # None /\ u.range.low <= u.range.high
  <2>1. OpeningRange(c) \in OrbRange
    BY <1>1 DEF OpeningRange, OrbRange, Candle
  <2>2. OpeningRange(c) # None
    BY <2>1, NoneAssumption
  <2>3. OpeningRange(c).low = c.low /\ OpeningRange(c).high = c.high
    BY DEF OpeningRange
  <2> HIDE DEF u
  <2> QED
    BY <1>6, <2>2, <2>3 DEF NextCandle
<1>8. u.skipped <=> ~Narrow(c)
  <2>1. \A h, w, m \in Int : (h - w > m) <=> ~(h - w <= m)
    OBVIOUS
  <2>2. (c.high - c.low > MaxOrbRange) <=> ~(c.high - c.low <= MaxOrbRange)
    <3>1. c.high \in Prices /\ c.low \in Prices
      BY <1>1 DEF Candle
    <3>2. Prices \subseteq Int /\ MaxOrbRange \in Int
      BY PipelineAssumption
    <3>3. c.high \in Int /\ c.low \in Int
      BY <3>1, <3>2
    <3> QED
      BY <2>1, <3>2, <3>3
  <2> HIDE DEF u
  <2> QED
    BY <1>6, <2>2, Zenon DEF Narrow
<1> HIDE DEF u, L
<1>9. Follows(u, s, l, L)
  BY <1>1, <1>3, <1>4, <1>5, <1>6, <1>7, <1>8 DEF Follows
<1> QED
  BY <1>9 DEF u, L

LEMMA PassFollows ==
    ASSUME NEW e, NEW s, NEW l, NEW K, NEW c, NextCandle(e, s, l, K, c),
           ~Captures(e, c), ~(MayEnter(e, c) /\ Breakout(e, c) # {})
    PROVE  Follows(e, s, l, K \cup {c.slot})
<1> DEFINE L == K \cup {c.slot}
<1>1. Follows(e, s, l, K) /\ c.slot \in Slots /\ c.slot \notin K /\ \A k \in K : k <= c.slot
  BY DEF NextCandle, Candle
<1>2. c.slot # 0
  BY <1>1 DEF Captures, Follows
<1>3. 0 \in L <=> 0 \in K
  BY <1>2
<1>4. CASE 0 \notin K
  <2>1. Breaking(s, l, K) = {} /\ Breaking(s, l, L) = {}
    BY <1>3, <1>4 DEF Breaking
  <2> HIDE DEF L
  <2> QED
    BY <1>1, <1>3, <1>4, <2>1 DEF Follows, L
<1>5. CASE 0 \in K
  <2>1. CASE e.emitted = None
    <3>1. ~e.locked /\ e.range # None /\ (e.skipped <=> ~Narrow(CandleOf(s, l, 0)))
      BY <1>1, <1>5, <2>1 DEF Follows
    <3>2. 1 <= c.slot
      BY <1>5, BreaksIs
    <3>3. ~(c.slot < LatestEntry /\ Narrow(CandleOf(s, l, 0)) /\ Breakout(e, c) # {})
      BY <3>1, <3>2 DEF MayEnter
    <3>4. Breaking(s, l, L) = {}
      <4>1. Breaking(s, l, L) = Breaking(s, l, K)
        BY <1>5, <3>3, BreakingGrows
      <4> QED
        BY <1>1, <2>1, <4>1 DEF Follows
    <3> HIDE DEF L
    <3> QED
      BY <1>1, <1>3, <2>1, <3>4 DEF Follows, L
  <2>2. CASE e.emitted # None
    <3>1. /\ e.emitted.slot \in Breaking(s, l, K)
          /\ \A k \in Breaking(s, l, K) : e.emitted.slot <= k
      BY <1>1, <2>2 DEF Follows
    <3>2. e.emitted.slot <= c.slot
      BY <1>1, <3>1 DEF Breaking
    <3>3. /\ e.emitted.slot \in Breaking(s, l, L)
          /\ \A k \in Breaking(s, l, L) : e.emitted.slot <= k
      <4>1. \/ Breaking(s, l, L) = Breaking(s, l, K) \cup {c.slot}
            \/ Breaking(s, l, L) = Breaking(s, l, K)
        BY <1>5, BreakingGrows
      <4> HIDE DEF L
      <4> QED
        BY <3>1, <3>2, <4>1
    <3> HIDE DEF L
    <3> QED
      BY <1>1, <1>3, <2>2, <3>3 DEF Follows, L
  <2> QED
    BY <2>1, <2>2
<1> QED
  BY <1>4, <1>5

(* The lock                                                                  *)
LEMMA LockInvInit == Init => LockInv
<1> SUFFICES ASSUME Init PROVE LockInv
  OBVIOUS
<1>1. \A o \in Operators : pc[o] = "idle"
  BY DEF Init, Tasks
<1> QED
  BY <1>1 DEF Init, LockInv, Handling, Pending

\* A step that neither takes nor releases the lock.
LockFrame ==
    /\ \A o \in Operators : pc'[o] \in Handling \cup {"flush"} => pc[o] \in Handling \cup {"flush"}
    /\ elock' = elock
    /\ steady' => steady /\ running' = running /\ active' = active

LEMMA LockFramePreserves == LockInv /\ LockFrame => LockInv'
BY DEF LockInv, LockFrame

LEMMA NoneIsNoOperator == None \notin Operators
BY NoneAssumption

LEMMA LockInvNext ==
    TypeInv /\ LockInv /\ [Next]_vars => LockInv'
<1> SUFFICES ASSUME TypeInv, LockInv, [Next]_vars PROVE LockInv'
  OBVIOUS
<1> USE DEF Goto, Tasks, engineVars
<1>1. ASSUME NEW f \in Feeders, NEW s \in Symbols, NEW slot \in Slots, NEW p \in Prices,
             FeedTick(f, s, slot, p)
      PROVE  LockInv'
  <2>1. \A o \in Operators : pc'[o] = pc[o]
    BY <1>1, PipelineAssumption DEF FeedTick, TypeInv
  <2>2. UNCHANGED <<elock, steady, running, active>>
    BY <1>1 DEF FeedTick
  <2> QED
    BY <2>1, <2>2, LockFramePreserves DEF LockFrame
<1>2. ASSUME NEW t \in Tasks, CandleStep(t) PROVE LockInv'
  <2>1. \A o \in Operators : pc'[o] \in Handling \cup {"flush"} => pc[o] \in Handling \cup {"flush"}
    BY <1>2 DEF CandleStep, OnCandle, InsertSignal, UpdateStateForSignal, MarkBroadcast, Deliver,
                HandleBuiltCandle, EndCandle, TypeInv, Handling, Pending
  <2>2. UNCHANGED <<elock, steady, running, active>>
    BY <1>2 DEF CandleStep, OnCandle, InsertSignal, UpdateStateForSignal, MarkBroadcast, Deliver,
                HandleBuiltCandle
  <2> QED
    BY <2>1, <2>2, LockFramePreserves DEF LockFrame
<1>3. ASSUME NEW o \in Operators, EngineStart(o) PROVE LockInv'
  <2>1. /\ elock' = elock /\ elock = None /\ running' = TRUE /\ active' = TRUE
        /\ pc' = [pc EXCEPT ![o] = "seed"]
    BY <1>3 DEF EngineStart, Activate
  <2>2. \A q \in Operators : pc'[q] \in Handling \cup {"flush"} => pc[q] \in Handling \cup {"flush"}
    BY <2>1 DEF TypeInv, Handling, Pending
  <2> QED
    BY <2>1, <2>2 DEF LockInv
<1>4. ASSUME NEW o \in Operators,
             \/ SeedStateRows(o) \/ Start(o) \/ DropBuckets(o) \/ DeleteRows(o)
             \/ \E why \in {"stop", "reset"} : CallStop(o, why)
      PROVE  LockInv'
  <2>1. \A q \in Operators : pc'[q] \in Handling \cup {"flush"} => pc[q] \in Handling \cup {"flush"}
    BY <1>4 DEF SeedStateRows, Start, DropBuckets, DeleteRows, CallStop, TypeInv, Handling, Pending
  <2>2. /\ UNCHANGED <<elock, running, active>>
        /\ steady' = steady \/ steady' = FALSE
    BY <1>4 DEF SeedStateRows, Start, DropBuckets, DeleteRows, CallStop
  <2> QED
    BY <2>1, <2>2, LockFramePreserves DEF LockFrame
<1>5. ASSUME NEW o \in Operators, EngineStop(o) PROVE LockInv'
  <2>1. \A q \in Operators \ {o} : pc'[q] = pc[q]
    BY <1>5 DEF EngineStop, AfterStop, TypeInv
  <2>2. CASE running
    <3>1. elock = None /\ elock' = o /\ steady' = FALSE
      BY <1>5, <2>2 DEF EngineStop
    <3>2. \A q \in Operators \ {o} : pc[q] \notin Handling \cup {"flush"}
      BY <3>1, NoneIsNoOperator DEF LockInv
    <3> QED
      BY <2>1, <3>1, <3>2 DEF LockInv
  <2>3. CASE ~running
    <3>1. /\ UNCHANGED <<elock, steady, running, active>>
          /\ pc' = [pc EXCEPT ![o] = AfterStop(o)]
      BY <1>5, <2>3 DEF EngineStop
    <3>2. pc'[o] \notin Handling \cup {"flush"}
      BY <3>1 DEF AfterStop, TypeInv, Handling, Pending
    <3> QED
      BY <2>1, <3>1, <3>2, LockFramePreserves DEF LockFrame
  <2> QED
    BY <2>2, <2>3
<1>6. ASSUME NEW o \in Operators, NEW s \in Symbols, FlushSymbol(o, s) PROVE LockInv'
  <2>1. /\ UNCHANGED <<elock, steady, running, active>> /\ pc[o] = "flush"
        /\ \A q \in Operators \ {o} : pc'[q] = pc[q]
    BY <1>6 DEF FlushSymbol, TypeInv
  <2> QED
    BY <2>1, LockFramePreserves DEF LockFrame
<1>7. ASSUME NEW o \in Operators, EngineStopped(o) PROVE LockInv'
  <2>1. /\ elock' = None /\ steady' = steady /\ pc[o] = "flush" /\ elock = o
        /\ pc' = [pc EXCEPT ![o] = AfterStop(o)]
    BY <1>7 DEF EngineStopped, LockInv
  <2>2. \A q \in Operators : pc'[q] \notin Handling \cup {"flush"}
    BY <2>1 DEF AfterStop, LockInv, TypeInv, Handling, Pending
  <2>3. ~steady'
    BY <2>1, NoneIsNoOperator DEF LockInv
  <2> QED
    BY <2>2, <2>3 DEF LockInv
<1>8. CASE DeactivateJob \/ UNCHANGED vars \/ \E s \in Symbols : AddSymbol(s) \/ RemoveSymbol(s)
  <2>1. /\ UNCHANGED <<pc, elock>>
        /\ steady' = FALSE \/ UNCHANGED <<steady, running, active>>
    BY <1>8 DEF DeactivateJob, AddSymbol, RemoveSymbol, vars
  <2> QED
    BY <2>1, LockFramePreserves DEF LockFrame
<1>9. CASE Restart
  <2>1. steady' = FALSE /\ \A o \in Operators : pc'[o] = "idle"
    BY <1>9 DEF Restart
  <2> QED
    BY <2>1 DEF LockInv, Handling, Pending
<1> QED
  BY <1>1, <1>2, <1>3, <1>4, <1>5, <1>6, <1>7, <1>8, <1>9 DEF Next, OperatorStep

(* Only a feeder handles candles in a steady session.                        *)
LEMMA SteadyTasks ==
    ASSUME LockInv, steady, NEW t \in Tasks, pc[t] \in Handling
    PROVE  t \in Feeders
BY NoneIsNoOperator DEF LockInv, Tasks

(* A step that leaves the session, or its log, its pending candles and the   *)
(* engine's state objects.                                                   *)
SteadyFrame ==
    steady' =>
        /\ steady /\ UNCHANGED <<watch, gen, log>>
        /\ \A s \in watch : st'[gen][s] = st[gen][s]
        /\ \A t \in Tasks : /\ pc'[t] = "closed" <=> pc[t] = "closed"
                            /\ pc'[t] = "insert" => pc[t] = "insert"
                            /\ pc[t] = "closed" => job'[t] = job[t]
                            /\ pc[t] = "insert" => obj'[t] = obj[t]

LEMMA SteadyFramePreserves ==
    ASSUME SteadyInv, SteadyFrame
    PROVE  SteadyInv'
<1> SUFFICES ASSUME steady'
             PROVE  /\ \A s \in watch' : Follows(st'[gen'][s], s, log'[s], Done(s)')
                    /\ \A t \in Tasks :
                         /\ pc'[t] = "closed" =>
                              LET c == job'[t]
                              IN  /\ c.sym \in watch' /\ c.slot \in Closed(log'[c.sym])
                                  /\ c = CandleOf(c.sym, log'[c.sym], c.slot) /\ c.low <= c.high
                                  /\ \A k \in Closed(log'[c.sym]) : k <= c.slot
                         /\ pc'[t] = "insert" => obj'[t] = gen'
  BY DEF SteadyInv
<1>1. \A s : Waiting(s)' = Waiting(s)
  BY DEF SteadyFrame, Waiting
<1>2. \A s : Done(s)' = Done(s)
  BY <1>1 DEF SteadyFrame, Done
<1>3. \A s \in watch' : Follows(st'[gen'][s], s, log'[s], Done(s)')
  BY <1>2 DEF SteadyFrame, SteadyInv
<1>4. ASSUME NEW t \in Tasks, pc'[t] = "closed"
      PROVE  LET c == job'[t]
             IN  /\ c.sym \in watch' /\ c.slot \in Closed(log'[c.sym])
                 /\ c = CandleOf(c.sym, log'[c.sym], c.slot) /\ c.low <= c.high
                 /\ \A k \in Closed(log'[c.sym]) : k <= c.slot
  BY <1>4 DEF SteadyFrame, SteadyInv
<1>5. \A t \in Tasks : pc'[t] = "insert" => obj'[t] = gen'
  BY DEF SteadyFrame, SteadyInv
<1> QED
  BY <1>3, <1>4, <1>5

LEMMA SteadyInvInit == Init => SteadyInv
BY DEF Init, SteadyInv

LEMMA FeedTickSteady ==
    ASSUME OneFeeder, TypeInv, BucketInv, LockInv, SteadyInv,
           NEW f \in Feeders, NEW s \in Symbols, NEW slot \in Slots, NEW p \in Prices,
           FeedTick(f, s, slot, p), steady
    PROVE  SteadyInv'
<1> DEFINE b == bucket[s]
           x == [slot |-> slot, price |-> p]
           l == log[s]
           m == Append(l, x)
           closes == b # None /\ Elapsed(b, slot)
<1>1. /\ pc[f] = "idle" /\ s \in watch /\ x \in Tick /\ x.slot = slot /\ l \in Seq(Tick)
      /\ UNCHANGED <<watch, gen, st, obj, steady>>
  BY DEF FeedTick, engineVars, TypeInv, Tick
<1>2. log' = [log EXCEPT ![s] = m] /\ m \in Seq(Tick)
  <2>1. log' = [log EXCEPT ![s] = m]
    BY DEF FeedTick
  <2> QED
    BY <1>1, <2>1
<1>3. log'[s] = m /\ \A r \in Symbols \ {s} : log'[r] = log[r]
  BY <1>2 DEF TypeInv
<1>4. \A t \in Tasks : pc[t] \notin Handling
  BY <1>1, SteadyTasks DEF OneFeeder, Handling, Pending
<1>5. \A r : Waiting(r) = {}
  BY <1>4 DEF Waiting, Handling
<1>6. /\ b = None => l = <<>>
      /\ b # None => Summarises(b, s, l)
  BY NoneAssumption DEF BucketInv, Summarises
<1>7. \A r \in watch : Follows(st[gen][r], r, log[r], Closed(log[r]))
  BY <1>5 DEF SteadyInv, Done
<1>8. watch \subseteq Symbols
  BY DEF TypeInv
<1>9. CASE ~closes
  <2>1. UNCHANGED <<pc, job>>
    BY <1>9 DEF FeedTick
  <2>2. \A r : Waiting(r)' = {}
    BY <1>5, <2>1 DEF Waiting
  <2>3. /\ Closed(m) = Closed(l)
        /\ \A k \in Closed(l) : CandleOf(s, m, k) = CandleOf(s, l, k)
    <3>1. CASE b = None
      BY <1>1, <1>6, <3>1, FirstTickCloses, EmptyLog
    <3>2. CASE b # None
      <4>1. slot <= b.slot /\ b.slot \in Int
        BY <1>6, <1>9, <3>2 DEF Summarises, Candle, Slots, Elapsed
      <4>2. LatestSlot(m, b.slot)
        <5> HIDE DEF m, x
        <5>1. /\ Len(l) \in Nat /\ DOMAIN l = 1..Len(l) /\ DOMAIN m = 1..(Len(l) + 1)
              /\ m[Len(l) + 1] = x /\ \A i \in 1..Len(l) : m[i] = l[i]
          BY <1>1 DEF m
        <5>2. \A i \in DOMAIN m : m[i].slot <= b.slot
          <6>1. \A i \in 1..Len(l) : l[i].slot <= b.slot
            BY <1>6, <3>2, <5>1 DEF Summarises, LatestSlot
          <6>2. x.slot <= b.slot
            BY <1>1, <4>1
          <6> QED
            BY <5>1, <6>1, <6>2
        <5>3. \E i \in DOMAIN m : m[i].slot = b.slot
          BY <1>6, <3>2, <5>1 DEF Summarises, LatestSlot
        <5> QED
          BY <5>2, <5>3 DEF LatestSlot
      <4> QED
        BY <1>1, <1>6, <3>2, <4>2, UpdateCloses
    <3> QED
      BY <3>1, <3>2
  <2>4. Follows(st[gen][s], s, m, Closed(m))
    BY <1>1, <1>7, <2>3, FollowsKept
  <2>5. \A r \in watch : Follows(st[gen][r], r, log'[r], Closed(log'[r]))
    BY <1>3, <1>7, <1>8, <2>4
  <2>6. \A t \in Tasks : pc'[t] # "closed" /\ pc'[t] # "insert"
    BY <1>4, <2>1 DEF Handling, Pending
  <2> HIDE DEF m, l, x, b
  <2> QED
    BY <1>1, <2>2, <2>5, <2>6 DEF SteadyInv, Done
<1>10. CASE closes
  <2>1. /\ job' = [job EXCEPT ![f] = b] /\ pc' = [pc EXCEPT ![f] = "closed"]
        /\ f \in Tasks /\ Summarises(b, s, l) /\ b.sym = s /\ slot > b.slot
    BY <1>6, <1>10 DEF FeedTick, Goto, Tasks, Elapsed, Summarises
  <2>2. /\ Closed(m) = Closed(l) \cup {b.slot} /\ b.slot \notin Closed(l)
        /\ \A k \in Closed(m) : k <= b.slot /\ CandleOf(s, m, k) = CandleOf(s, l, k)
        /\ b = CandleOf(s, m, b.slot) /\ b.low <= b.high
    BY <1>1, <2>1, LaterTickCloses
  <2> HIDE DEF m, l, x, b
  <2>3. /\ pc'[f] = "closed" /\ job'[f] = b
        /\ \A t \in Tasks \ {f} : pc'[t] # "closed" /\ pc'[t] # "insert"
    BY <1>4, <2>1 DEF TypeInv, Handling, Pending
  <2>4. Waiting(s)' = {b.slot} /\ \A r \in Symbols \ {s} : Waiting(r)' = {}
    BY <2>1, <2>3 DEF Waiting
  <2>5. Follows(st[gen][s], s, m, Closed(l))
    BY <1>1, <1>7, <2>2, FollowsKept DEF l
  <2>6. Done(s)' = Closed(l)
    BY <1>3, <2>2, <2>4 DEF Done
  <2>7. \A r \in Symbols \ {s} : Done(r)' = Closed(log[r])
    BY <1>3, <2>4 DEF Done
  <2>8. \A r \in watch : Follows(st[gen][r], r, log'[r], Done(r)')
    BY <1>3, <1>7, <1>8, <2>5, <2>6, <2>7
  <2>9. /\ b.sym \in watch /\ b.slot \in Closed(log'[b.sym])
        /\ b = CandleOf(b.sym, log'[b.sym], b.slot)
        /\ \A k \in Closed(log'[b.sym]) : k <= b.slot
    BY <1>1, <1>3, <2>1, <2>2
  <2>10. ASSUME NEW t \in Tasks
         PROVE  /\ pc'[t] = "closed" =>
                     LET c == job'[t]
                     IN  /\ c.sym \in watch' /\ c.slot \in Closed(log'[c.sym])
                         /\ c = CandleOf(c.sym, log'[c.sym], c.slot) /\ c.low <= c.high
                         /\ \A k \in Closed(log'[c.sym]) : k <= c.slot
                /\ pc'[t] = "insert" => obj'[t] = gen'
    <3>1. CASE t = f
      BY <1>1, <2>2, <2>3, <2>9, <3>1
    <3>2. CASE t # f
      BY <2>3, <3>2
    <3> QED
      BY <3>1, <3>2
  <2>11. \A r \in watch' : Follows(st'[gen'][r], r, log'[r], Done(r)')
    BY <1>1, <2>8
  <2> QED
    BY <2>10, <2>11 DEF SteadyInv
<1> QED
  BY <1>9, <1>10

LEMMA OnCandleSteady ==
    ASSUME OneFeeder, TypeInv, LockInv, SteadyInv, NEW t \in Tasks, OnCandle(t), steady
    PROVE  SteadyInv'
<1> DEFINE c == job[t]
           s == c.sym
           e == st[gen][s]
           K == Done(s)
<1>1. /\ pc[t] = "closed" /\ c \in Candle /\ s \in Symbols /\ active /\ t \in Feeders
      /\ UNCHANGED <<watch, gen, log, job, steady>> /\ gen \in 1..MaxGen
  <2>1. pc[t] = "closed" /\ UNCHANGED <<watch, gen, log, job, steady>>
    BY DEF OnCandle, builderVars
  <2>2. c \in Candle /\ s \in Symbols
    BY <2>1 DEF TypeInv, Handling, Candle
  <2>3. active /\ t \in Feeders
    BY <2>1, SteadyTasks DEF LockInv, Handling
  <2> QED
    BY <2>1, <2>2, <2>3 DEF TypeInv
<1>2. /\ s \in watch /\ c.slot \in Closed(log[s]) /\ c = CandleOf(s, log[s], c.slot)
      /\ c.low <= c.high /\ \A k \in Closed(log[s]) : k <= c.slot
      /\ Follows(e, s, log[s], K) /\ e \in SymbolState /\ e # None
  <2>1. /\ s \in watch /\ c.slot \in Closed(log[s]) /\ c = CandleOf(s, log[s], c.slot)
        /\ c.low <= c.high /\ \A k \in Closed(log[s]) : k <= c.slot
    BY <1>1 DEF SteadyInv
  <2>2. Follows(e, s, log[s], K)
    BY <2>1 DEF SteadyInv
  <2> QED
    BY <2>1, <2>2, NoneAssumption DEF Follows
<1>3. \A u \in Tasks \ {t} : pc[u] # "closed"
  BY <1>1, SteadyTasks DEF OneFeeder, Handling
<1>4. \A r \in Symbols : Waiting(r) = IF r = s THEN {c.slot} ELSE {}
  BY <1>1, <1>3 DEF Waiting
<1>5. K = Closed(log[s]) \ {c.slot} /\ K \cup {c.slot} = Closed(log[s])
  BY <1>1, <1>2, <1>4 DEF Done
<1>6. NextCandle(e, s, log[s], K, c)
  BY <1>1, <1>2, <1>5 DEF NextCandle, Closed
<1>7. watch \subseteq Symbols
  BY DEF TypeInv
<1> HIDE DEF K
<1>8. ASSUME NEW u, Follows(u, s, log[s], K \cup {c.slot}),
             \A r \in Symbols : st'[gen][r] = IF r = s THEN u ELSE st[gen][r],
             \A q \in Tasks : pc'[q] # "closed" /\ (pc'[q] = "insert" => obj'[q] = gen)
      PROVE  SteadyInv'
  <2> HIDE DEF c, s, e
  <2>1. \A r : Waiting(r)' = {}
    BY <1>8 DEF Waiting
  <2>2. \A r : Done(r)' = Closed(log[r])
    BY <1>1, <2>1 DEF Done
  <2>3. \A r \in Symbols \ {s} : Done(r) = Closed(log[r])
    BY <1>4 DEF Done
  <2>4. \A r \in watch : Follows(st'[gen][r], r, log[r], Closed(log[r]))
    <3>1. Follows(st'[gen][s], s, log[s], Closed(log[s]))
      BY <1>1, <1>5, <1>8
    <3>2. \A r \in watch \ {s} : Follows(st'[gen][r], r, log[r], Closed(log[r]))
      BY <1>7, <1>8, <2>3 DEF SteadyInv
    <3> QED
      BY <3>1, <3>2
  <2>5. \A r \in watch' : Follows(st'[gen'][r], r, log'[r], Done(r)')
    BY <1>1, <2>2, <2>4
  <2> QED
    BY <1>1, <1>8, <2>5 DEF SteadyInv
<1>9. \A q \in Tasks : pc[q] = "insert" => obj[q] = gen
  BY DEF SteadyInv
<1>10. CASE MayEnter(e, c) /\ Breakout(e, c) # {}
  <2>1. PICK d \in Breakout(e, c) :
          /\ st' = [st EXCEPT ![gen][s].locked = TRUE, ![gen][s].emitted = BuildSignal(c, d)]
          /\ obj' = [obj EXCEPT ![t] = gen] /\ pc' = [pc EXCEPT ![t] = "insert"]
    BY <1>1, <1>2, <1>10 DEF OnCandle, Goto
  <2> DEFINE u == [e EXCEPT !.locked = TRUE, !.emitted = BuildSignal(c, d)]
  <2>2. Follows(u, s, log[s], K \cup {c.slot})
    BY <1>1, <1>6, <1>10, EmitFollows
  <2>3. \A r \in Symbols : st'[gen][r] = IF r = s THEN u ELSE st[gen][r]
    BY <1>1, <2>1 DEF TypeInv
  <2> HIDE DEF u
  <2>4. \A q \in Tasks : pc'[q] # "closed" /\ (pc'[q] = "insert" => obj'[q] = gen)
    BY <1>3, <1>9, <2>1 DEF TypeInv
  <2> QED
    BY <1>8, <2>2, <2>3, <2>4
<1>11. CASE ~(MayEnter(e, c) /\ Breakout(e, c) # {})
  <2>1. /\ st' = IF Captures(e, c) THEN [st EXCEPT ![gen][s] = Capture(e, c)] ELSE st
        /\ obj' = obj /\ pc' = [pc EXCEPT ![t] = "mirror"]
    BY <1>1, <1>2, <1>11 DEF OnCandle, Goto
  <2>2. \A q \in Tasks : pc'[q] # "closed" /\ (pc'[q] = "insert" => obj'[q] = gen)
    BY <1>3, <1>9, <2>1 DEF TypeInv
  <2>3. CASE Captures(e, c)
    <3> DEFINE u == Capture(e, c)
    <3>1. Follows(u, s, log[s], K \cup {c.slot})
      BY <1>6, <2>3, CaptureFollows
    <3>2. \A r \in Symbols : st'[gen][r] = IF r = s THEN u ELSE st[gen][r]
      BY <1>1, <2>1, <2>3 DEF TypeInv
    <3> HIDE DEF u
    <3> QED
      BY <1>8, <2>2, <3>1, <3>2
  <2>4. CASE ~Captures(e, c)
    <3>1. Follows(e, s, log[s], K \cup {c.slot})
      BY <1>6, <1>11, <2>4, PassFollows
    <3>2. \A r \in Symbols : st'[gen][r] = IF r = s THEN e ELSE st[gen][r]
      BY <2>1, <2>4
    <3> QED
      BY <1>8, <2>2, <3>1, <3>2
  <2> QED
    BY <2>3, <2>4
<1> QED
  BY <1>10, <1>11

(* lock_symbol on the object the signal was emitted from changes nothing.    *)
LEMMA InsertSteady ==
    ASSUME TypeInv, EmissionInv, SteadyInv, NEW t \in Tasks, InsertSignal(t), steady
    PROVE  \A r \in Symbols : st'[gen][r] = st[gen][r]
<1> DEFINE s == job[t].sym
           e == st[gen][s]
<1>1. pc[t] = "insert" /\ s \in Symbols /\ (st' = st \/ LockSymbol(s))
  BY DEF InsertSignal, TypeInv, Handling, Pending, Candle
<1>2. obj[t] = gen /\ gen \in 1..gen /\ e # None /\ e.locked
  BY <1>1 DEF SteadyInv, EmissionInv, PendingInv, Pending
<1>3. gen \in 1..MaxGen /\ e \in SymbolState
  BY <1>1, <1>2 DEF TypeInv
<1>4. [e EXCEPT !.locked = TRUE] = e
  <2>1. e.locked = TRUE
    BY <1>2, <1>3 DEF SymbolState
  <2> HIDE DEF e
  <2> QED
    BY <1>3, <2>1 DEF SymbolState
<1>5. CASE LockSymbol(s)
  <2>1. st' = [st EXCEPT ![gen] = [st[gen] EXCEPT ![s] = [e EXCEPT !.locked = TRUE]]]
    BY <1>2, <1>3, <1>5 DEF LockSymbol
  <2>2. \A r \in Symbols : st'[gen][r] = IF r = s THEN [e EXCEPT !.locked = TRUE] ELSE st[gen][r]
    BY <1>3, <2>1 DEF TypeInv
  <2> QED
    BY <1>4, <2>2
<1> QED
  BY <1>1, <1>5

LEMMA DispatchSteady ==
    ASSUME TypeInv, EmissionInv, SteadyInv, NEW t \in Tasks,
           \/ InsertSignal(t) \/ UpdateStateForSignal(t) \/ MarkBroadcast(t)
           \/ Deliver(t) \/ HandleBuiltCandle(t)
    PROVE  SteadyInv'
<1>1. /\ UNCHANGED <<steady, watch, gen, log>>
      /\ ~InsertSignal(t) => st' = st
  BY DEF InsertSignal, UpdateStateForSignal, MarkBroadcast, Deliver, HandleBuiltCandle,
         builderVars, engineVars
<1>2. \A u \in Tasks : /\ pc'[u] = "closed" <=> pc[u] = "closed"
                       /\ pc'[u] = "insert" => pc[u] = "insert"
                       /\ pc[u] = "closed" => job'[u] = job[u]
                       /\ pc[u] = "insert" => obj'[u] = obj[u]
  BY DEF InsertSignal, UpdateStateForSignal, MarkBroadcast, Deliver, HandleBuiltCandle,
         EndCandle, Goto, TypeInv
<1>3. steady => \A s \in watch : st'[gen][s] = st[gen][s]
  BY <1>1, InsertSteady DEF TypeInv
<1> QED
  BY <1>1, <1>2, <1>3, SteadyFramePreserves DEF SteadyFrame

LEMMA EngineStartSteady ==
    ASSUME TypeInv, NEW o \in Operators, EngineStart(o)
    PROVE  SteadyInv'
<1> SUFFICES ASSUME steady' PROVE SteadyInv'
  BY DEF SteadyInv
<1>1. /\ \A s \in Symbols : log[s] = <<>>
      /\ \A t \in Tasks : pc[t] # "closed" /\ pc[t] # "insert"
      /\ log' = log /\ pc' = [pc EXCEPT ![o] = "seed"]
  <2>1. NothingPending
    BY DEF EngineStart
  <2>2. /\ \A s \in Symbols : log[s] = <<>>
        /\ \A t \in Tasks : pc[t] \notin {"closed", "insert"}
    BY <2>1 DEF NothingPending
  <2>3. log' = log /\ pc' = [pc EXCEPT ![o] = "seed"]
    BY DEF EngineStart, Goto, builderVars
  <2> QED
    BY <2>2, <2>3
<1>2. PICK list \in SUBSET Symbols :
        /\ watch' = list
        /\ st' = [st EXCEPT ![gen + 1] = [s \in Symbols |-> IF s \in list THEN FreshState ELSE None]]
        /\ gen' = gen + 1 /\ gen < MaxGen
  BY DEF EngineStart, Activate
<1>3. gen + 1 \in 1..MaxGen
  BY <1>2, PipelineAssumption DEF TypeInv
<1>4. \A s \in watch' : s \in Symbols /\ st'[gen'][s] = FreshState
  BY <1>2, <1>3 DEF TypeInv
<1>5. \A t \in Tasks : pc'[t] # "closed" /\ pc'[t] # "insert"
  BY <1>1 DEF TypeInv
<1>6. \A s \in watch' : log'[s] = <<>> /\ Done(s)' = {}
  BY <1>1, <1>4, EmptyLog DEF Done
<1>7. \A s : Follows(FreshState, s, <<>>, {})
  <2>1. FreshState \in SymbolState
    BY DEF FreshState, SymbolState
  <2>2. \A s : Breaking(s, <<>>, {}) = {}
    BY DEF Breaking
  <2> QED
    BY <2>1, <2>2 DEF Follows, FreshState
<1>8. \A s \in watch' : Follows(st'[gen'][s], s, log'[s], Done(s)')
  BY <1>4, <1>6, <1>7
<1> QED
  BY <1>5, <1>8 DEF SteadyInv

LEMMA OtherSteady ==
    ASSUME TypeInv, LockInv, SteadyInv,
           \/ \E o \in Operators :
                \/ SeedStateRows(o) \/ EngineStop(o) \/ EngineStopped(o) \/ DropBuckets(o)
                \/ DeleteRows(o) \/ Start(o) \/ \E s \in Symbols : FlushSymbol(o, s)
                \/ \E why \in {"stop", "reset"} : CallStop(o, why)
           \/ DeactivateJob \/ Restart \/ UNCHANGED vars
           \/ \E s \in Symbols : AddSymbol(s) \/ RemoveSymbol(s)
    PROVE  SteadyInv'
<1>1. CASE steady' = FALSE
  BY <1>1 DEF SteadyInv
<1>2. CASE UNCHANGED vars
  <2>1. UNCHANGED <<steady, watch, gen, log, st, pc, job, obj>>
    BY <1>2 DEF vars, builderVars, engineVars
  <2> QED
    BY <2>1, SteadyFramePreserves DEF SteadyFrame
<1>3. ASSUME NEW o \in Operators, NEW s \in Symbols, FlushSymbol(o, s) PROVE SteadyInv'
  <2>1. pc[o] = "flush" /\ steady' = steady
    BY <1>3 DEF FlushSymbol
  <2>2. ~steady
    BY <2>1, NoneIsNoOperator DEF LockInv
  <2> QED
    BY <2>1, <2>2 DEF SteadyInv
<1>4. ASSUME NEW o \in Operators, steady' = steady,
             \/ SeedStateRows(o) \/ EngineStop(o) \/ EngineStopped(o)
             \/ DeleteRows(o) \/ Start(o)
             \/ \E why \in {"stop", "reset"} : CallStop(o, why)
      PROVE  SteadyInv'
  <2>1. UNCHANGED <<steady, watch, gen, log, st, job, obj>>
    BY <1>4 DEF SeedStateRows, EngineStop, EngineStopped, DeleteRows, Start, CallStop,
                builderVars, engineVars
  <2>2. \A u \in Tasks : /\ pc'[u] = "closed" <=> pc[u] = "closed"
                         /\ pc'[u] = "insert" => pc[u] = "insert"
    BY <1>4 DEF SeedStateRows, EngineStop, EngineStopped, DeleteRows, Start, CallStop,
                AfterStop, Goto, TypeInv
  <2> QED
    BY <2>1, <2>2, SteadyFramePreserves DEF SteadyFrame
<1>5. ASSUME NEW o \in Operators,
             \/ SeedStateRows(o) \/ EngineStop(o) \/ EngineStopped(o) \/ DropBuckets(o)
             \/ DeleteRows(o) \/ Start(o)
             \/ \E why \in {"stop", "reset"} : CallStop(o, why)
      PROVE  /\ steady' = steady \/ steady' = FALSE
             /\ DropBuckets(o) => steady' = FALSE
  BY <1>5 DEF SeedStateRows, EngineStop, EngineStopped, DropBuckets, DeleteRows, Start, CallStop
<1>6. CASE DeactivateJob \/ Restart \/ \E s \in Symbols : AddSymbol(s) \/ RemoveSymbol(s)
  <2>1. steady' = FALSE
    BY <1>6 DEF DeactivateJob, Restart, AddSymbol, RemoveSymbol
  <2> QED
    BY <1>1, <2>1
<1> QED
  BY <1>1, <1>2, <1>3, <1>4, <1>5, <1>6

PipelineInv == TypeInv /\ EmissionInv /\ BucketInv /\ LockInv /\ SteadyInv

LEMMA SteadyInvNext ==
    ASSUME OneFeeder, PipelineInv, [Next]_vars
    PROVE  SteadyInv'
<1> USE DEF PipelineInv
<1>1. ASSUME NEW f \in Feeders, NEW s \in Symbols, NEW slot \in Slots, NEW p \in Prices,
             FeedTick(f, s, slot, p)
      PROVE  SteadyInv'
  <2>1. CASE ~steady
    BY <1>1, <2>1 DEF FeedTick, SteadyInv
  <2> QED
    BY <1>1, <2>1, FeedTickSteady
<1>2. ASSUME NEW t \in Tasks, CandleStep(t) PROVE SteadyInv'
  <2>1. CASE OnCandle(t)
    <3>1. CASE ~steady
      BY <2>1, <3>1 DEF OnCandle, SteadyInv
    <3> QED
      BY <2>1, <3>1, OnCandleSteady
  <2> QED
    BY <1>2, <2>1, DispatchSteady DEF CandleStep
<1>3. ASSUME NEW o \in Operators, EngineStart(o) PROVE SteadyInv'
  BY <1>3, EngineStartSteady
<1> QED
  BY <1>1, <1>2, <1>3, OtherSteady DEF Next, OperatorStep

(* In a steady session what a symbol's state has seen, locked and signalled  *)
(* is what the candles of the ticks so far demand, if there is one feed.     *)
THEOREM PipelineInvariant ==
    ASSUME OneFeeder
    PROVE  Spec => []PipelineInv
<1>1. Init => PipelineInv
  BY TypeInvInit, EmissionInvInit, BucketInvInit, LockInvInit, SteadyInvInit DEF PipelineInv
<1>2. PipelineInv /\ [Next]_vars => PipelineInv'
  BY EmissionInvNext, BucketInvNext, LockInvNext, SteadyInvNext DEF PipelineInv
<1> QED
  BY <1>1, <1>2, PTL DEF Spec

(* In a session activated before its first tick and not disturbed, the       *)
(* engine has signalled at the first breakout of the ticks received and      *)
(* nowhere else, in the direction of that close (candle_builder.py: on_tick; *)
(* signal_engine.py: on_candle), if a single feed awaits feed_tick for one   *)
(* tick after the other, as the tests do; the repository has no feed yet.    *)
THEOREM FirstBreakoutTheorem ==
    ASSUME OneFeeder
    PROVE  FairSpec => []FirstBreakoutSignals
<1>1. PipelineInv => FirstBreakoutSignals
  <2> SUFFICES ASSUME PipelineInv, steady, NEW s \in watch,
                      \A t \in Tasks : ~(pc[t] = "closed" /\ job[t].sym = s)
               PROVE  LET e == st[gen][s].emitted
                          ks == BreakoutSlots(s, log[s])
                      IN  IF ks = {} THEN e = None
                          ELSE /\ e # None /\ e.slot = Min(ks)
                               /\ (e.side = "UP") = (CandleOf(s, log[s], e.slot).close
                                                       > CandleOf(s, log[s], 0).high)
    BY DEF FirstBreakoutSignals
  <2> DEFINE e == st[gen][s].emitted
             l == log[s]
             ks == BreakoutSlots(s, l)
  <2>1. s \in Symbols /\ l \in Seq(Tick) /\ (l # <<>> => Summarises(bucket[s], s, l))
    BY DEF PipelineInv, TypeInv, BucketInv
  <2>2. Done(s) = Closed(l)
    BY DEF Done, Waiting
  <2>3. Follows(st[gen][s], s, l, Closed(l))
    BY <2>2 DEF PipelineInv, SteadyInv
  <2>4. ks = Breaking(s, l, Closed(l))
    <3>1. CASE l = <<>>
      BY <3>1, EmptyLog DEF BreakoutSlots, Breaking
    <3>2. CASE l # <<>>
      <4>1. SlotAt(l, Len(l)) \in Slots /\ SlotAt(l, Len(l)) \in Int
        BY <2>1, <3>2 DEF Summarises, InSlot, Candle, Slots
      <4>2. \A k \in 1..(LatestEntry - 1) : k < SlotAt(l, Len(l)) => k \in Slots /\ 0 < SlotAt(l, Len(l))
        BY <4>1, PipelineAssumption DEF Slots
      <4>3. 0 \in Slots
        BY PipelineAssumption DEF Slots
      <4>4. \A k \in Slots : 1 <= k /\ k < LatestEntry <=> k \in 1..(LatestEntry - 1)
        BY PipelineAssumption DEF Slots
      <4> DEFINE r == CandleOf(s, l, 0)
      <4>5. Narrow(r) <=> r.high - r.low <= MaxOrbRange
        BY DEF Narrow
      <4> HIDE DEF l, r
      <4>6. ASSUME NEW k
            PROVE  k \in ks <=> k \in Breaking(s, l, Closed(l))
        <5>1. k \in ks <=> /\ InSlot(l, 0) # {} /\ k \in 1..(LatestEntry - 1)
                           /\ k < SlotAt(l, Len(l)) /\ InSlot(l, k) # {}
                           /\ Narrow(r) /\ Breaks(s, l, k)
          BY <3>2, <4>5 DEF BreakoutSlots, r
        <5>2. k \in Breaking(s, l, Closed(l)) <=>
                /\ k \in Slots /\ InSlot(l, k) # {} /\ k < SlotAt(l, Len(l))
                /\ 1 <= k /\ k < LatestEntry
                /\ InSlot(l, 0) # {} /\ 0 < SlotAt(l, Len(l))
                /\ Narrow(r) /\ Breaks(s, l, k)
          BY <4>3 DEF Breaking, Closed, r
        <5> QED
          BY <4>2, <4>4, <5>1, <5>2
      <4>7. ks \subseteq Breaking(s, l, Closed(l)) /\ Breaking(s, l, Closed(l)) \subseteq ks
        BY <4>6
      <4> QED
        BY <4>7 DEF l
    <3> QED
      BY <3>1, <3>2
  <2>5. CASE ks = {}
    BY <2>3, <2>4, <2>5 DEF Follows
  <2>6. CASE ks # {}
    <3>1. /\ e # None /\ e.slot \in ks /\ \A k \in ks : e.slot <= k
          /\ (e.side = "UP") = (CandleOf(s, l, e.slot).close > CandleOf(s, l, 0).high)
      BY <2>3, <2>4, <2>6 DEF Follows
    <3>2. ks \in SUBSET Int
      BY <2>4 DEF Breaking, Closed, Slots
    <3> HIDE DEF ks, e
    <3>3. e.slot = Min(ks)
      BY <3>1, <3>2, MinIs
    <3> QED
      BY <2>6, <3>1, <3>3 DEF ks, e
  <2> QED
    BY <2>5, <2>6
<1> QED
  BY <1>1, PipelineInvariant, PTL DEF FairSpec
=============================================================================
