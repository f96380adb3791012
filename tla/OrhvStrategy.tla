---------------------------- MODULE OrhvStrategy ----------------------------
(***************************************************************************)
(* One trading day of the Opening Range Historical Validation strategy, at *)
(* the level of its 15-minute candles.                                     *)
(*                                                                         *)
(* The day grows candle by candle, as the live feed closes them.  Four     *)
(* pieces of the strategy package read it: the Phase 1 detector, the       *)
(* Phase 3 replays of the historical validator and of the backtest engine, *)
(* the older close-based TradeSimulator (each a function of the candles    *)
(* seen so far), and ORHVSignalGenerator, which keeps per-symbol state and *)
(* sees every candle once.  One symbol: no piece of the package relates    *)
(* two symbols.                                                            *)
(*                                                                         *)
(* A candle is [slot, high, low, close]; slots are the distinguished open  *)
(* times of the session in order.  Prices are whole units of PriceScale    *)
(* ticks, so that a fill with slippage stays an integer.                   *)
(***************************************************************************)
EXTENDS Integers, Sequences, SequencesExt, FiniteSets, Optional

CONSTANTS
    Shapes,          \* the <<high, low, close>> a candle may have
    OpenSlot,        \* 09:15 IST, the opening-range candle
    WindowSlots,     \* 09:30 .. 12:00 IST, the entry window
    EodSlot,         \* 15:15 IST, forced exit from here on
    MaxOrbRangePct,  \* widest opening range, percent of its close
    CapitalPerTrade, Brokerage, PriceScale, SlippageTicks

ASSUME ShapesAreCandles ==
    /\ Shapes \subseteq Nat \X Nat \X Nat
    /\ \A s \in Shapes : s[2] <= s[3] /\ s[3] <= s[1] /\ s[2] > 0
ASSUME SlotOrder ==
    /\ OpenSlot \in Nat /\ EodSlot \in Nat /\ WindowSlots \subseteq Nat
    /\ \A w \in WindowSlots : OpenSlot < w /\ w < EodSlot

VARIABLES
    day,    \* candles closed so far, oldest first
    gen     \* ORHVSignalGenerator: its state for the symbol

dayVars == <<day, gen>>

Slots == OpenSlot .. EodSlot
Candle(slot, s) == [slot |-> slot, high |-> s[1], low |-> s[2], close |-> s[3]]

\* A captured range and a signal are told from none.
ASSUME NoCandleAssumption ==
    /\ None \notin [slot : Slots, high : Nat, low : Nat, close : Nat]
    /\ None \notin [side : {"LONG", "SHORT"}, entry : Nat, stop : Nat, slot : Slots]
-----------------------------------------------------------------------------
(* Shared readings of a candle list. *)

\* Least index above i whose candle satisfies P; 0 when there is none.
FirstAfter(d, i, P(_)) ==
    LET hits == {j \in (i + 1) .. Len(d) : P(d[j])}
    IN  IF hits = {} THEN 0 ELSE CHOOSE j \in hits : \A k \in hits : j <= k

InEntryWindow(c) == c.slot \in WindowSlots
IsEodCandle(c) == c.slot >= EodSlot

\* The opening range is too wide, relative to its close.
RangeRejected(first) ==
    (first.high - first.low) * 100 > MaxOrbRangePct * first.close

(***************************************************************************)
(* Phase 1.  CH1 is the first candle above the opening range, CL1 the      *)
(* first below it; a later candle must trade beyond each.                  *)
(***************************************************************************)
Rejected == [ch1 |-> 0, cl1 |-> 0, condA |-> 0, condB |-> 0,
             is_candidate |-> FALSE]

detect(d) ==
    IF Len(d) < 2 \/ d[1].high < d[1].low THEN Rejected
    ELSE LET ch1 == FirstAfter(d, 1, LAMBDA c : c.high > d[1].high)
             cl1 == FirstAfter(d, 1, LAMBDA c : c.low < d[1].low)
             condA == IF ch1 = 0 THEN 0
                      ELSE FirstAfter(d, ch1, LAMBDA c : c.high > d[ch1].high)
             condB == IF cl1 = 0 THEN 0
                      ELSE FirstAfter(d, cl1, LAMBDA c : c.low < d[cl1].low)
         IN  [ch1 |-> ch1, cl1 |-> cl1, condA |-> condA, condB |-> condB,
              is_candidate |-> condA # 0 /\ condB # 0]

(***************************************************************************)
(* Fills.  Entry slips against the trade, so does a stop; the exit at the  *)
(* close of a candle does not.                                             *)
(***************************************************************************)
ApplySlippageEntry(price, side) ==
    price * PriceScale + (IF side = "LONG" THEN 1 ELSE -1) * SlippageTicks * price

ApplySlippageExit(price, side) ==
    price * PriceScale + (IF side = "LONG" THEN -1 ELSE 1) * SlippageTicks * price

Quantity(entry) ==
    IF CapitalPerTrade \div entry < 1 THEN 1 ELSE CapitalPerTrade \div entry

NetPnl(side, entry, exit) ==
    (IF side = "LONG" THEN exit - entry ELSE entry - exit) * Quantity(entry)
        - 2 * Brokerage

NoTrade(reason) ==
    [reason |-> reason, side |-> "NONE", entry |-> 0, exit |-> 0,
     closed |-> FALSE, pnl |-> 0]

\* Mutant: the loop does not break at the candle that closes the trade.
ManageWithoutBreak(d, i, side, stop) ==
    LET Stops(c) == IF side = "LONG" THEN c.low <= stop ELSE c.high >= stop
        hits == {k \in (i + 1) .. Len(d) : Stops(d[k]) \/ IsEodCandle(d[k])}
        j == IF hits = {} THEN 0 ELSE CHOOSE k \in hits : \A l \in hits : l <= k
        entry == ApplySlippageEntry(
                     IF side = "LONG" THEN d[1].high ELSE d[1].low, side)
        exit == IF j # 0 /\ Stops(d[j]) THEN ApplySlippageExit(stop, side)
                ELSE d[Len(d)].close * PriceScale
    IN  [reason |-> IF j # 0 /\ Stops(d[j]) THEN "SL_HIT" ELSE "EOD_EXIT",
         side |-> side, entry |-> i, exit |-> IF j = 0 THEN Len(d) ELSE j,
         closed |-> j # 0, pnl |-> NetPnl(side, entry, exit)]

\* From the candle after the entry on: the stop is looked at before the
\* end-of-day candle; with neither, the last close known so far.
Manage(d, i, side, stop) ==
    LET Stops(c) == IF side = "LONG" THEN c.low <= stop ELSE c.high >= stop
        j == FirstAfter(d, i, LAMBDA c : Stops(c) \/ IsEodCandle(c))
        entry == ApplySlippageEntry(
                     IF side = "LONG" THEN d[1].high ELSE d[1].low, side)
        sl == j # 0 /\ Stops(d[j])
        exit == CASE sl -> ApplySlippageExit(stop, side)
                  [] ~sl /\ j # 0 -> d[j].close * PriceScale
                  [] j = 0 -> d[Len(d)].close * PriceScale
    IN  [reason |-> IF sl THEN "SL_HIT" ELSE "EOD_EXIT", side |-> side,
         entry |-> i, exit |-> IF j = 0 THEN Len(d) ELSE j,
         closed |-> j # 0, pnl |-> NetPnl(side, entry, exit)]

\* Touch-based: the first candle of the entry window that trades through
\* the opening range; LONG when it straddles both ends.
Breakout(d) ==
    FirstAfter(d, 1, LAMBDA c : /\ InEntryWindow(c)
                                /\ \/ c.high > d[1].high
                                   \/ c.low < d[1].low)
BreakoutSide(d, i) == IF d[i].high > d[1].high THEN "LONG" ELSE "SHORT"
StopOf(d, side) == IF side = "LONG" THEN d[1].low ELSE d[1].high

\* ORHVHistoricalValidator._simulate_phase3.
simulate_phase3(d) ==
    IF Len(d) < 2 \/ d[1].close <= 0 THEN NoTrade("NO_DATA")
    ELSE IF RangeRejected(d[1]) THEN NoTrade("RANGE_FILTER")
    ELSE LET i == Breakout(d)
         IN  IF i = 0 THEN NoTrade("NO_BREAKOUT")
             ELSE Manage(d, i, BreakoutSide(d, i), StopOf(d, BreakoutSide(d, i)))

\* ORHVBacktestEngine._simulate_phase3_trade: every way not to trade is
\* reported as NO_BREAKOUT.
simulate_phase3_trade(d) ==
    IF \/ Len(d) < 2
       \/ d[1].close <= 0
       \/ RangeRejected(d[1])
       \/ Breakout(d) = 0
    THEN NoTrade("NO_BREAKOUT")
    ELSE Manage(d, Breakout(d), BreakoutSide(d, Breakout(d)),
                StopOf(d, BreakoutSide(d, Breakout(d))))

\* TradeSimulator.simulate, for a setup on this day's opening range with no
\* stop buffer: the side is given and the breakout must close beyond it.
TradeSimulator_simulate(d, side) ==
    IF Len(d) < 2 THEN NoTrade("NO_BREAKOUT")
    ELSE LET i == FirstAfter(d, 1,
                     LAMBDA c : /\ InEntryWindow(c)
                                /\ IF side = "LONG" THEN c.close > d[1].high
                                                    ELSE c.close < d[1].low)
         IN  IF i = 0 THEN NoTrade("NO_BREAKOUT")
             ELSE Manage(d, i, side, StopOf(d, side))
-----------------------------------------------------------------------------
(* The live signal generator. *)

Untracked == [active |-> FALSE, tracked |-> FALSE, first |-> None,
              range_rejected |-> FALSE, trade_locked |-> FALSE,
              signal |-> None]

DayInit == day = << >> /\ gen = Untracked

Activate(candidates) ==
    gen' = [Untracked EXCEPT !.active = TRUE, !.tracked = candidates]

\* activate(trading_date, candidates): resets the symbol's state, whenever it
\* is called; the symbol may not be among the candidates.
activate ==
    /\ \E listed \in BOOLEAN : Activate(listed)
    /\ UNCHANGED day

\* add_candidate: a no-op unless active and not yet tracked.
add_candidate ==
    /\ gen.active /\ ~gen.tracked
    /\ gen' = [gen EXCEPT !.tracked = TRUE]
    /\ UNCHANGED day

\* lock_symbol: no further signal today.
lock_symbol ==
    /\ gen.tracked /\ ~gen.trade_locked
    /\ gen' = [gen EXCEPT !.trade_locked = TRUE]
    /\ UNCHANGED day

deactivate ==
    /\ gen.active
    /\ gen' = [gen EXCEPT !.active = FALSE]
    /\ UNCHANGED day

\* Mutant: the breakout must close beyond the range.
on_candle_close(g, c) ==
    IF \/ ~g.active \/ ~g.tracked
       \/ g.first = None /\ c.slot # OpenSlot
    THEN g
    ELSE IF g.first = None
    THEN [g EXCEPT !.first = c, !.range_rejected = c.close > 0 /\ RangeRejected(c)]
    ELSE IF \/ g.trade_locked \/ g.range_rejected \/ ~InEntryWindow(c)
            \/ c.close <= g.first.high /\ c.close >= g.first.low
    THEN g
    ELSE LET buy == c.close > g.first.high
         IN  [g EXCEPT !.trade_locked = TRUE,
                       !.signal = [side |-> IF buy THEN "LONG" ELSE "SHORT",
                                   entry |-> IF buy THEN g.first.high ELSE g.first.low,
                                   stop |-> IF buy THEN g.first.low ELSE g.first.high,
                                   slot |-> c.slot]]

\* on_candle: what the generator's state becomes after candle c.
on_candle(g, c) ==
    IF ~g.active \/ ~g.tracked THEN g
    ELSE IF g.first = None
    THEN IF c.slot = OpenSlot
         THEN [g EXCEPT !.first = c,
                        !.range_rejected = c.close > 0 /\ RangeRejected(c)]
         ELSE g
    ELSE IF \/ g.trade_locked \/ g.range_rejected
            \/ ~InEntryWindow(c)
            \/ c.high <= g.first.high /\ c.low >= g.first.low
    THEN g
    ELSE LET buy == c.high > g.first.high
         IN  [g EXCEPT !.trade_locked = TRUE,
                       !.signal = [side |-> IF buy THEN "LONG" ELSE "SHORT",
                                   entry |-> IF buy THEN g.first.high ELSE g.first.low,
                                   stop |-> IF buy THEN g.first.low ELSE g.first.high,
                                   slot |-> c.slot]]

\* The feed closes the next candle of the day; slots without trades are
\* missing from the list.
CandleClosed ==
    \E slot \in Slots, s \in Shapes :
        /\ day # << >> => slot > day[Len(day)].slot
        /\ day' = Append(day, Candle(slot, s))
        /\ gen' = on_candle(gen, Candle(slot, s))

DayNext == activate \/ add_candidate \/ lock_symbol \/ deactivate \/ CandleClosed

DaySpec == DayInit /\ [][DayNext]_dayVars

-----------------------------------------------------------------------------
(* Properties. *)

\* The validator's replay, the backtest engine's replay and the live
\* generator take the same trade from the same candles: same breakout
\* candle, side, entry level and stop, whichever later candles are missing
\* and however early one looks, provided the opening candle arrived while
\* the generator was active (it captures the range then and only then) and
\* the symbol was not locked by hand.  Without the opening candle, against
\* detector.py:115, the two replays take the first candle there is for it
\* and still agree; the generator waits for it.  The close-based
\* TradeSimulator never enters before the touch-based replay.
ReplaysAgree ==
    LET v == simulate_phase3(day)
        b == simulate_phase3_trade(day)
        Seen == /\ gen.active /\ gen.first # None
                /\ gen.trade_locked => gen.signal # None
    IN  /\ v.entry = b.entry /\ v.side = b.side /\ v.pnl = b.pnl
        /\ Seen => gen.signal =
               IF v.entry = 0 THEN None
               ELSE [side |-> v.side, slot |-> day[v.entry].slot,
                     entry |-> StopOf(day, IF v.side = "LONG" THEN "SHORT" ELSE "LONG"),
                     stop |-> StopOf(day, v.side)]
        /\ \A side \in {"LONG", "SHORT"} :
               LET i == TradeSimulator_simulate(day, side).entry
               IN  i # 0 /\ ~RangeRejected(day[1]) => v.entry \in 2 .. i

\* No verdict looks ahead: a day that is a candidate stays the same
\* candidate, and a trade closed by its stop or by the end-of-day candle
\* keeps its entry, exit and result, whatever candles follow.
VerdictIsFinal ==
    [][/\ detect(day).is_candidate => detect(day') = detect(day)
       /\ simulate_phase3(day).closed
              => simulate_phase3(day') = simulate_phase3(day)
       /\ \A side \in {"LONG", "SHORT"} :
              TradeSimulator_simulate(day, side).closed
                 => TradeSimulator_simulate(day', side)
                        = TradeSimulator_simulate(day, side)]_dayVars
=============================================================================
