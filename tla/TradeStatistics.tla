--------------------------- MODULE TradeStatistics ---------------------------
(***************************************************************************)
(* The statistics computed from the trades of a backtest: the metrics      *)
(* engine, the analytics helpers, the research breakdowns (per stock, per  *)
(* entry time, per market condition, per failure), the backtest analytics  *)
(* service, and the Monte Carlo simulator that replays the trades in       *)
(* random orders.                                                          *)
(*                                                                         *)
(* A backtest appends its trades in order of their day; within a day the   *)
(* order is that of the symbols, not of the entry times.  Each statistic   *)
(* is an operator on that list.  Times are minutes of the UTC day, as the  *)
(* code compares them; ranges and probabilities are in hundredths.         *)
(***************************************************************************)
EXTENDS Integers, Sequences, FiniteSets, FiniteSetsExt, SequencesExt, Optional, Lists

CONSTANTS
    TradeKinds,       \* [sym, side, entry, exit, reason, pnl, orb, prob]
    MaxTrades, LastTradeDay, DaysPerMonth,
    MaxSimulated,     \* most trades a simulation is explored for
    FromDay,          \* first day of the backtest
    StartingCapital, SimulationCount,
    RuinThresholds,   \* percentages of the starting capital
    MinTradesForRanking, MinBucketEntries, MinTradesForClassify

\* A day without a breakout nets nothing; an entry lies in the entry window,
\* which opens at 09:30 (240 UTC); the last stop is at the square-off (585);
\* no opening range is as wide as 999 percent.
ASSUME TradeKindsAssumption ==
    \A k \in TradeKinds :
        /\ k.pnl \in Int /\ k.entry \in Int /\ k.exit \in Int /\ k.prob \in Int
        /\ k.orb \in Nat /\ k.orb < 99900 /\ k.side \in {"LONG", "SHORT"}
        /\ k.reason = "NO_BREAKOUT" => k.pnl = 0
        /\ k.reason # "NO_BREAKOUT" => k.entry >= 240
        /\ k.reason = "SL_HIT" => 240 <= k.exit /\ k.exit <= 585

ASSUME StatisticsAssumption ==
    /\ FromDay \in Int /\ LastTradeDay \in Int /\ DaysPerMonth \in Nat \ {0}
    /\ StartingCapital \in Nat \ {0} /\ SimulationCount \in Nat \ {0}
    /\ RuinThresholds \subseteq 1 .. 100

VARIABLES
    trades,    \* the backtest's trades so far
    mc         \* the Monte Carlo run over them

statVars == <<trades, mc>>

Executed(ts) == Filtered(ts, LAMBDA t : t.reason # "NO_BREAKOUT")
OfSymbol(ts, sym) == Filtered(ts, LAMBDA t : t.sym = sym)
PnlsOf(ts) == [i \in DOMAIN ts |-> ts[i].pnl]
ValuesOf(s) == {s[i] : i \in DOMAIN s}
SumOver(f, S) == MapThenSumSet(LAMBDA x : f[x], S)
Total(s) == SumOver(s, DOMAIN s)
Level(s, i) == SumOver(s, 1 .. i)    \* the running total

\* The counts every report starts from, over the trades at the positions S;
\* a trade at exactly zero is a loss.
Tally(ts, S) ==
    LET wins == {i \in S : ts[i].pnl > 0}
    IN  [total |-> Cardinality(S), wins |-> Cardinality(wins),
         losses |-> Cardinality(S) - Cardinality(wins),
         sl_hits |-> Cardinality({i \in S : ts[i].reason = "SL_HIT"}),
         pnl |-> SumOver(PnlsOf(ts), S)]

\* The positions in S whose trade falls under label k of a breakdown.
Bucket(ts, S, Key(_), k) == {i \in S : Key(ts[i]) = k}
Breakdown(ts, Key(_)) ==
    [k \in {Key(ts[i]) : i \in DOMAIN ts} |-> Tally(ts, Bucket(ts, DOMAIN ts, Key, k))]

TotalIn(breakdown, field) ==
    SumOver([k \in DOMAIN breakdown |-> breakdown[k][field]], DOMAIN breakdown)
-----------------------------------------------------------------------------
(* MetricsEngine. *)

\* Mutant: keeps the last drawdown instead of the deepest.
DrawdownStepLast(s, p) ==
    LET peak == Max({s.peak, s.equity + p})
    IN  [equity |-> s.equity + p, peak |-> peak, dd |-> peak - s.equity - p,
         dd_peak |-> peak]

\* Running equity from zero; the percentage is taken of the peak in force
\* when the deepest drawdown was met (dd_peak).
DrawdownStep(s, p) ==
    LET equity == s.equity + p
        peak == Max({s.peak, equity})
    IN  [equity |-> equity, peak |-> peak,
         dd |-> Max({s.dd, peak - equity}),
         dd_peak |-> IF peak - equity > s.dd THEN peak ELSE s.dd_peak]

compute_max_drawdown(pnls) ==
    FoldLeft(DrawdownStep, [equity |-> 0, peak |-> 0, dd |-> 0, dd_peak |-> 0], pnls)

StreakStep(s, t) ==
    LET w == IF t.pnl > 0 THEN s.w + 1 ELSE 0
        l == IF t.pnl > 0 THEN 0 ELSE s.l + 1
    IN  [w |-> w, l |-> l, wins |-> Max({s.wins, w}), losses |-> Max({s.losses, l})]

compute_consecutive(ts) ==
    FoldLeft(StreakStep, [w |-> 0, l |-> 0, wins |-> 0, losses |-> 0], ts)

compute_per_symbol(ts) == Breakdown(ts, LAMBDA t : t.sym)

MonthOfTrade(t) == t.day \div DaysPerMonth
compute_time_breakdowns(ts) ==
    [daily |-> Breakdown(ts, LAMBDA t : t.day),
     monthly |-> Breakdown(ts, MonthOfTrade)]

\* The sign of the Sharpe ratio of a list of daily results; None without two
\* days or without variation (capital per trade is constant).
SharpeSign(daily) ==
    LET sum == Total(daily)
    IN  IF Len(daily) < 2 \/ Cardinality(ValuesOf(daily)) < 2 THEN None
        ELSE IF sum > 0 THEN 1 ELSE IF sum < 0 THEN -1 ELSE 0

DailySeries(ts) ==
    LET days == {ts[i].day : i \in DOMAIN ts}
        order == SortedBy(days, [d \in days |-> d])
    IN  [i \in DOMAIN order |->
            SumOver(PnlsOf(ts), Bucket(ts, DOMAIN ts, LAMBDA t : t.day, order[i]))]

compute_sharpe(ts) == IF Len(ts) < 2 THEN None ELSE SharpeSign(DailySeries(ts))

calculate(all) ==
    LET ts == Executed(all)
    IN  [tally |-> Tally(ts, DOMAIN ts), no_entry_days |-> Len(all) - Len(ts),
         drawdown |-> compute_max_drawdown(PnlsOf(ts)),
         sharpe |-> compute_sharpe(ts),
         streaks |-> compute_consecutive(ts),
         per_symbol |-> compute_per_symbol(ts),
         time |-> compute_time_breakdowns(ts)]
-----------------------------------------------------------------------------
(* analytics/math_helpers. *)

daily_pnl_series(ts) == DailySeries(ts)
cumulative_pnl_series(daily) ==
    [i \in DOMAIN daily |-> Level(daily, i)]

\* The peak starts at the first value of the series, not at zero.
FallStep(s, c) ==
    LET peak == Max({s.peak, c})
    IN  [peak |-> peak, dd |-> Max({s.dd, peak - c})]

max_drawdown(cumulative) ==
    IF cumulative = << >> THEN 0
    ELSE FoldLeft(FallStep, [peak |-> cumulative[1], dd |-> 0], cumulative).dd

sharpe_ratio(daily) == IF SharpeSign(daily) = None THEN 0 ELSE SharpeSign(daily)

\* Every window of the series gets its Sharpe ratio at its last day.
rolling_sharpe(daily, window) ==
    [i \in window .. Len(daily) |->
        sharpe_ratio(SubSeq(daily, i - window + 1, i))]

avg_win_avg_loss(pnls) ==
    LET wins == {i \in DOMAIN pnls : pnls[i] > 0}
        losses == {i \in DOMAIN pnls : pnls[i] <= 0}
    IN  [win |-> <<SumOver(pnls, wins), Cardinality(wins)>>,
         loss |-> <<SumOver(pnls, losses), Cardinality(losses)>>]
-----------------------------------------------------------------------------
(* Research breakdowns. *)

TimeBuckets == <<<<240, 269>>, <<270, 299>>, <<300, 329>>, <<330, 359>>, <<360, 389>>>>
SlBuckets == <<<<240, 269>>, <<270, 299>>, <<300, 329>>, <<330, 359>>, <<360, 585>>>>

InBucket(b, minute) == b[1] <= minute /\ minute <= b[2]

\* First bucket that holds the minute; 0 when none does.
BucketOf(buckets, minute) ==
    LET hits == {i \in DOMAIN buckets : InBucket(buckets[i], minute)}
    IN  IF hits = {} THEN 0 ELSE Min(hits)

EntryBucket(t) == BucketOf(TimeBuckets, t.entry)
compute_bucket_stats(ts, i) == Tally(ts, Bucket(ts, DOMAIN ts, EntryBucket, i))

\* a/b against c/d without division.
RateLess(a, b, c, d) == a * d < c * b
BestRate(S, stats(_)) ==
    CHOOSE i \in S : \A j \in S :
        \/ RateLess(stats(j).wins, stats(j).total, stats(i).wins, stats(i).total)
        \/ /\ ~RateLess(stats(i).wins, stats(i).total, stats(j).wins, stats(j).total)
           /\ i <= j

TimeAnalytics(all) ==
    LET ts == Executed(all)
        stats == [i \in DOMAIN TimeBuckets |-> compute_bucket_stats(ts, i)]
        populated == {i \in DOMAIN stats : stats[i].total >= MinBucketEntries}
    IN  [buckets |-> stats, unclassified |-> Cardinality(Bucket(ts, DOMAIN ts, EntryBucket, 0)),
         best_bucket |-> IF populated = {} THEN None
                         ELSE BestRate(populated, LAMBDA i : stats[i])]

analyse_sl_timing(ts, sl) ==
    [i \in DOMAIN SlBuckets |->
        Tally(ts, Bucket(ts, sl, LAMBDA t : BucketOf(SlBuckets, t.exit), i))]

\* Every stop-loss exit is reported as a fake breakout and again as an
\* opposite-side violation.
detect_fake_breakouts(ts) == {i \in DOMAIN ts : ts[i].reason = "SL_HIT"}
count_opposite_side_violations(ts) == Tally(ts, DOMAIN ts).sl_hits

find_sl_cluster_days(ts, sl) ==
    LET hits == [d \in {ts[i].day : i \in sl} |->
                    Cardinality(Bucket(ts, sl, LAMBDA t : t.day, d))]
    IN  [days |-> {d \in DOMAIN hits : hits[d] >= 3},
         max_hits |-> Max({0} \union {hits[d] : d \in DOMAIN hits})]

\* Date of a stored trade: one without an entry gets the first backtest day.
TradingDate(t) == IF t.reason = "NO_BREAKOUT" THEN FromDay ELSE t.day

analyse_choppy_days(all) ==
    {d \in {TradingDate(all[i]) : i \in DOMAIN all} :
        LET day == Bucket(all, DOMAIN all, TradingDate, d)
            idle == {i \in day : all[i].reason = "NO_BREAKOUT"}
        IN  Cardinality(day) >= 3 /\ Cardinality(idle) * 100 > 60 * Cardinality(day)}

identify_high_risk_symbols(ts) ==
    LET by == compute_per_symbol(ts)
    IN  {s \in DOMAIN by : /\ by[s].total >= MinTradesForRanking
                           /\ by[s].sl_hits * 100 >= 55 * by[s].total}

Entered(all, S) == {i \in S : all[i].reason # "NO_BREAKOUT"}

classify_day(all, day) ==
    LET t == Tally(all, Entered(all, day))
        total == Cardinality(day)
        longs == Cardinality({i \in day : all[i].side = "LONG"})
    IN  CASE t.total < MinTradesForClassify -> "low_activity"
          [] t.total >= MinTradesForClassify /\ longs * 100 >= 70 * total -> "gap_up"
          [] t.total >= MinTradesForClassify /\ (total - longs) * 100 >= 70 * total
               -> "gap_down"
          [] OTHER -> IF t.sl_hits * 100 >= 55 * t.total THEN "volatile"
                      ELSE IF t.wins * 100 <= 35 * t.total THEN "choppy"
                      ELSE IF t.wins * 100 >= 65 * t.total THEN "trending"
                      ELSE "normal"

aggregate_condition(all, S) == Tally(all, Entered(all, S))

\* Days grouped by their character, and the executed trades of each group.
MarketConditions(all) ==
    LET Condition(t) ==
            classify_day(all, Bucket(all, DOMAIN all, TradingDate, TradingDate(t)))
    IN  [c \in {Condition(all[i]) : i \in DOMAIN all} |->
            aggregate_condition(all, Bucket(all, DOMAIN all, Condition, c))]

\* Per-symbol analytics, with the stock module's own drawdown.
StockStep(s, p) ==
    LET equity == s.equity + p
        peak == Max({s.peak, equity})
    IN  [equity |-> equity, peak |-> peak, dd |-> Max({s.dd, peak - equity})]

stock_compute_max_drawdown(pnls) ==
    FoldLeft(StockStep, [equity |-> 0, peak |-> 0, dd |-> 0], pnls).dd

best_time_bucket(ts) ==
    LET Stats(i) == compute_bucket_stats(ts, i)
        twice == {i \in DOMAIN TimeBuckets : Stats(i).total >= 2}
    IN  IF twice = {} THEN None ELSE BestRate(twice, Stats)

analyse_symbol(all, sym) ==
    LET mine == OfSymbol(all, sym)
        ts == Executed(mine)
    IN  [tally |-> Tally(ts, DOMAIN ts), no_entry_days |-> Len(mine) - Len(ts),
         max_drawdown |-> stock_compute_max_drawdown(PnlsOf(ts)),
         best_time |-> best_time_bucket(ts)]
-----------------------------------------------------------------------------
(* BacktestAnalyticsService. *)

OrbBuckets == <<<<0, 30>>, <<30, 50>>, <<50, 75>>, <<75, 100>>, <<100, 99900>>>>
OrbBucket(t) ==
    CHOOSE i \in DOMAIN OrbBuckets :
        OrbBuckets[i][1] <= t.orb /\ t.orb < OrbBuckets[i][2]

Thresholds == {60, 65, 70, 75, 80}

analyse_entry_times(ts) == Breakdown(ts, LAMBDA t : t.entry)
analyse_direction_split(ts) ==
    [s \in {"LONG", "SHORT"} |->
        Tally(ts, Bucket(ts, DOMAIN ts, LAMBDA t : t.side, s))]
build_monthly_heatmap(ts) == Breakdown(ts, LAMBDA t : <<MonthOfTrade(t), t.sym>>)
analyse_orb_range(ts) == Breakdown(ts, OrbBucket)
analyse_probability_sensitivity(ts) ==
    [p \in Thresholds |-> Tally(ts, {i \in DOMAIN ts : ts[i].prob >= p})]
-----------------------------------------------------------------------------
(* Monte Carlo. *)

SimStep(s, p) ==
    LET equity == s.equity + p
        streak == IF p < 0 THEN s.streak + 1 ELSE 0
        dd == IF equity > s.peak THEN 0 ELSE s.peak - equity
    IN  [equity |-> equity, peak |-> Max({s.peak, equity}),
         min_equity |-> Min({s.min_equity, equity}),
         dd |-> Max({s.dd, dd}),
         streak |-> streak, losses |-> Max({s.losses, streak})]

simulate_one(pnls, capital) ==
    FoldLeft(SimStep, [equity |-> capital, peak |-> capital, min_equity |-> capital,
                       dd |-> 0, streak |-> 0, losses |-> 0], pnls)

\* 100 times the linearly interpolated p-th percentile.
percentile(data, p) ==
    LET order == SortedBy(DOMAIN data, data)
        sorted == [i \in DOMAIN order |-> data[order[i]]]
        low == (p * (Len(data) - 1)) \div 100
        frac == (p * (Len(data) - 1)) % 100
        high == Min({low + 1, Len(data) - 1})
    IN  sorted[low + 1] * (100 - frac) + sorted[high + 1] * frac

aggregate_runs(runs) ==
    LET dds == [i \in DOMAIN runs |-> runs[i].dd]
        p95 == percentile(dds, 95)
    IN  [ruin |-> [th \in RuinThresholds |->
                     Cardinality({i \in DOMAIN runs :
                        runs[i].min_equity * 100 <= StartingCapital * th})],
         p95 |-> p95,    \* hundredths
         drawdown_percentiles |-> [p \in {10, 25, 50, 75, 90, 95, 99} |->
                                      percentile(dds, p)],
         max_drawdown |-> Max(ValuesOf(dds))]

\* The requirement at a threshold is the p95 drawdown divided by it.
current_capital_sufficient(summary, th) == StartingCapital * th >= summary.p95
-----------------------------------------------------------------------------
(* The backtest and the simulation over its executed trades. *)

NoSimulation == [method |-> None, path |-> << >>, runs |-> << >>]

StatInit == trades = << >> /\ mc = NoSimulation

RecordTrade ==
    /\ mc.method = None
    /\ Len(trades) < MaxTrades
    /\ \E k \in TradeKinds, d \in FromDay .. LastTradeDay :
          /\ IF trades = << >> THEN TRUE ELSE trades[Len(trades)].day <= d
          /\ trades' = Append(trades,
                 [sym |-> k.sym, side |-> k.side, day |-> d, entry |-> k.entry,
                  exit |-> k.exit, reason |-> k.reason, pnl |-> k.pnl,
                  orb |-> k.orb, prob |-> k.prob])
    /\ UNCHANGED mc

\* A simulation needs at least one executed trade.
StartMonteCarlo ==
    /\ mc.method = None
    /\ Executed(trades) # << >>
    /\ Len(trades) <= MaxSimulated
    /\ \E method \in {"RANDOM_SHUFFLE", "BOOTSTRAP"} :
          mc' = [mc EXCEPT !.method = method]
    /\ UNCHANGED trades

\* TradeSampler.sample, draw by draw: a shuffle uses every trade once, a
\* bootstrap (or "replacement") draws any trade again.
Draw ==
    LET pool == PnlsOf(Executed(trades))
    IN  /\ mc.method # None
        /\ Len(mc.runs) < SimulationCount
        /\ Len(mc.path) < Len(pool)
        /\ \E i \in DOMAIN pool :
              /\ mc.method = "RANDOM_SHUFFLE" => i \notin ValuesOf(mc.path)
              /\ mc' = [mc EXCEPT !.path = Append(@, i)]
        /\ UNCHANGED trades

Path == [i \in DOMAIN mc.path |-> PnlsOf(Executed(trades))[mc.path[i]]]

SimulateOne ==
    /\ mc.method # None
    /\ Len(mc.path) = Len(Executed(trades))
    /\ Len(mc.runs) < SimulationCount
    /\ mc' = [mc EXCEPT !.runs = Append(@, simulate_one(Path, StartingCapital)),
                        !.path = << >>]
    /\ UNCHANGED trades

StatNext == RecordTrade \/ StartMonteCarlo \/ Draw \/ SimulateOne

StatSpec == StatInit /\ [][StatNext]_statVars
-----------------------------------------------------------------------------
(* Properties. *)

\* Deepest fall of the running total from an earlier (or the zero) level.
DeepestFall(pnls) ==
    Max(UNION {{Level(pnls, i) - Level(pnls, j) : j \in i .. Len(pnls)} :
                   i \in 0 .. Len(pnls)})

\* The drawdowns and streaks computed in different places agree: metrics,
\* per-stock analytics and the simulator on the backtest's own order all
\* report the deepest fall of the running total; the analytics helper works
\* on daily totals and never reports more; the losing streaks of simulator
\* and metrics are equal when no trade nets zero; the two Sharpe ratios have
\* the same sign.  Of a zero result nothing is promised: it ends the
\* simulator's streak, although simulator.py:244 says that it counts as a loss.
RiskNumbersAgree ==
    LET ts == Executed(trades)
        m == calculate(trades)
        sim == simulate_one(PnlsOf(ts), StartingCapital)
        daily == daily_pnl_series(ts)
        cumulative == cumulative_pnl_series(daily)
    IN  /\ m.drawdown.dd = DeepestFall(PnlsOf(ts))
        /\ m.drawdown.dd = sim.dd
        /\ m.drawdown.dd <= m.drawdown.dd_peak \/ sim.min_equity < StartingCapital
        /\ \A s \in DOMAIN m.per_symbol :
               analyse_symbol(trades, s).max_drawdown
                   = DeepestFall(PnlsOf(OfSymbol(ts, s)))
        /\ max_drawdown(cumulative) <= m.drawdown.dd
        /\ (\A i \in DOMAIN ts : ts[i].pnl # 0) => sim.losses = m.streaks.losses
        /\ sharpe_ratio(daily) = (IF m.sharpe = None THEN 0 ELSE m.sharpe)
        /\ rolling_sharpe(daily, 2) # << >> /\ Len(daily) = 2 =>
               rolling_sharpe(daily, 2)[2] = sharpe_ratio(daily)

\* The days on which more than 60 percent of at least three candidates never
\* broke out, by the day on which each was a candidate.
DaysWithoutBreakouts(all) ==
    {d \in {all[i].day : i \in DOMAIN all} :
        LET day == {i \in DOMAIN all : all[i].day = d}
            idle == {i \in day : all[i].reason = "NO_BREAKOUT"}
        IN  Cardinality(day) >= 3 /\ Cardinality(idle) * 100 > 60 * Cardinality(day)}

\* Every breakdown is a partition of the executed trades: the counts, wins,
\* stops and results of its parts add up to the totals of the run.  Entries
\* at 12:00 fall in no time bucket and are the "unclassified" remainder;
\* every stop-loss exit falls in exactly one timing slot.  The choppy days are
\* those failure_analytics.py:322-325 describes if the trades without an entry
\* are all of the first day; those of a later day are stored under the first
\* (backtest_service.py:367), whose rate they raise, and theirs is never seen.
BreakdownsAddUp ==
    LET ts == Executed(trades)
        m == calculate(trades)
        time == TimeAnalytics(trades)
        sl == detect_fake_breakouts(ts)
        averages == avg_win_avg_loss(PnlsOf(ts))
        AddsUp(b) == \A f \in DOMAIN m.tally : TotalIn(b, f) = m.tally[f]
    IN  /\ AddsUp(m.per_symbol) /\ AddsUp(m.time.daily) /\ AddsUp(m.time.monthly)
        /\ AddsUp(MarketConditions(trades)) /\ AddsUp(analyse_entry_times(ts))
        /\ AddsUp(analyse_direction_split(ts)) /\ AddsUp(analyse_orb_range(ts))
        /\ AddsUp(build_monthly_heatmap(ts))
        /\ TotalIn(time.buckets, "total") + time.unclassified = m.tally.total
        /\ time.unclassified = Cardinality({i \in DOMAIN ts : ts[i].entry > 389})
        /\ TotalIn(analyse_sl_timing(ts, sl), "total") = m.tally.sl_hits
        /\ count_opposite_side_violations(ts) = m.tally.sl_hits
        /\ find_sl_cluster_days(ts, sl).max_hits <= m.tally.sl_hits
        /\ identify_high_risk_symbols(ts) \subseteq DOMAIN m.per_symbol
        /\ (\A i \in DOMAIN trades : trades[i].reason = "NO_BREAKOUT" => trades[i].day = FromDay)
               => analyse_choppy_days(trades) = DaysWithoutBreakouts(trades)
        /\ averages.win[1] + averages.loss[1] = m.tally.pnl
        /\ averages.win[2] = m.tally.wins
        /\ \A p, q \in Thresholds : p <= q =>
               analyse_probability_sensitivity(ts)[q].total
                   <= analyse_probability_sensitivity(ts)[p].total

\* What the Monte Carlo summary promises of its simulated paths: a shuffle
\* ends where the backtest ended, a ruin at threshold t means a drawdown of
\* at least the rest of the capital, percentiles are ordered and below the
\* maximum, and below 50 percent a capital reported as sufficient survives
\* every path no worse than the p95 drawdown.
SimulationIsSound ==
    Len(mc.runs) = SimulationCount =>
        LET pnls == PnlsOf(Executed(trades))
            summary == aggregate_runs(mc.runs)
            dp == summary.drawdown_percentiles
        IN  /\ \A i \in DOMAIN mc.runs :
                   LET r == mc.runs[i]
                   IN  /\ mc.method = "RANDOM_SHUFFLE" =>
                              r.equity = StartingCapital + Total(pnls)
                       /\ StartingCapital - r.min_equity <= r.dd
                       /\ \A th \in RuinThresholds :
                              /\ r.min_equity * 100 <= StartingCapital * th =>
                                     r.dd * 100 >= StartingCapital * (100 - th)
                              /\ /\ th < 50 /\ r.dd * 100 <= summary.p95
                                 /\ current_capital_sufficient(summary, th)
                                 /\ summary.p95 > 0
                                 => r.min_equity * 100 > StartingCapital * th
            /\ \A p, q \in DOMAIN dp : p <= q => dp[p] <= dp[q]
            /\ dp[99] <= 100 * summary.max_drawdown

\* The statistics of one backtest are consistent with each other.  (The
\* first two depend on the trades alone, which no simulation changes.)
StatisticsAgree ==
    /\ mc = NoSimulation /\ trades # << >> => RiskNumbersAgree /\ BreakdownsAddUp
    /\ SimulationIsSound
=============================================================================
