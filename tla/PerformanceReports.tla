------------------------- MODULE PerformanceReports -------------------------
(***************************************************************************)
(* The reports over what the trading modes have recorded: attribution by   *)
(* strategy and by stock, the portfolio summary, capital efficiency, the   *)
(* strategy comparison (package analytics), and the validation reports on  *)
(* slippage, latency, the reality gap and the health score (package        *)
(* validation).                                                            *)
(*                                                                         *)
(* The books are the documents the other components store: signals, closed *)
(* paper trades, closed live positions, backtest runs with their trades,   *)
(* allocation decisions.  They grow one document at a time and every       *)
(* report is a function of the books and a date range.  Each analytics     *)
(* engine queries and groups the documents on its own, as in the code.     *)
(*                                                                         *)
(* A day is an integer; a document dated to a day carries its midnight     *)
(* (2*d), one stamped by the clock an instant of the session (2*d + 1).    *)
(***************************************************************************)
EXTENDS Integers, FiniteSets, FiniteSetsExt, Lists, Optional

CONSTANTS
    SignalTable,   \* signal id -> [strat, sym, day, price, latency]
    RunTable,      \* run id -> [strat, from, to, created, completed, trades]
    ReportDays, ReportPnls, Slips,
    BrokeragePerSide, TotalCapital, MaxDocuments,
    MinTrades      \* fewest trades for which a gap is computed

\* A signal has a positive price; a stored trade is dated inside its run.
ASSUME ReportAssumption ==
    /\ \A g \in DOMAIN SignalTable :
           /\ SignalTable[g].price \in Nat \ {0}
           /\ SignalTable[g].day \in Int /\ SignalTable[g].latency \in Int
    /\ \A r \in DOMAIN RunTable :
           LET trades == RunTable[r].trades
           IN  /\ RunTable[r].from \in Int /\ RunTable[r].to \in Int
               /\ RunTable[r].from <= RunTable[r].to
               /\ Len(trades) \in Nat /\ DOMAIN trades = 1 .. Len(trades)
               /\ \A i \in DOMAIN trades :
                      /\ trades[i].day \in RunTable[r].from .. RunTable[r].to
                      /\ trades[i].pnl \in Int /\ trades[i].capital \in Nat
    /\ ReportDays \subseteq Int /\ ReportPnls \subseteq Int /\ Slips \subseteq Nat
    /\ BrokeragePerSide \in Int /\ TotalCapital \in Int
    /\ MinTrades \in Nat /\ MaxDocuments \in Nat

VARIABLE books    \* [signals, paper, live, runs, allocations]

ReportInit ==
    books = [signals |-> {}, paper |-> {}, live |-> {}, runs |-> {},
             allocations |-> {}]

Documents ==
    Cardinality(books.signals) + Cardinality(books.paper)
        + Cardinality(books.live) + Cardinality(books.runs)
        + Cardinality(books.allocations)

\* SignalEngine, AllocationEngine, paper trading, live execution and the
\* backtest service store their documents.
StoreSignal ==
    \E g \in DOMAIN SignalTable \ books.signals :
        books' = [books EXCEPT !.signals = @ \union {g}]

StoreAllocation ==
    \E g \in books.signals, approved \in BOOLEAN :
        /\ \A a \in books.allocations : a.sig # g
        /\ books' = [books EXCEPT !.allocations = @ \union
                       {[sig |-> g, approved |-> approved,
                         capital |-> IF approved THEN SignalTable[g].price ELSE 0]}]

\* n tells two trades of one signal apart.
StorePaperTrade ==
    \E g \in books.signals, n \in 1 .. 2, pnl \in ReportPnls, slip \in Slips :
        /\ \A t \in books.paper : <<t.sig, t.n>> # <<g, n>>
        /\ books' = [books EXCEPT !.paper = @ \union
                       {[sig |-> g, n |-> n, pnl |-> pnl, slip |-> slip]}]

StoreLivePosition ==
    \E g \in books.signals, pnl \in ReportPnls :
        /\ \A p \in books.live : p.sig # g
        /\ books' = [books EXCEPT !.live = @ \union {[sig |-> g, pnl |-> pnl]}]

StoreBacktestRun ==
    \E r \in DOMAIN RunTable \ books.runs :
        books' = [books EXCEPT !.runs = @ \union {r}]

ReportNext ==
    /\ Documents < MaxDocuments
    /\ \/ StoreSignal \/ StoreAllocation \/ StorePaperTrade
       \/ StoreLivePosition \/ StoreBacktestRun

ReportSpec == ReportInit /\ [][ReportNext]_books

Signal(d) == SignalTable[d.sig]
Entry(t) == Signal(t).price + t.slip
-----------------------------------------------------------------------------
(* Repository queries. *)

Midnight(d) == 2 * d
During(d) == 2 * d + 1

\* Paper trades are selected by closed_at, which is inside a session, between
\* two midnights: the last day of the range is never included.
list_between(f, t) ==
    {p \in books.paper : /\ Midnight(f) <= During(Signal(p).day)
                         /\ During(Signal(p).day) <= Midnight(t)}

get_closed_between(f, t) ==
    {p \in books.live : f <= Signal(p).day /\ Signal(p).day <= t}

get_for_date_range(f, t) ==
    {a \in books.allocations : f <= Signal(a).day /\ Signal(a).day <= t}

\* Every run that touches the range contributes, finished or not.
RunsTouching(f, t) ==
    {r \in books.runs : ~(RunTable[r].to < f \/ RunTable[r].from > t)}

\* <<run, index>> of the stored trades dated inside the range.
RunTrades(f, t) ==
    UNION {{<<r, i>> : i \in {j \in DOMAIN RunTable[r].trades :
                                 /\ f <= RunTable[r].trades[j].day
                                 /\ RunTable[r].trades[j].day <= t}} :
               r \in RunsTouching(f, t)}
BtTrade(b) == RunTable[b[1]].trades[b[2]]

InMode(mode, m) == mode \in {m, "COMBINED"}
Modes == {"PAPER", "BACKTEST", "LIVE", "COMBINED"}

\* The sum of the values of a function.
SumValues(f) == MapThenSumSet(LAMBDA x : f[x], DOMAIN f)
-----------------------------------------------------------------------------
(* StrategyAttributionEngine. *)

\* A live position has no strategy of its own: all are filed under "live".
strategy_rows(mode, f, t) ==
    (IF InMode(mode, "PAPER")
     THEN {[id |-> <<"paper", p.sig, p.n>>, strat |-> Signal(p).strat,
            day |-> Signal(p).day, pnl |-> p.pnl,
            gross |-> p.pnl + 2 * BrokeragePerSide] : p \in list_between(f, t)}
     ELSE {}) \union
    (IF InMode(mode, "BACKTEST")
     THEN {[id |-> <<"bt", b[1], b[2]>>, strat |-> RunTable[b[1]].strat,
            day |-> BtTrade(b).day, pnl |-> BtTrade(b).pnl,
            gross |-> BtTrade(b).pnl] : b \in RunTrades(f, t)}
     ELSE {}) \union
    (IF InMode(mode, "LIVE")
     THEN {[id |-> <<"live", p.sig, 1>>, strat |-> "live", day |-> Signal(p).day,
            pnl |-> p.pnl, gross |-> p.pnl] : p \in get_closed_between(f, t)}
     ELSE {})

\* n / d to the nearest integer.  (An exact half, which the code rounds to
\* even, needs 128 trades.)
Rounded(n, d) == (2 * n + d) \div (2 * d)

\* The win rate in millionths.
build_performance(rows) ==
    [trades |-> Cardinality(rows),
     wins |-> Cardinality({r \in rows : r.pnl > 0}),
     losses |-> Cardinality({r \in rows : r.pnl <= 0}),
     win_rate |-> Rounded(1000000 * Cardinality({r \in rows : r.pnl > 0}),
                          Cardinality(rows)),
     net |-> SumValues([r \in rows |-> r.pnl]),
     gross |-> SumValues([r \in rows |-> r.gross]),
     daily |-> [d \in {r.day : r \in rows} |->
                   SumValues([r \in {q \in rows : q.day = d} |-> r.pnl])]]

strategy_compute(mode, f, t) ==
    LET rows == strategy_rows(mode, f, t)
    IN  [s \in {r.strat : r \in rows} |->
            build_performance({r \in rows : r.strat = s})]
-----------------------------------------------------------------------------
(* StockAttributionEngine. *)

stock_rows(mode, f, t) ==
    (IF InMode(mode, "PAPER")
     THEN {[id |-> <<"paper", p.sig, p.n>>, sym |-> Signal(p).sym,
            strat |-> Signal(p).strat, pnl |-> p.pnl] : p \in list_between(f, t)}
     ELSE {}) \union
    (IF InMode(mode, "BACKTEST")
     THEN {[id |-> <<"bt", b[1], b[2]>>, sym |-> BtTrade(b).sym,
            strat |-> RunTable[b[1]].strat, pnl |-> BtTrade(b).pnl] :
               b \in RunTrades(f, t)}
     ELSE {}) \union
    (IF InMode(mode, "LIVE")
     THEN {[id |-> <<"live", p.sig, 1>>, sym |-> Signal(p).sym, strat |-> "live",
            pnl |-> p.pnl] : p \in get_closed_between(f, t)}
     ELSE {})

stock_compute(mode, f, t) ==
    LET rows == stock_rows(mode, f, t)
        Of(y) == {r \in rows : r.sym = y}
    IN  [y \in {r.sym : r \in rows} |->
            [trades |-> Cardinality(Of(y)),
             wins |-> Cardinality({r \in Of(y) : r.pnl > 0}),
             net |-> SumValues([r \in Of(y) |-> r.pnl]),
             by_strategy |-> [s \in {r.strat : r \in Of(y)} |->
                 SumValues([r \in {q \in Of(y) : q.strat = s} |-> r.pnl])]]]
-----------------------------------------------------------------------------
(* PortfolioAnalyticsEngine, CapitalEfficiencyEngine, comparison. *)

SumField(report, field) == SumValues([k \in DOMAIN report |-> report[k][field]])

portfolio_compute(mode, f, t) ==
    LET perf == strategy_compute(mode, f, t)
        days == UNION {DOMAIN perf[s].daily : s \in DOMAIN perf}
    IN  [total |-> SumField(perf, "net"), trades |-> SumField(perf, "trades"),
         wins |-> SumField(perf, "wins"),
         merged_daily |-> [d \in days |->
             SumValues([s \in {q \in DOMAIN perf : d \in DOMAIN perf[q].daily} |->
                           perf[s].daily[d]])]]

efficiency_compute(mode, f, t) ==
    LET paper == IF InMode(mode, "PAPER") THEN list_between(f, t) ELSE {}
        bt == IF InMode(mode, "BACKTEST") THEN RunTrades(f, t) ELSE {}
        live == IF InMode(mode, "LIVE") THEN get_closed_between(f, t) ELSE {}
        allocations == get_for_date_range(f, t)
        approved == {a \in allocations : a.approved}
    IN  [signals |-> Cardinality(allocations), approved |-> Cardinality(approved),
         allocated |-> SumValues([a \in approved |-> a.capital]),
         idle |-> TotalCapital - SumValues([a \in approved |-> a.capital]),
         deployed |-> SumValues([p \in paper |-> Entry(p)])
                        + SumValues([b \in bt |-> BtTrade(b).capital])
                        + SumValues([p \in live |-> Signal(p).price]),
         net |-> SumValues([p \in paper |-> p.pnl])
                   + SumValues([b \in bt |-> BtTrade(b).pnl])
                   + SumValues([p \in live |-> p.pnl])]

\* _rank: 1 is the largest; equal values keep their order in the list.
RankSharingTies(values) ==
    [i \in DOMAIN values |-> 1 + Cardinality({j \in DOMAIN values : values[j] > values[i]})]
rank(values) ==
    [i \in DOMAIN values |->
        1 + Cardinality({j \in DOMAIN values :
                \/ values[j] > values[i]
                \/ values[j] = values[i] /\ j < i})]

\* The strategies best first, each with its place by profit and by win rate.
compare_strategies(mode, f, t) ==
    LET perf == strategy_compute(mode, f, t)
        names == SortedBy(DOMAIN perf, [s \in DOMAIN perf |-> -perf[s].net])
        pnls == [i \in DOMAIN names |-> perf[names[i]].net]
        rates == [i \in DOMAIN names |-> perf[names[i]].win_rate]
        First(values) ==
            IF names = << >> THEN None
            ELSE names[CHOOSE i \in DOMAIN names :
                           \A j \in DOMAIN names :
                               \/ values[j] < values[i]
                               \/ values[j] = values[i] /\ i <= j]
    IN  [rows |-> [i \in DOMAIN names |->
                     [strat |-> names[i], net_pnl |-> rank(pnls)[i],
                      win_rate |-> rank(rates)[i]]],
         best_by_pnl |-> First(pnls), best_by_win_rate |-> First(rates)]

\* A period without trades counts as zero.
compare_periods(mode, s, f1, t1, f2, t2) ==
    LET Net(f, t) == LET perf == strategy_compute(mode, f, t)
                     IN  IF s \in DOMAIN perf THEN perf[s].net ELSE 0
    IN  [a |-> Net(f1, t1), b |-> Net(f2, t2), improving |-> Net(f2, t2) > Net(f1, t1)]
-----------------------------------------------------------------------------
(* Validation reports. *)

\* SlippageAnalyzer: trades by opened_at, again an instant of the session
\* against two midnights.  Paper trades are filtered by strategy; live
\* positions are those of every strategy, and carry no recorded cost.
OpenedBetween(S, f, t) ==
    {p \in S : /\ Midnight(f) <= During(Signal(p).day)
               /\ During(Signal(p).day) <= Midnight(t)}

Bps(fill, expected) == (10000 * (fill - expected)) \div expected

slippage_samples(mode, strat, f, t) ==
    (IF InMode(mode, "PAPER")
     THEN {[id |-> <<"paper", p.sig, p.n>>, sym |-> Signal(p).sym,
            bps |-> Bps(Entry(p), Signal(p).price), cost |-> p.slip] :
              p \in {q \in OpenedBetween(books.paper, f, t) : Signal(q).strat = strat}}
     ELSE {}) \union
    (IF InMode(mode, "LIVE")
     THEN {[id |-> <<"live", p.sig, 1>>, sym |-> Signal(p).sym, bps |-> 0, cost |-> 0] :
              p \in OpenedBetween(books.live, f, t)}
     ELSE {})

slippage_aggregate(samples) ==
    LET Of(y) == {s \in samples : s.sym = y}
        Worst(S) == Max({0} \union {s.bps : s \in S})
    IN  [count |-> Cardinality(samples), cost |-> SumValues([s \in samples |-> s.cost]),
         worst |-> Worst(samples),
         by_symbol |-> [y \in {s.sym : s \in samples} |->
             [count |-> Cardinality(Of(y)), worst |-> Worst(Of(y)),
              cost |-> SumValues([s \in Of(y) |-> s.cost])]]]

\* LatencyTracker: nearest-rank percentile of a sorted list.
latency_percentile(sorted, pct) ==
    LET idx == (Len(sorted) * pct) \div 100
    IN  sorted[Min({idx, Len(sorted) - 1}) + 1]

signal_latencies ==
    LET latency == [g \in books.signals |-> Max({0, SignalTable[g].latency})]
        order == SortedBy(books.signals, latency)
    IN  [i \in DOMAIN order |-> latency[order[i]]]

\* RealityGapAnalyzer: the documents each mode's figures are taken from.
\* The newest finished run created in the window, not a run that covers it.
fetch_backtest_run(strat, f, t) ==
    LET found == {r \in books.runs : /\ RunTable[r].strat = strat
                                     /\ RunTable[r].completed
                                     /\ f <= RunTable[r].created
                                     /\ RunTable[r].created <= t}
    IN  IF found = {} THEN None
        ELSE CHOOSE r \in found : \A q \in found :
                 RunTable[q].created <= RunTable[r].created

fetch_paper_trades(strat, f, t) ==
    {p \in books.paper : /\ Signal(p).strat = strat
                         /\ f <= Signal(p).day /\ Signal(p).day <= t}

SignalsOf(strat, f, t) ==
    {g \in books.signals : /\ SignalTable[g].strat = strat
                           /\ f <= SignalTable[g].day /\ SignalTable[g].day <= t}

\* The strategy's positions; everybody's when it had no signal in the range.
fetch_live_positions(strat, f, t) ==
    LET mine == SignalsOf(strat, f, t)
        closed == get_closed_between(f, t)
    IN  IF mine = {} THEN closed ELSE {p \in closed : p.sig \in mine}

\* None with too few trades.  The rate and the average are kept as a
\* numerator over count.
ModeMetrics(rows) ==
    IF Cardinality(rows) < MinTrades THEN None
    ELSE [count |-> Cardinality(rows),
          wins |-> Cardinality({r \in rows : r.pnl > 0}),
          total |-> SumValues([r \in rows |-> r.pnl])]

\* Difference of two averages, over the product of the counts.
gap(actual, reference, field) ==
    IF actual = None \/ reference = None THEN None
    ELSE actual[field] * reference.count - reference[field] * actual.count

reality_gap(strat, f, t) ==
    LET run == fetch_backtest_run(strat, f, t)
        backtest == IF run = None THEN None
                    ELSE ModeMetrics({[id |-> i, pnl |-> RunTable[run].trades[i].pnl] :
                                         i \in DOMAIN RunTable[run].trades})
        paper == ModeMetrics(fetch_paper_trades(strat, f, t))
        live == ModeMetrics(fetch_live_positions(strat, f, t))
    IN  [backtest |-> backtest, paper |-> paper, live |-> live,
         paper_pnl_gap |-> gap(paper, backtest, "total"),
         live_pnl_gap |-> gap(live, backtest, "total"),
         live_vs_paper_pnl_gap |-> gap(live, paper, "total"),
         live_vs_paper_win_rate_gap |-> gap(live, paper, "wins")]

\* HealthScoreEngine; scores are whole percentages.
HealthInputs(strat, f, t) ==
    LET generated == SignalsOf(strat, f, t)
    IN  [generated |-> generated,
         trades |-> {p \in books.paper : p.sig \in generated}]

signal_quality(h) ==
    IF h.generated = {} THEN 0
    ELSE (Cardinality(h.trades) * 100) \div Cardinality(h.generated)

\* 10 000 * |fill - signal| / signal, averaged, against a ceiling of 50.
execution_quality(h) ==
    IF h.trades = {} THEN 50
    ELSE LET bps == SumValues([p \in h.trades |->
                                    (10000 * p.slip) \div Signal(p).price])
                        \div Cardinality(h.trades)
         IN  Max({0, 100 - 2 * bps})

pnl_stability(h) ==
    IF h.trades = {} THEN 50
    ELSE LET wins == {p \in h.trades : p.pnl > 0}
             profit == SumValues([p \in wins |-> p.pnl])
             loss == -SumValues([p \in {q \in h.trades : q.pnl < 0} |-> p.pnl])
             factor == IF loss = 0 THEN 200 ELSE Min({200, (100 * profit) \div loss})
         IN  Min({100, (60 * Cardinality(wins)) \div Cardinality(h.trades)
                          + (20 * factor) \div 100})

\* 100 * slippage / deployed, averaged, against a ceiling of 0.2 percent.
slippage_cost(h) ==
    IF h.trades = {} THEN 50
    ELSE LET cost == SumValues([p \in h.trades |-> (50000 * p.slip) \div Entry(p)])
                         \div Cardinality(h.trades)
         IN  Max({0, 100 - cost})

health_score(h) ==
    (signal_quality(h) + execution_quality(h) + pnl_stability(h) + slippage_cost(h))
        \div 4

\* ValidationService.get_health: every strategy with a signal in the range.
get_health(f, t) ==
    LET active == {SignalTable[g].strat : g \in
                      {x \in books.signals : /\ f <= SignalTable[x].day
                                             /\ SignalTable[x].day <= t}}
    IN  [s \in active |-> HealthInputs(s, f, t)]
-----------------------------------------------------------------------------
(* Properties. *)

Strategies == {SignalTable[g].strat : g \in DOMAIN SignalTable}

\* The strategies add up to the stocks, to the portfolio, to its merged daily
\* series and to the capital report, each engine grouping on its own.
EnginesAgree(mode, f, t) ==
    LET perf == strategy_compute(mode, f, t)
        stocks == stock_compute(mode, f, t)
        portfolio == portfolio_compute(mode, f, t)
        capital == efficiency_compute(mode, f, t)
    IN  /\ SumField(perf, "net") = SumField(stocks, "net")
        /\ SumField(perf, "trades") = SumField(stocks, "trades")
        /\ SumField(perf, "wins") = SumField(stocks, "wins")
        /\ \A y \in DOMAIN stocks : stocks[y].net = SumValues(stocks[y].by_strategy)
        /\ portfolio.total = capital.net
        /\ portfolio.total = SumValues(portfolio.merged_daily)
        /\ capital.approved <= capital.signals
        /\ capital.allocated + capital.idle = TotalCapital

\* The combined mode is the sum of the three.
ModesAddUp(f, t) ==
    portfolio_compute("COMBINED", f, t).total
        = portfolio_compute("PAPER", f, t).total
            + portfolio_compute("BACKTEST", f, t).total
            + portfolio_compute("LIVE", f, t).total

\* Two adjoining periods add up to the whole for live and backtest trades, and
\* for paper trades except those of the first period's last day.
PeriodsAddUp(f, m, t) ==
    /\ \A mode \in {"LIVE", "BACKTEST"}, s \in Strategies \union {"live"} :
           LET halves == compare_periods(mode, s, f, m, m + 1, t)
               whole == strategy_compute(mode, f, t)
           IN  halves.a + halves.b = IF s \in DOMAIN whole THEN whole[s].net ELSE 0
    /\ portfolio_compute("PAPER", f, m).total + portfolio_compute("PAPER", m + 1, t).total
           + SumValues([p \in {q \in books.paper : Signal(q).day = m} |-> p.pnl])
           = portfolio_compute("PAPER", f, t).total

\* The comparison's places are a permutation that its "best" entries head.
HeadedByBest(compared) ==
    LET rows == compared.rows
    IN  /\ {rows[i].win_rate : i \in DOMAIN rows} = DOMAIN rows
        /\ \A i \in DOMAIN rows :
               /\ rows[i].net_pnl = i
               /\ i = 1 <=> rows[i].strat = compared.best_by_pnl
               /\ rows[i].win_rate = 1 <=> rows[i].strat = compared.best_by_win_rate
PlacesArePermutation(mode, f, t) == HeadedByBest(compare_strategies(mode, f, t))

\* Whatever has been stored and whatever range and mode is asked for, the
\* four analytics engines report the same trades and the same profit.
AttributionReconciles ==
    \A f, t \in ReportDays : f <= t =>
        /\ \A mode \in Modes : EnginesAgree(mode, f, t)
        /\ ModesAddUp(f, t)
        /\ \A m \in f .. t - 1 : PeriodsAddUp(f, m, t)
        /\ PlacesArePermutation("COMBINED", f, t)

\* The symbol breakdown adds up and the worst sample is some symbol's worst.
SlippageAddsUp(slip) ==
    /\ slip.count = SumField(slip.by_symbol, "count")
    /\ slip.cost = SumField(slip.by_symbol, "cost")
    /\ slip.worst = Max({0} \union {slip.by_symbol[y].worst : y \in DOMAIN slip.by_symbol})

\* As long as no signal was traded twice every health dimension stays within
\* 0 to 100 and the overall score between the worst and the best dimension.
HealthIsBounded(h) ==
    LET scores == {signal_quality(h), execution_quality(h), pnl_stability(h),
                   slippage_cost(h)}
    IN  (\A p \in h.trades : p.n = 1) =>
            /\ scores \subseteq 0 .. 100
            /\ Min(scores) <= health_score(h) /\ health_score(h) <= Max(scores)

\* A strategy that had a signal in the range is compared with its own live
\* positions only.
LiveIsOwn(s, f, t) ==
    SignalsOf(s, f, t) # {} =>
        reality_gap(s, f, t).live
            = ModeMetrics({p \in get_closed_between(f, t) : Signal(p).strat = s})

PercentilesAreOrdered(sorted) ==
    LET P(q) == latency_percentile(sorted, q)
    IN  P(50) <= P(95) /\ P(95) <= P(99) /\ P(99) <= Last(sorted)

\* The validation reports are consistent with one another and with the books.
ValidationIsConsistent ==
    /\ \A f, t \in ReportDays, s \in Strategies : f <= t =>
           /\ SlippageAddsUp(slippage_aggregate(slippage_samples("COMBINED", s, f, t)))
           /\ HealthIsBounded(HealthInputs(s, f, t))
           /\ s \notin DOMAIN get_health(f, t) => HealthInputs(s, f, t).trades = {}
           /\ LiveIsOwn(s, f, t)
    /\ books.signals # {} => PercentilesAreOrdered(signal_latencies)

\* All reports over the same books tell the same story.
ReportsReconcile ==
    Documents > 0 => AttributionReconciles /\ ValidationIsConsistent
=============================================================================
