----------------------------- MODULE WalkForward -----------------------------
(***************************************************************************)
(* Walk-forward testing: the window generator, the engine that optimises   *)
(* on each training window and tests on the window after it, and the       *)
(* summary and robustness scores computed from the segments.               *)
(*                                                                         *)
(* A date is a day number counted through MonthLengths.  Prices, trades    *)
(* inside a day and Sharpe ratios come from the backtest engine and are    *)
(* chosen nondeterministically; which days a segment may see, which        *)
(* parameters reach the engine, and what is counted are the model's        *)
(* subject.  A trade that never broke out has pnl 0.                       *)
(***************************************************************************)
EXTENDS Integers, FiniteSets, FiniteSetsExt, Lists, Optional

CONSTANTS
    MonthLengths,   \* days of each month of the calendar, in order
    WfConfigs,      \* [from, to, training, testing, step] requests
    Histories,      \* sets of days for which candles are stored
    Grid,           \* parameter name -> sequence of values (ParameterGrid)
    Base,           \* parameter name -> base value
    Sharpes,        \* Sharpe ratios, or None, a backtest may report
    Pnls            \* results a tested day may have; 0 is NO_BREAKOUT

Parameters == <<"probability_threshold", "max_orb_range_pct",
                "max_entry_time_ist", "sl_buffer_pct">>

\* Parameter values, times and rates included, are numbers here.
Configs == [{Parameters[i] : i \in DOMAIN Parameters} -> Int]

ASSUME GridCoversParameters ==
    /\ \A i \in DOMAIN Parameters :
          Grid[Parameters[i]] # << >> /\ Grid[Parameters[i]] \in Seq(Int)
    /\ Base \in Configs /\ None \notin Configs

ASSUME SegmentDataAssumption ==
    /\ \A days \in Histories : days \subseteq Int /\ IsFiniteSet(days)
    /\ \A s \in Sharpes : s = None \/ s \in Int
    /\ Pnls \subseteq Int

VARIABLE wf

WfInit ==
    \E cfg \in WfConfigs, days \in Histories :
        wf = [cfg |-> cfg, history |-> days, phase |-> "generate",
              training_start |-> cfg.from, windows |-> << >>,
              segments |-> << >>]
-----------------------------------------------------------------------------
(* Calendar arithmetic. *)

MonthStart[m \in 1 .. Len(MonthLengths)] ==
    IF m = 1 THEN 0 ELSE MonthStart[m - 1] + MonthLengths[m - 1]

MonthOf(d) ==
    CHOOSE m \in DOMAIN MonthLengths :
        MonthStart[m] < d /\ d <= MonthStart[m] + MonthLengths[m]

DayOfMonth(d) == d - MonthStart[MonthOf(d)]

\* The calendar goes on for as many months as a request can look past its
\* last day.
ASSUME WfCalendarAssumption ==
    /\ MonthLengths \in Seq(28 .. 31)
    /\ WfConfigs \subseteq [from : Int, to : Int, training : Int, testing : Int, step : Int]
    /\ \A cfg \in WfConfigs : \A d \in {cfg.from, cfg.to} :
          \E m \in DOMAIN MonthLengths :
             /\ MonthStart[m] < d /\ d <= MonthStart[m] + MonthLengths[m]
             /\ \A k \in {cfg.training, cfg.testing, cfg.step} : m + k <= Len(MonthLengths)

\* _add_months: the same day of a later month, or that month's last day.
AddMonths(d, k) ==
    LET m == MonthOf(d) + k
    IN  MonthStart[m] + Min({DayOfMonth(d), MonthLengths[m]})

\* Last day of a period of k months that starts on d.
PeriodEndNoStep(d, k) == AddMonths(d, k)
PeriodEnd(d, k) == AddMonths(d, k) - 1
-----------------------------------------------------------------------------
(* WalkForwardWindowGenerator. *)

validate_window_config(cfg) ==
    cfg.training > 0 /\ cfg.testing > 0 /\ cfg.step > 0 /\ cfg.from < cfg.to

\* One iteration of the generator's loop.
Generate ==
    LET cfg == wf.cfg
        training_end == PeriodEnd(wf.training_start, cfg.training)
        testing_end == PeriodEnd(training_end + 1, cfg.testing)
        partial == testing_end > cfg.to
        window == [training_start |-> wf.training_start,
                   training_end |-> training_end,
                   testing_start |-> training_end + 1,
                   testing_end |-> IF partial THEN cfg.to ELSE testing_end]
        Finished(ws) == IF ws = << >> THEN "rejected" ELSE "segments"
    IN  /\ wf.phase = "generate"
        /\ wf' = CASE ~validate_window_config(cfg) ->
                        [wf EXCEPT !.phase = "rejected"]
                   [] validate_window_config(cfg) /\ training_end >= cfg.to ->
                        [wf EXCEPT !.phase = Finished(wf.windows)]
                   [] validate_window_config(cfg) /\ training_end < cfg.to /\ partial ->
                        [wf EXCEPT !.windows = Append(@, window),
                                   !.phase = "segments"]
                   [] OTHER ->
                        [wf EXCEPT !.windows = Append(@, window),
                                   !.training_start = AddMonths(@, cfg.step)]
-----------------------------------------------------------------------------
(* ParameterOptimizer and WalkForwardEngine. *)

\* One parameter varies at a time, the others keep their base value.
build_sweep_configs ==
    FlattenSeq([i \in DOMAIN Parameters |->
        [j \in DOMAIN Grid[Parameters[i]] |->
            [name |-> Parameters[i],
             config |-> [Base EXCEPT ![Parameters[i]] = Grid[Parameters[i]][j]]]]])

\* ORHVConfig.from_dict drops the keys it does not know: of the four swept
\* parameters only two reach the backtest engine.
from_dict(config) == <<config["max_orb_range_pct"], config["max_entry_time_ist"]>>

Effective == {from_dict(build_sweep_configs[i].config) :
                  i \in DOMAIN build_sweep_configs}

filter_history(start, end) == {d \in wf.history : start <= d /\ d <= end}

\* A point's Sharpe; the selection reads a missing one as 0.
OrZero(s) == IF s = None THEN 0 ELSE s

\* run_sweep: what the engine answers for every effective configuration,
\* << >> when it raises; without candles there is no trade and no Sharpe.
SweepAnswers(days) ==
    IF days = {} THEN {[c \in Effective |-> <<None>>]}
    ELSE [Effective -> {<< >>} \union {<<s>> : s \in Sharpes}]

run_sweep(answers) ==
    LET Answered(p) == answers[from_dict(p.config)] # << >>
        WithSharpe(p) == [name |-> p.name, config |-> p.config,
                          sharpe |-> OrZero(answers[from_dict(p.config)][1])]
        points == Filtered(build_sweep_configs, Answered)
    IN  [i \in DOMAIN points |-> WithSharpe(points[i])]

\* Python's max: the first of the best points.
BestPoint(points) ==
    points[CHOOSE i \in DOMAIN points :
              \A j \in DOMAIN points :
                  \/ points[j].sharpe < points[i].sharpe
                  \/ points[j].sharpe = points[i].sharpe /\ i <= j]

\* The engine trades on the day after a setup, so never on the first day it
\* is given candles for; at most one trade a day in this one-symbol model.
TradableDays(days) == IF days = {} THEN {} ELSE days \ {Min(days)}

FailedSegment(w) ==
    [window |-> w, error |-> TRUE, selected |-> None, sharpe |-> 0,
     trades |-> << >>]

\* _process_segment on the next window; any exception becomes a failed
\* segment and the run goes on.
ProcessSegment ==
    LET w == wf.windows[Len(wf.segments) + 1]
        training == filter_history(w.training_start, w.training_end)
        testing == filter_history(w.testing_start, w.testing_end)
    IN  /\ wf.phase = "segments"
        /\ Len(wf.segments) < Len(wf.windows)
        /\ \/ /\ testing # {}      \* the test backtest raises
              /\ wf' = [wf EXCEPT !.segments = Append(@, FailedSegment(w))]
           \/ \E answers \in SweepAnswers(training),
                 result \in [TradableDays(testing) -> Pnls \union {None}] :
                LET points == run_sweep(answers)
                    best == BestPoint(points)
                    traded == {d \in DOMAIN result : result[d] # None}
                    order == SortedBy(traded, [d \in traded |-> d])
                IN  wf' = [wf EXCEPT !.segments = Append(@,
                      IF points = << >> THEN FailedSegment(w)
                      ELSE [window |-> w, error |-> FALSE,
                            selected |-> best.config, sharpe |-> best.sharpe,
                            trades |-> [i \in 1 .. Cardinality(traded) |->
                               [day |-> order[i], pnl |-> result[order[i]]]]])]

FinishWalk ==
    /\ wf.phase = "segments"
    /\ Len(wf.segments) = Len(wf.windows)
    /\ wf' = [wf EXCEPT !.phase = "done"]

WfNext == Generate \/ ProcessSegment \/ FinishWalk

WfSpec == WfInit /\ [][WfNext]_wf
-----------------------------------------------------------------------------
(* WalkForwardAggregator. *)

SumSeq(s) == FoldLeft(LAMBDA a, b : a + b, 0, s)
TradePnls(trades) == [i \in DOMAIN trades |-> trades[i].pnl]
SegmentPnl(s) == SumSeq(TradePnls(s.trades))
Completed(segments) == Filtered(segments, LAMBDA s : ~s.error)

aggregate(segments) ==
    LET done == Completed(segments)
        all == FlattenSeq([i \in DOMAIN done |-> done[i].trades])
        pnls == [i \in DOMAIN done |-> SegmentPnl(done[i])]
    IN  [total_segments |-> Len(segments),
         completed_segments |-> Len(done),
         failed_segments |-> Len(segments) - Len(done),
         trades |-> all,
         total_pnl |-> SumSeq(TradePnls(all)),
         wins |-> Len(Filtered(all, LAMBDA t : t.pnl > 0)),
         segment_pnls |-> pnls,
         positive_segments |-> Len(Filtered(pnls, LAMBDA p : p > 0))]
-----------------------------------------------------------------------------
(* RobustnessAnalyzer; scores are whole percentages, rounded up. *)

Neutral == 50
Magnitude(n) == IF n < 0 THEN -n ELSE n
Isqrt(n) == CHOOSE r \in 0 .. n : r * r <= n /\ (r + 1) * (r + 1) > n
ClampScore(x) == Max({0, Min({100, x})})

\* n*n*(n-1) times the sample variance.
Scatter(v) ==
    Len(v) * (Len(v) * SumSeq([i \in DOMAIN v |-> v[i] * v[i]])
                - SumSeq(v) * SumSeq(v))

\* 100 * stdev / max(|mean|, 1)
CvPct(v) ==
    LET n == Len(v)
        m == Max({Magnitude(SumSeq(v)), n})
    IN  Isqrt((10000 * Scatter(v)) \div ((n - 1) * m * m))

score_performance_consistency(pnls) == ClampScore(100 - CvPct(pnls))

\* The spread between the best and the worst segment against the mean.
score_regime_sensitivity(pnls) ==
    LET values == {pnls[i] : i \in DOMAIN pnls}
        m == Max({Magnitude(SumSeq(pnls)), Len(pnls)})
    IN  ClampScore(100 - ((Max(values) - Min(values)) * 100 * Len(pnls)) \div m)

\* Numeric parameters by their variation, the entry cut-off (a string) by
\* the share of segments that differ from the most common value.
ParameterCv(done, key) ==
    LET v == [i \in DOMAIN done |-> done[i].selected[key]]
        n == Len(v)
        count(x) == Cardinality({i \in DOMAIN v : v[i] = x})
        mode == Max({count(v[i]) : i \in DOMAIN v})
    IN  IF key = "max_entry_time_ist" THEN ((n - mode) * 100) \div n
        ELSE IF SumSeq(v) = 0 THEN IF mode < n THEN 100 ELSE 0
        ELSE Isqrt((10000 * Scatter(v)) \div ((n - 1) * SumSeq(v) * SumSeq(v)))

score_parameter_stability(done) ==
    ClampScore(100 - SumSeq([i \in DOMAIN Parameters |->
                            ParameterCv(done, Parameters[i])]) \div 4)

analyze(segments) ==
    LET done == Completed(segments)
        pnls == [i \in DOMAIN done |-> SegmentPnl(done[i])]
        stability == score_parameter_stability(done)
        consistency == score_performance_consistency(pnls)
        regime == score_regime_sensitivity(pnls)
    IN  IF Len(done) < 2
        THEN [stability |-> Neutral, consistency |-> Neutral,
              regime |-> Neutral, robustness |-> Neutral]
        ELSE [stability |-> stability, consistency |-> consistency,
              regime |-> regime,
              robustness |-> (30 * stability + 40 * consistency + 30 * regime)
                                 \div 100]
-----------------------------------------------------------------------------
(* Properties. *)

Windows == wf.windows
NoClipping == DayOfMonth(wf.cfg.from) <= 28

\* Every test is out of sample and every day is tested at most once.  A
\* window trains strictly before it tests, inside the requested range, and
\* windows move forward.  When the step is at least the testing length and
\* the start day exists in every month, no two test windows share a day;
\* when it equals the testing length the test windows follow each other
\* without a gap and end exactly on to_date.  (A start on the 29th to 31st
\* is clipped to shorter months and the windows may then overlap.)
WindowsOutOfSample ==
    LET n == Len(Windows)
    IN  /\ \A i \in 1 .. n :
               /\ wf.cfg.from <= Windows[i].training_start
               /\ Windows[i].training_start <= Windows[i].training_end
               /\ Windows[i].training_end < Windows[i].testing_start
               /\ Windows[i].testing_start <= Windows[i].testing_end
               /\ Windows[i].testing_end <= wf.cfg.to
        /\ \A i \in 1 .. n - 1 :
               Windows[i].training_start < Windows[i + 1].training_start
        /\ NoClipping /\ wf.cfg.step >= wf.cfg.testing =>
               \A i, j \in 1 .. n :
                   i < j => Windows[i].testing_end < Windows[j].testing_start
        /\ NoClipping /\ wf.cfg.step = wf.cfg.testing =>
               /\ \A i \in 1 .. n - 1 :
                      Windows[i + 1].testing_start = Windows[i].testing_end + 1
               /\ wf.phase \in {"segments", "done"} =>
                      Windows[n].testing_end = wf.cfg.to

\* Then the aggregate counts no day's trade twice.  The summary of a finished
\* run accounts for every window, its robustness scores ignore the segments
\* that failed, and the spread penalty is never milder than the variation one.
SummaryAccounts ==
    LET agg == aggregate(wf.segments)
    IN  /\ NoClipping /\ wf.cfg.step >= wf.cfg.testing =>
               Cardinality({agg.trades[i].day : i \in DOMAIN agg.trades})
                   = Len(agg.trades)
        /\ wf.phase = "done" =>
               LET rob == analyze(wf.segments)
               IN  /\ agg.completed_segments + agg.failed_segments = Len(Windows)
                   /\ agg.total_pnl = SumSeq(agg.segment_pnls)
                   /\ rob = analyze(Filtered(wf.segments,
                                              LAMBDA s : s.selected # None))
                   /\ rob.regime <= rob.consistency

\* The windows are out of sample and the summary says what they showed.
OutOfSample == WindowsOutOfSample /\ SummaryAccounts
=============================================================================
