------------------------------ MODULE MCOffline ------------------------------
(***************************************************************************)
(* The offline side of the system, for TLC: the research run services, the *)
(* strategy lab, the nightly ORHV pipeline, and the algorithms they call   *)
(* on bounded inputs (one day of the strategy's candles, walk-forward      *)
(* windows, the statistics of a backtest, the reports over the stored      *)
(* documents).  They share no state: a behaviour exercises one of them and *)
(* leaves the others in one initial state.                                 *)
(***************************************************************************)
EXTENDS ResearchRuns, StrategyLab, OrhvPipeline,
        OrhvStrategy, WalkForward, TradeStatistics, PerformanceReports, TLC

VARIABLE subsystem

offlineVars == <<runsVars, labVars, orhvVars, dayVars, wf, statVars, books,
                 subsystem>>

MCMonthLengths == <<31, 28, 31, 30, 31, 30, 31, 31, 30, 31, 30, 31, 31, 29,
                    31, 30, 31, 30, 31, 30>>

\* Every combination of start day and period lengths; walks with candles are
\* explored for the two of them that test and re-test a shared range.
MCWfConfigs ==
    [from : {1, 15, 28, 31, 59, 60, 304 + 29}, to : {59, 60, 120, 200, 365 + 60},
     training : 1 .. 2, testing : 1 .. 2, step : 1 .. 3]
MCTested ==
    {[from |-> 1, to |-> 120, training |-> 1, testing |-> 1, step |-> 1],
     [from |-> 1, to |-> 120, training |-> 1, testing |-> 2, step |-> 1]}
MCHistories == {{}, {31, 32, 33, 60, 61}}
MCGrid == [probability_threshold |-> <<60, 70>>, max_orb_range_pct |-> <<50, 100>>,
           max_entry_time_ist |-> <<1130>>, sl_buffer_pct |-> <<0, 5>>]
MCBase == [probability_threshold |-> 70, max_orb_range_pct |-> 100,
           max_entry_time_ist |-> 1130, sl_buffer_pct |-> 0]
MCSharpes == {None, -1, 1}
MCPnls == {-2, 3}

\* <<high, low, close>>: inside the range, beyond one end, beyond both ends,
\* closing inside or outside.
MCShapes == {<<3, 3, 3>>, <<4, 3, 4>>, <<5, 3, 3>>, <<3, 2, 2>>, <<4, 2, 3>>,
             <<5, 1, 1>>}

Kind(sym, side, entry, exit, reason, pnl, orb, prob) ==
    [sym |-> sym, side |-> side, entry |-> entry, exit |-> exit,
     reason |-> reason, pnl |-> pnl, orb |-> orb, prob |-> prob]
MCTradeKinds ==
    {Kind("A", "LONG", 240, 585, "EOD_EXIT", 3, 29, 60),
     Kind("B", "SHORT", 255, 585, "EOD_EXIT", 0, 30, 65),
     Kind("B", "LONG", 390, 405, "SL_HIT", -2, 100, 80),
     Kind("A", "SHORT", 375, 585, "SL_HIT", -6, 74, 70),
     Kind("A", "LONG", 0, 0, "NO_BREAKOUT", 0, 50, 70)}

MCSignalTable ==
    [g1 |-> [strat |-> "s1", sym |-> "X", day |-> 1, price |-> 50, latency |-> -1],
     g2 |-> [strat |-> "s2", sym |-> "X", day |-> 2, price |-> 20, latency |-> 3],
     g3 |-> [strat |-> "s1", sym |-> "Y", day |-> 2, price |-> 20, latency |-> 5]]
\* r1 and r2 overlap on day 2; r2 never finished.
MCRunTable ==
    [r1 |-> [strat |-> "s1", from |-> 1, to |-> 2, created |-> 1, completed |-> TRUE,
             trades |-> <<[sym |-> "X", day |-> 1, pnl |-> 2, capital |-> 5],
                          [sym |-> "Y", day |-> 2, pnl |-> -1, capital |-> 5]>>],
     r2 |-> [strat |-> "s1", from |-> 2, to |-> 3, created |-> 2, completed |-> FALSE,
             trades |-> <<[sym |-> "Y", day |-> 2, pnl |-> -1, capital |-> 5],
                          [sym |-> "Y", day |-> 3, pnl |-> 0, capital |-> 0]>>]]
MCReportPnls == {-1, 2}

MCTables == {[candidate |-> {1, 2, 3, 6}, win |-> {2, 6}],
             [candidate |-> {1, 3, 6}, win |-> {3, 6}]}

Init ==
    /\ subsystem \in {"runs", "lab", "orhv",
                       "strategy", "walk_forward", "statistics", "reports"}
    /\ RunsInit /\ LabInit /\ OrhvInit
    /\ DayInit /\ WfInit /\ StatInit /\ ReportInit
    /\ subsystem # "orhv" => win[2]    \* one table is enough for the others
    /\ wf.history # {} => wf.cfg \in MCTested
    /\ subsystem # "walk_forward" =>
           wf.history = {} /\ wf.cfg = CHOOSE c \in MCTested : TRUE

Next ==
    /\ UNCHANGED subsystem
    /\ \/ /\ subsystem = "runs"
          /\ RunsNext
          /\ UNCHANGED <<labVars, orhvVars, dayVars, wf, statVars, books>>
       \/ /\ subsystem = "lab"
          /\ LabNext
          /\ UNCHANGED <<runsVars, orhvVars, dayVars, wf, statVars, books>>
       \/ /\ subsystem = "orhv"
          /\ OrhvNext
          /\ UNCHANGED <<runsVars, labVars, dayVars, wf, statVars, books>>
       \/ /\ subsystem = "strategy"
          /\ DayNext
          /\ UNCHANGED <<runsVars, labVars, orhvVars, wf, statVars, books>>
       \/ /\ subsystem = "walk_forward"
          /\ WfNext
          /\ UNCHANGED <<runsVars, labVars, orhvVars, dayVars, statVars, books>>
       \/ /\ subsystem = "statistics"
          /\ StatNext
          /\ UNCHANGED <<runsVars, labVars, orhvVars, dayVars, wf, books>>
       \/ /\ subsystem = "reports"
          /\ ReportNext
          /\ UNCHANGED <<runsVars, labVars, orhvVars, dayVars, wf, statVars>>

Spec == Init /\ [][Next]_offlineVars

Symmetry ==
    Permutations(Jobs) \union Permutations(Requests) \union Permutations(Tasks)
=============================================================================
