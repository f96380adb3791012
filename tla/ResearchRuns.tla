---------------------------- MODULE ResearchRuns ----------------------------
(***************************************************************************)
(* The four research services: backtest, walk-forward, Monte Carlo and     *)
(* parameter research.  Each is a coroutine with the same life: validate,  *)
(* insert a PENDING run document, mark it RUNNING, read its inputs,        *)
(* compute in a thread, store the results in bulk writes, mark the run     *)
(* COMPLETED; an exception marks it FAILED, and a second failure, of that  *)
(* write, is swallowed.                                                    *)
(*                                                                         *)
(* Jobs interleave at every await.  They share the trade store: Monte      *)
(* Carlo samples what backtests wrote, whether or not they are done.  A    *)
(* database write may raise before or after it took effect, a bulk write   *)
(* after part of it did (ordered=False), and the process may restart.      *)
(*                                                                         *)
(* Each result row is anonymous: rows are counted.  Monte Carlo runs ask   *)
(* for one strategy, parameter research for one reference.                 *)
(***************************************************************************)
EXTENDS Integers, FiniteSets, Optional

CONSTANTS
    Jobs,        \* requests, one run document each
    Dates,       \* days a request may name
    LastDate,    \* last_completed_trading_day()
    MaxRows,     \* most rows a computation yields
    BatchSize,   \* BACKTEST_BATCH_SIZE
    MaxFaults,   \* failing database calls
    MaxRestarts

Kinds == {"backtest", "walk_forward", "monte_carlo", "research"}

ASSUME BoundsAssumption ==
    /\ Dates \subseteq Nat /\ LastDate \in Nat
    /\ MaxRows \in Nat \ {0} /\ BatchSize \in Nat \ {0}
    /\ MaxFaults \in Nat /\ MaxRestarts \in Nat
ASSUME NoneAssumption ==
    None \notin Kinds \union {"PENDING", "RUNNING", "COMPLETED", "FAILED",
                            "ok", "error", "rejected"}

VARIABLES
    kind,      \* kind[j]: which service the request went to
    pc,        \* pc[j]: where its coroutine is
    span,      \* span[j]: the date range it works on is not empty
    need,      \* need[j]: rows its computation yielded
    told,      \* told[j]: what the caller was answered
    run,       \* run[j]: status in the stored run document
    rows,      \* rows[j]: result rows stored under its run_id
    saved,     \* saved[j]: rows whose bulk write returned
    metrics,   \* metrics[j]: the BacktestMetrics document exists
    unsaid,    \* unsaid[j]: the FAILED status could not be written
    faults, restarts

runsVars == <<kind, pc, span, need, told, run, rows, saved, metrics, unsaid,
              faults, restarts>>

Terminal == {"COMPLETED", "FAILED"}
Status == {"PENDING", "RUNNING"} \union Terminal
Steps == {"idle", "create", "mark", "load", "compute", "persist", "metrics",
          "reference", "complete", "fail", "ended"}

RunsTypeOK ==
    /\ kind \in [Jobs -> Kinds \union {None}]
    /\ pc \in [Jobs -> Steps]
    /\ span \in [Jobs -> BOOLEAN]
    /\ need \in [Jobs -> 0 .. MaxRows]
    /\ told \in [Jobs -> {None, "ok", "error", "rejected"}]
    /\ run \in [Jobs -> Status \union {None}]
    /\ rows \in [Jobs -> 0 .. MaxRows]
    /\ saved \in [Jobs -> 0 .. MaxRows]
    /\ metrics \in [Jobs -> BOOLEAN]
    /\ unsaid \in [Jobs -> BOOLEAN]
    /\ faults \in 0 .. MaxFaults /\ restarts \in 0 .. MaxRestarts

RunsInit ==
    /\ kind = [j \in Jobs |-> None]
    /\ pc = [j \in Jobs |-> "idle"]
    /\ span = [j \in Jobs |-> TRUE]
    /\ need = [j \in Jobs |-> 0]
    /\ told = [j \in Jobs |-> None]
    /\ run = [j \in Jobs |-> None]
    /\ rows = [j \in Jobs |-> 0]
    /\ saved = [j \in Jobs |-> 0]
    /\ metrics = [j \in Jobs |-> FALSE]
    /\ unsaid = [j \in Jobs |-> FALSE]
    /\ faults = 0 /\ restarts = 0
-----------------------------------------------------------------------------
(* Moves of one coroutine. *)

\* The steps of each service after the run document exists; a step of its
\* own stands for every await at which state is read or written.
BacktestSteps ==
    [mark |-> "load", load |-> "compute", compute |-> "persist",
     persist |-> "metrics", metrics |-> "complete"]
WalkForwardSteps ==
    [mark |-> "load", load |-> "compute", compute |-> "persist",
     persist |-> "complete"]
MonteCarloSteps ==
    [mark |-> "load", load |-> "compute", compute |-> "persist",
     persist |-> "complete"]
ResearchSteps ==
    [mark |-> "load", load |-> "compute", compute |-> "persist",
     persist |-> "reference"]

After(j, s) ==
    CASE kind[j] = "backtest" -> BacktestSteps[s]
      [] kind[j] = "walk_forward" -> WalkForwardSteps[s]
      [] kind[j] = "monte_carlo" -> MonteCarloSteps[s]
      [] kind[j] = "research" -> ResearchSteps[s]

Goto(j, s) == pc' = [pc EXCEPT ![j] = s]
Fault == faults < MaxFaults /\ faults' = faults + 1
NoFault == UNCHANGED faults

\* The exception handler: mark_failed happens in memory, the write is next.
Raise(j) == Goto(j, "fail")

\* create_run / update_run: the write takes effect or not, and a write that
\* raises may have taken effect.
Write(j, status, next) ==
    \/ run' = [run EXCEPT ![j] = status] /\ Goto(j, next) /\ NoFault
    \/ /\ Fault
       /\ \/ run' = [run EXCEPT ![j] = status]
          \/ UNCHANGED run
       /\ Raise(j)

(***************************************************************************)
(* The four validations, all before a document exists.  Each answers None  *)
(* or the range it leaves, cut at the last completed session.              *)
(***************************************************************************)
Clamp(q) == [from |-> q.from, to |-> IF q.to > LastDate THEN LastDate ELSE q.to]

ValidateBacktest(q) ==
    IF q.from > q.to \/ ~q.params \/ ~q.symbols THEN None ELSE Clamp(q)

\* Also generates the windows: a range cut to one day has none.
ValidateWalkForward(q) ==
    IF \/ q.from >= q.to \/ q.from > LastDate
       \/ ~q.params \/ ~q.symbols
       \/ Clamp(q).from >= Clamp(q).to
    THEN None ELSE Clamp(q)

ValidateMonteCarlo(q) == IF q.params THEN [from |-> 0, to |-> 0] ELSE None

ValidateResearch(q) ==
    IF q.from > q.to \/ ~q.params \/ ~q.symbols THEN None ELSE Clamp(q)

Validate(k, q) ==
    CASE k = "backtest" -> ValidateBacktest(q)
      [] k = "walk_forward" -> ValidateWalkForward(q)
      [] k = "monte_carlo" -> ValidateMonteCarlo(q)
      [] k = "research" -> ValidateResearch(q)

\* What a caller sends: dates, whether the parameters are in range, whether
\* any of the symbols is active.
Requested == [from : Dates, to : Dates, params : BOOLEAN, symbols : BOOLEAN]

Submit(j, k) ==
    /\ pc[j] = "idle"
    /\ kind' = [kind EXCEPT ![j] = k]
    /\ \E q \in Requested :
          LET r == Validate(k, q)
          IN  IF r = None
              THEN /\ Goto(j, "ended") /\ told' = [told EXCEPT ![j] = "rejected"]
                   /\ UNCHANGED span
              ELSE /\ Goto(j, "create") /\ UNCHANGED told
                   /\ span' = [span EXCEPT ![j] = r.from <= r.to]
    /\ UNCHANGED <<need, run, rows, saved, metrics, unsaid, faults, restarts>>

\* Outside the try: a failing insert reaches the caller and nothing is marked.
CreateRun(j) ==
    /\ pc[j] = "create"
    /\ \/ /\ run' = [run EXCEPT ![j] = "PENDING"]
          /\ Goto(j, "mark") /\ NoFault /\ UNCHANGED told
       \/ /\ Fault
          /\ \/ run' = [run EXCEPT ![j] = "PENDING"]
             \/ UNCHANGED run
          /\ Goto(j, "ended") /\ told' = [told EXCEPT ![j] = "error"]
    /\ UNCHANGED <<kind, span, need, rows, saved, metrics, unsaid, restarts>>

MarkRunning(j) ==
    /\ pc[j] = "mark"
    /\ Write(j, "RUNNING", After(j, "mark"))
    /\ UNCHANGED <<kind, span, need, told, rows, saved, metrics, unsaid, restarts>>

\* _prefetch_data: candles of the range.
LoadCandles(j) ==
    /\ pc[j] = "load" /\ kind[j] # "monte_carlo"
    /\ \/ Goto(j, After(j, "load")) /\ NoFault
       \/ Fault /\ Raise(j)
    /\ UNCHANGED <<kind, span, need, told, run, rows, saved, metrics, unsaid,
                   restarts>>

\* Rows of executed trades a Monte Carlo request may find: those of one
\* backtest run id, whatever its status, or all of the strategy's.
TradesFound ==
    {rows[b] : b \in {b \in Jobs : kind[b] = "backtest"}} \union {0}

\* _fetch_trade_pnls: Monte Carlo needs trades, and the handler lets its
\* MonteCarloConfigException through with the run left RUNNING.
FetchTradePnls(j) ==
    /\ pc[j] = "load" /\ kind[j] = "monte_carlo"
    /\ \/ /\ NoFault
          /\ \E n \in TradesFound :
                IF n > 0 THEN Goto(j, After(j, "load")) /\ UNCHANGED told
                ELSE Goto(j, "ended") /\ told' = [told EXCEPT ![j] = "rejected"]
       \/ Fault /\ Raise(j) /\ UNCHANGED told
    /\ UNCHANGED <<kind, span, need, run, rows, saved, metrics, unsaid, restarts>>

\* The engine, in the executor; it may raise.  Monte Carlo always yields the
\* portfolio row, walk-forward a segment per window; the others may yield
\* nothing, and do for an empty range.
Compute(j) ==
    /\ pc[j] = "compute"
    /\ \/ /\ \E n \in 0 .. MaxRows :
                /\ kind[j] \in {"monte_carlo", "walk_forward"} => n > 0
                /\ ~span[j] => n = 0
                /\ need' = [need EXCEPT ![j] = n]
          /\ Goto(j, After(j, "compute")) /\ NoFault
       \/ Fault /\ Raise(j) /\ UNCHANGED need
    /\ UNCHANGED <<kind, span, told, run, rows, saved, metrics, unsaid, restarts>>

\* Mutant of BulkInsert: a failing bulk write is logged and the run goes on.
BulkInsertSwallows(j, n) ==
    /\ saved' = [saved EXCEPT ![j] = @ + n]
    /\ \/ rows' = [rows EXCEPT ![j] = @ + n] /\ NoFault
       \/ Fault /\ \E i \in 0 .. n : rows' = [rows EXCEPT ![j] = @ + i]
    /\ UNCHANGED pc

\* bulk_write of n rows, ordered=False: a failure raises with any part of
\* them stored.
BulkInsert(j, n) ==
    \/ /\ rows' = [rows EXCEPT ![j] = @ + n]
       /\ saved' = [saved EXCEPT ![j] = @ + n]
       /\ NoFault /\ UNCHANGED pc
    \/ /\ Fault
       /\ \E i \in 0 .. n : rows' = [rows EXCEPT ![j] = @ + i]
       /\ Raise(j) /\ UNCHANGED saved

Remaining(j) == need[j] - saved[j]

Persist(j, n) ==
    /\ pc[j] = "persist" /\ Remaining(j) > 0
    /\ BulkInsert(j, n)
    /\ UNCHANGED <<kind, span, need, told, run, metrics, unsaid, restarts>>

\* _save_trades: batch after batch.
SaveTrades(j) ==
    /\ kind[j] = "backtest"
    /\ Persist(j, IF Remaining(j) > BatchSize THEN BatchSize ELSE Remaining(j))

\* The documents of all segments, in one write.
InsertSegments(j) == kind[j] = "walk_forward" /\ Persist(j, Remaining(j))

\* One document per strategy and one for the portfolio.
InsertResults(j) == kind[j] = "monte_carlo" /\ Persist(j, Remaining(j))

\* _save_optimization_results: one per point of the sweep.
SaveOptimizationResults(j) == kind[j] = "research" /\ Persist(j, Remaining(j))

Persisted(j) ==
    /\ pc[j] = "persist" /\ Remaining(j) = 0
    /\ Goto(j, After(j, "persist"))
    /\ UNCHANGED <<kind, span, need, told, run, rows, saved, metrics, unsaid,
                   faults, restarts>>

\* MetricsEngine.calculate and upsert_metrics.
UpsertMetrics(j) ==
    /\ pc[j] = "metrics"
    /\ \/ /\ metrics' = [metrics EXCEPT ![j] = TRUE]
          /\ Goto(j, After(j, "metrics")) /\ NoFault
       \/ /\ Fault
          /\ \/ metrics' = [metrics EXCEPT ![j] = TRUE]
             \/ UNCHANGED metrics
          /\ Raise(j)
    /\ UNCHANGED <<kind, span, need, told, run, rows, saved, unsaid, restarts>>

\* _load_reference_trades: unpacking the list that list_runs returns into
\* two names raises whatever the list holds, and with exactly two runs the
\* loop over the first one's fields does.  What follows it in run_research
\* (analytics, report, mark_completed) is not reached.
LoadReferenceTrades(j) ==
    /\ pc[j] = "reference"
    /\ Raise(j)
    /\ UNCHANGED <<kind, span, need, told, run, rows, saved, metrics, unsaid,
                   faults, restarts>>

\* mark_completed and the write of it.
Complete(j) ==
    /\ pc[j] = "complete"
    /\ Write(j, "COMPLETED", "ended")
    /\ told' = IF pc'[j] = "ended" THEN [told EXCEPT ![j] = "ok"] ELSE told
    /\ UNCHANGED <<kind, span, need, rows, saved, metrics, unsaid, restarts>>

\* The handler's own write, its failure swallowed, and the re-raise.
Fail(j) ==
    /\ pc[j] = "fail"
    /\ \/ run' = [run EXCEPT ![j] = "FAILED"] /\ NoFault /\ UNCHANGED unsaid
       \/ /\ Fault
          /\ unsaid' = [unsaid EXCEPT ![j] = TRUE]
          /\ \/ run' = [run EXCEPT ![j] = "FAILED"]
             \/ UNCHANGED run
    /\ Goto(j, "ended")
    /\ told' = [told EXCEPT ![j] = "error"]
    /\ UNCHANGED <<kind, span, need, rows, saved, metrics, restarts>>

\* The process restarts: the coroutines are gone, nothing repairs the
\* documents they left.
Restart ==
    /\ restarts < MaxRestarts
    /\ restarts' = restarts + 1
    /\ pc' = [j \in Jobs |-> IF pc[j] = "idle" THEN "idle" ELSE "ended"]
    /\ UNCHANGED <<kind, span, need, told, run, rows, saved, metrics, unsaid, faults>>

JobStep(j) ==
    \/ CreateRun(j) \/ MarkRunning(j) \/ LoadCandles(j) \/ FetchTradePnls(j)
    \/ Compute(j)
    \/ SaveTrades(j) \/ InsertSegments(j) \/ InsertResults(j)
    \/ SaveOptimizationResults(j) \/ Persisted(j)
    \/ UpsertMetrics(j) \/ LoadReferenceTrades(j) \/ Complete(j) \/ Fail(j)

RunsNext ==
    \/ \E j \in Jobs : JobStep(j) \/ \E k \in Kinds : Submit(j, k)
    \/ Restart

RunsSpec == RunsInit /\ [][RunsNext]_runsVars
-----------------------------------------------------------------------------
(* Properties. *)

\* MonteCarloService.get_reports answers 404 without result rows.
get_reports(j) == IF rows[j] > 0 THEN "reports" ELSE "not found"

\* A run stored as COMPLETED has its results stored in full: every row the
\* computation yielded exactly once, a backtest its metrics document too, and
\* the reports of a Monte Carlo or walk-forward run have something to show,
\* whichever writes failed, half failed or failed after taking effect, and
\* whatever a restart interrupted.
CompletedHasResults ==
    \A j \in Jobs : run[j] = "COMPLETED" =>
        /\ rows[j] = need[j]
        /\ kind[j] = "backtest" => metrics[j]
        /\ kind[j] \in {"monte_carlo", "walk_forward"} => get_reports(j) = "reports"

\* What the caller was told is what the run document says: an answer means
\* COMPLETED; an error after the run was created means FAILED, unless the
\* write of FAILED itself raised; and nobody reads COMPLETED for a run whose
\* caller got an error unless that happened.
AnswerMatchesRecord ==
    \A j \in Jobs :
        /\ told[j] = "ok" => run[j] = "COMPLETED"
        /\ told[j] = "error" /\ ~unsaid[j] => run[j] \in {None, "PENDING", "FAILED"}
        /\ run[j] = "COMPLETED" /\ pc[j] = "ended" /\ restarts = 0
              => told[j] = "ok" \/ unsaid[j]
=============================================================================
