---------------------------- MODULE OrhvPipeline ----------------------------
(***************************************************************************)
(* The nightly ORHV pipeline of one symbol over a calendar of days, and    *)
(* the run manager that starts it.                                         *)
(*                                                                         *)
(* A run for candidate day D syncs missing candles, detects the days that  *)
(* have none yet, syncs and detects D, validates D against the earlier     *)
(* candidates and reads the shortlist.  The scheduler starts it with       *)
(* ORHVRunManager.run, POST /orhv/run with start_background; POST          *)
(* /orhv/cycle detects and validates without asking the manager.  Runs     *)
(* interleave at every database call and any of them may raise.            *)
(*                                                                         *)
(* What a day's candles say (candidate or not, Phase 3 won or not) is the  *)
(* subject of OrhvStrategy; here it is a fixed table chosen at the start.  *)
(***************************************************************************)
EXTENDS Integers, FiniteSets, FiniteSetsExt, Optional

CONSTANTS
    LastDay,        \* calendar days 1 .. LastDay
    Weekend,        \* days without a session
    Tasks,          \* coroutines
    LookbackOccurrences, MinOccurrences, MinWins,
    MinWinRatePct,
    Tables,         \* what the days' candles may say: [candidate, win] sets
    MaxRuns         \* pipeline runs and endpoint calls

Days == 1 .. LastDay
IsTradingDay(d) == d \in Days /\ d \notin Weekend

ASSUME CalendarAssumption ==
    /\ LastDay \in Nat /\ MaxRuns \in Nat /\ Weekend \subseteq Days
    /\ \A w \in Tables : w.candidate \union w.win \subseteq Days \ Weekend

\* A held lock, a background task and a stored verdict are told from none.
ASSUME HolderAssumption == None \notin Tasks /\ None \notin BOOLEAN

VARIABLES
    candidate,    \* candidate[d]: the detector's verdict on d's candles
    win,          \* win[d]: the Phase 3 replay of d ends with a profit
    today,        \* last day whose session is over
    candles,      \* days with a stored candle bucket
    setups,       \* setups[d]: None, or is_candidate of the stored setup
    validations,  \* validations[d]: None, or the stored record
    state,        \* ORHVRunManager._state: running, and whether 24 h passed
    lock,         \* holder of ORHVRunManager._lock
    background,   \* _background_task
    task,         \* task[t]: the coroutine t
    orphaned,     \* a run() in progress was taken for stale
    runs          \* runs started

dataVars == <<candidate, win, today, candles, setups, validations>>
managerVars == <<state, lock, background, orphaned>>
orhvVars == <<candidate, win, today, candles, setups, validations,
              state, lock, background, orphaned, task, runs>>

NoTask == [pc |-> "idle", via |-> None, day |-> 0, todo |-> {}, prior |-> {}]
IdleTask(t) == task[t].pc = "idle"
Executing == {t \in Tasks : task[t].pc \notin {"idle", "lock"}
                            /\ task[t].via # "endpoint"}

OrhvInit ==
    /\ \E w \in Tables :
          /\ candidate = [d \in Days |-> d \in w.candidate]
          /\ win = [d \in Days |-> d \in w.win]
    /\ today = 1
    /\ candles = {}
    /\ setups = [d \in Days |-> None]
    /\ validations = [d \in Days |-> None]
    /\ state = [running |-> FALSE, aged |-> FALSE]
    /\ lock = None /\ background = None /\ orphaned = FALSE
    /\ task = [t \in Tasks |-> NoTask]
    /\ runs = 0
-----------------------------------------------------------------------------
(* Phase 2: the verdict on day d from earlier candidates. *)

\* get_candidates_before_date.
PriorSetups(d) == {s \in Days : s < d /\ setups[s] = TRUE}

\* The most recent occurrences, lookback_occurrences of them at most.
Selected(prior) ==
    {s \in prior : Cardinality({u \in prior : u > s}) < LookbackOccurrences}

\* _next_trading_date: first day of the history after s, 0 when none is.
NextTradingDate(s, history) ==
    LET later == {h \in history : h > s}
    IN  IF later = {} THEN 0 ELSE Min(later)

\* Mutant of LoadHistory: the next calendar day only.
LoadHistoryOneDay(prior) == {s + 1 : s \in prior} \intersect candles

\* _load_candle_history_for_validation: two calendar days after each setup.
LoadHistory(prior) ==
    UNION {{s + 1, s + 2} \intersect candles : s \in prior}

\* ORHVHistoricalValidator.validate.
validate(d, prior, history) ==
    LET chosen == Selected({s \in prior : s < d})
        trades == IF Cardinality(chosen) < MinOccurrences THEN {}
                  ELSE {<<s, NextTradingDate(s, history)>> :
                          s \in {c \in chosen : NextTradingDate(c, history) # 0}}
        used == Cardinality(trades)
        wins == Cardinality({p \in trades : win[p[2]]})
    IN  [trades |-> trades,
         wins |-> wins,
         tradable |-> /\ used >= MinOccurrences
                      /\ wins >= MinWins \/ wins * 100 >= MinWinRatePct * used]

\* The backtest engine's verdict on the same day: its setup history is what
\* the detector finds in the candles, its candle history all of them.
BacktestVerdict(d) ==
    validate(d, {s \in candles : s < d /\ candidate[s]}, candles)
-----------------------------------------------------------------------------
(* The run manager. *)

Start(t, via, pc, d) ==
    /\ runs < MaxRuns /\ runs' = runs + 1
    /\ task' = [task EXCEPT ![t] =
                [pc |-> pc, via |-> via, day |-> d, todo |-> {}, prior |-> {}]]
Running == [running |-> TRUE, aged |-> FALSE]
Stopped == [running |-> FALSE, aged |-> FALSE]

\* Candidate days a request may name: D is the trading day before the target.
MayTarget(d) == IsTradingDay(d) /\ d <= today

\* start_background takes no lock: it tests and sets the flag at once.
StartBackground(t, d) ==
    /\ IdleTask(t) /\ MayTarget(d) /\ ~state.running
    /\ state' = Running
    /\ background' = t
    /\ Start(t, "background", "backfill", d)
    /\ UNCHANGED <<dataVars, lock, orphaned>>

\* run: refused while running; then under the lock, which is free unless a
\* stale run still holds it.
RunCall(t, d) ==
    /\ IdleTask(t) /\ MayTarget(d) /\ ~state.running
    /\ IF lock = None
       THEN /\ lock' = t /\ state' = Running
            /\ Start(t, "run", "backfill", d)
       ELSE Start(t, "run", "lock", d) /\ UNCHANGED <<lock, state>>
    /\ UNCHANGED <<dataVars, background, orphaned>>

\* The second test of run, once the lock is obtained.
LockAcquired(t) ==
    /\ task[t].pc = "lock" /\ lock = None
    /\ IF state.running
       THEN task' = [task EXCEPT ![t] = NoTask] /\ UNCHANGED <<lock, state>>
       ELSE /\ lock' = t /\ state' = Running
            /\ task' = [task EXCEPT ![t].pc = "backfill"]
    /\ UNCHANGED <<dataVars, background, orphaned, runs>>

\* 24 hours pass over a run.
Age ==
    /\ state.running /\ ~state.aged
    /\ state' = [state EXCEPT !.aged = TRUE]
    /\ UNCHANGED <<dataVars, lock, background, orphaned, task, runs>>

\* Mutant of ResetIfStale: the background task is not cancelled.
ResetIfStaleKeepsTask ==
    /\ state.running /\ state.aged
    /\ state' = Stopped
    /\ orphaned' = (orphaned \/ \E t \in Tasks : t \in Executing /\ task[t].via = "run")
    /\ UNCHANGED <<dataVars, lock, background, task, runs>>

\* _reset_if_stale, on any look at the manager: the flag is dropped and the
\* background task cancelled; a run() in progress goes on.
ResetIfStale ==
    /\ state.running /\ state.aged
    /\ state' = Stopped
    /\ LET cancelled == background # None /\ task[background].via = "background"
       IN  task' = IF cancelled THEN [task EXCEPT ![background] = NoTask] ELSE task
    /\ orphaned' = (orphaned \/ \E t \in Tasks : t \in Executing /\ task[t].via = "run")
    /\ UNCHANGED <<dataVars, lock, background, runs>>

\* POST /orhv/cycle.
CycleEndpoint(t, d) ==
    /\ IdleTask(t) /\ MayTarget(d)
    /\ Start(t, "endpoint", "detect", d)
    /\ UNCHANGED <<dataVars, managerVars>>

\* The end of _execute, by return or by exception: the flag is dropped
\* whoever set it, and leaving run releases the lock.
Finish(t) ==
    /\ task' = [task EXCEPT ![t] = NoTask]
    /\ lock' = IF lock = t THEN None ELSE lock
    /\ state' = IF task[t].via = "endpoint" THEN state ELSE Stopped
    /\ UNCHANGED <<background, orphaned>>
-----------------------------------------------------------------------------
(* The steps of a run. *)

AtPc(t, pc) == task[t].pc = pc
GotoPc(t, pc) == task' = [task EXCEPT ![t].pc = pc]

\* sync_historical_data stores some of the days asked for; a failure of the
\* sync is caught and the pipeline goes on with what there is.
Sync(days) ==
    \E got \in SUBSET {d \in days : IsTradingDay(d)} :
        candles' = candles \union got

\* ensure_history_available: sync the lookback up to and including D if a day
\* is missing, then list the days with candles whose setups do not cover
\* enough of the universe.  The other symbols decide that, so a day may be
\* detected again, or left out although this symbol has no setup for it.
BackfillSync(t) ==
    /\ AtPc(t, "backfill")
    /\ Sync({d \in Days : d <= task[t].day})
    /\ \E listed \in SUBSET {d \in candles' : d < task[t].day} :
          task' = [task EXCEPT ![t].todo = listed, ![t].pc = "history"]
    /\ UNCHANGED <<candidate, win, today, setups, validations, managerVars, runs>>

\* run_detection_for_date of the listed days, oldest first; a day whose
\* detection raises is logged and skipped.
BackfillDetect(t) ==
    /\ AtPc(t, "history") /\ task[t].todo # {}
    /\ LET d == Min(task[t].todo)
       IN  /\ \/ setups' = [setups EXCEPT ![d] = candidate[d]]
              \/ UNCHANGED setups
           /\ task' = [task EXCEPT ![t].todo = @ \ {d}]
    /\ UNCHANGED <<candidate, win, today, candles, validations, managerVars, runs>>

SyncDay(t) ==
    /\ AtPc(t, "history") /\ task[t].todo = {}
    /\ Sync({task[t].day})
    /\ GotoPc(t, "detect")
    /\ UNCHANGED <<candidate, win, today, setups, validations, managerVars, runs>>

\* _detect_and_store: nothing without candles.
Detect(t) ==
    /\ AtPc(t, "detect")
    /\ LET d == task[t].day
       IN  \/ d \in candles /\ setups' = [setups EXCEPT ![d] = candidate[d]]
           \/ UNCHANGED setups
    /\ GotoPc(t, "validate")
    /\ UNCHANGED <<candidate, win, today, candles, validations, managerVars, runs>>

\* run_validation_for_date: only a stored candidate is validated.
ReadPriorSetups(t) ==
    /\ AtPc(t, "validate")
    /\ IF setups[task[t].day] = TRUE
       THEN task' = [task EXCEPT ![t].prior = PriorSetups(task[t].day),
                                 ![t].pc = "store"]
       ELSE GotoPc(t, "shortlist")
    /\ UNCHANGED <<dataVars, managerVars, runs>>

\* _validate_and_store: the candles are read after the setups; a failure
\* keeps the record of an earlier run.
ValidateAndStore(t) ==
    /\ AtPc(t, "store")
    /\ LET d == task[t].day
           p == task[t].prior
       IN  \/ validations' = [validations EXCEPT ![d] = validate(d, p, LoadHistory(p))]
           \/ UNCHANGED validations
    /\ GotoPc(t, "shortlist")
    /\ UNCHANGED <<candidate, win, today, candles, setups, managerVars, runs>>

Shortlist(t) ==
    /\ AtPc(t, "shortlist")
    /\ Finish(t)
    /\ UNCHANGED <<dataVars, runs>>

\* A database call outside the per-symbol handlers raises.
Fails(t) ==
    /\ ~IdleTask(t) /\ ~AtPc(t, "lock")
    /\ Finish(t)
    /\ UNCHANGED <<dataVars, runs>>

\* The session of the next calendar day ends; the end-of-day sync job
\* stores its candles, or fails to.
NextDay ==
    /\ today < LastDay
    /\ today' = today + 1
    /\ Sync({today'})
    /\ UNCHANGED <<candidate, win, setups, validations, managerVars, task, runs>>

TaskStep(t) ==
    \/ LockAcquired(t) \/ BackfillSync(t) \/ BackfillDetect(t) \/ SyncDay(t)
    \/ Detect(t) \/ ReadPriorSetups(t) \/ ValidateAndStore(t) \/ Shortlist(t)
    \/ Fails(t)

OrhvNext ==
    \/ \E t \in Tasks :
          \/ TaskStep(t)
          \/ \E d \in Days : StartBackground(t, d) \/ RunCall(t, d) \/ CycleEndpoint(t, d)
    \/ Age \/ ResetIfStale \/ NextDay

OrhvSpec == OrhvInit /\ [][OrhvNext]_orhvVars

-----------------------------------------------------------------------------
(* Properties. *)

\* The manager runs one pipeline at a time, and says so: its flag is up
\* exactly while a managed run executes.  A background run that outlives 24
\* hours is cancelled and the property survives it; a run() that does is
\* left executing with the flag down, and from then on it is lost.
SingleFlight ==
    ~orphaned => /\ Cardinality(Executing) <= 1
                 /\ state.running <=> Executing # {}

\* The verdict that decides on live trades is the one the backtest measured:
\* once all earlier candle days are detected, the nightly validation of a
\* day and the backtest's use the same occurrences, trade days and wins,
\* if every earlier candidate has candles within two calendar days (a
\* Friday candidate does not).  And no stored verdict on day d looks at
\* candles after d.
NightlyMatchesBacktest ==
    /\ \A d \in candles :
          /\ \A s \in candles : s < d => setups[s] # None
          /\ \A s \in PriorSetups(d) : {s + 1, s + 2} \intersect candles # {}
          => validate(d, PriorSetups(d), LoadHistory(PriorSetups(d)))
                = BacktestVerdict(d)
    /\ \A d \in Days : validations[d] # None =>
          \A p \in validations[d].trades : p[1] < d /\ p[1] < p[2] /\ p[2] <= d
=============================================================================
