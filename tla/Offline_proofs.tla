--------------------------- MODULE Offline_proofs ---------------------------
(***************************************************************************)
(* Proofs about the offline side of the system: the ORHV strategy (the     *)
(* manager of its nightly pipeline, the verdict the pipeline stores, one   *)
(* day of its candles), the windows a walk-forward run cuts its history    *)
(* into and its summary of them, the research run services and the         *)
(* strategy lab.                                                           *)
(***************************************************************************)
EXTENDS OrhvPipeline, OrhvStrategy, WalkForward, ResearchRuns, StrategyLab,
        SumLemmas, SequenceTheorems, TLAPS

-----------------------------------------------------------------------------
(* The nightly ORHV pipeline.  One managed run at a time, for any number of  *)
(* tasks, calls and days, and whatever the runs' database calls do.          *)

Pcs == {"idle", "lock", "backfill", "history", "detect", "validate", "store", "shortlist"}
Coroutines == [pc : Pcs, via : {None, "run", "background", "endpoint"},
               day : {0} \union Days, todo : SUBSET Days, prior : SUBSET Days]

FlightTypeOK ==
    /\ task \in [Tasks -> Coroutines]
    /\ state \in [running : BOOLEAN, aged : BOOLEAN]
    /\ orphaned \in BOOLEAN /\ background \in {None} \union Tasks
    /\ candles \subseteq Days

(* A managed run executes.                                                   *)
InFlight(t) == task[t].pc \notin {"idle", "lock"} /\ task[t].via # "endpoint"

(* While no run() was taken for stale: the flag is up exactly while a run    *)
(* executes, there is one, and one in the background is what a reset cancels.*)
FlightKept ==
    /\ \A t, u \in Tasks : InFlight(t) /\ InFlight(u) => t = u
    /\ state.running <=> \E t \in Tasks : InFlight(t)
    /\ \A t \in Tasks : InFlight(t) =>
          task[t].via = "run" \/ (task[t].via = "background" /\ background = t)

(* Only a run() waits for the lock.                                          *)
FlightInv ==
    /\ FlightTypeOK
    /\ \A t \in Tasks : task[t].pc = "lock" => task[t].via = "run"
    /\ ~orphaned => FlightKept

LEMMA FlightInit == OrhvInit => FlightInv
<1> SUFFICES ASSUME OrhvInit PROVE FlightInv
  OBVIOUS
<1>1. NoTask \in Coroutines
  BY DEF NoTask, Coroutines, Pcs
<1>2. FlightTypeOK
  BY <1>1 DEF OrhvInit, FlightTypeOK
<1>3. \A t \in Tasks : task[t].pc = "idle"
  BY DEF OrhvInit, NoTask
<1> QED
  BY <1>2, <1>3 DEF OrhvInit, FlightInv, FlightKept, InFlight

(* A step of one coroutine that neither starts nor ends a run.               *)
LEMMA FlightContinues ==
  ASSUME FlightInv, NEW t \in Tasks, task' = [task EXCEPT ![t] = task'[t]],
         task'[t] \in Coroutines, task'[t].via = task[t].via,
         task[t].pc \notin {"idle", "lock"}, task'[t].pc \notin {"idle", "lock"},
         candles' \subseteq Days, UNCHANGED <<state, background, orphaned>>
  PROVE  FlightInv'
<1>1. FlightTypeOK'
  BY DEF FlightInv, FlightTypeOK
<1>2. \A u \in Tasks : /\ InFlight(u)' <=> InFlight(u)
                       /\ task'[u].via = task[u].via
                       /\ task'[u].pc = "lock" => task[u].pc = "lock"
  BY DEF FlightInv, FlightTypeOK, InFlight
<1> QED
  BY <1>1, <1>2 DEF FlightInv, FlightKept

(* A run starts: the flag was down, so nothing was in flight.                *)
LEMMA FlightStarts ==
  ASSUME FlightInv, NEW t \in Tasks, task' = [task EXCEPT ![t] = task'[t]],
         task'[t] \in Coroutines, task'[t].pc = "backfill", ~state.running, state' = Running,
         \/ task'[t].via = "run" /\ background' = background
         \/ task'[t].via = "background" /\ background' = t,
         candles' = candles, orphaned' = orphaned
  PROVE  FlightInv'
<1>1. FlightTypeOK'
  BY DEF FlightInv, FlightTypeOK, Running
<1>2. \A u \in Tasks : u # t => task'[u] = task[u]
  BY DEF FlightInv, FlightTypeOK
<1>3. ASSUME ~orphaned' PROVE FlightKept'
  <2>1. \A u \in Tasks : InFlight(u)' <=> u = t
    BY <1>2, <1>3 DEF FlightInv, FlightKept, InFlight
  <2> QED
    BY <2>1 DEF FlightKept, Running
<1> QED
  BY <1>1, <1>2, <1>3 DEF FlightInv

(* A task that is not a managed run comes, goes or begins to wait.           *)
LEMMA FlightBeside ==
  ASSUME FlightInv, NEW t \in Tasks, task' = [task EXCEPT ![t] = task'[t]],
         task'[t] \in Coroutines, ~InFlight(t), ~InFlight(t)',
         task'[t].pc = "lock" => task'[t].via = "run",
         candles' = candles, UNCHANGED <<state, background, orphaned>>
  PROVE  FlightInv'
<1>1. FlightTypeOK'
  BY DEF FlightInv, FlightTypeOK
<1>2. \A u \in Tasks : u # t => task'[u] = task[u]
  BY DEF FlightInv, FlightTypeOK
<1>3. \A u \in Tasks : InFlight(u)' <=> InFlight(u)
  BY <1>2 DEF InFlight
<1>4. \A u \in Tasks : InFlight(u) => task'[u] = task[u]
  BY <1>2
<1> QED
  BY <1>1, <1>2, <1>3, <1>4 DEF FlightInv, FlightKept

LEMMA FlightEnds ==
  ASSUME FlightInv, NEW t \in Tasks, task[t].pc \notin {"idle", "lock"}, Finish(t),
         candles' = candles
  PROVE  FlightInv'
<1>1. NoTask \in Coroutines /\ NoTask.pc = "idle"
  BY DEF NoTask, Coroutines, Pcs
<1>2. /\ task' = [task EXCEPT ![t] = NoTask] /\ task'[t] = NoTask
      /\ UNCHANGED <<background, orphaned>>
  BY DEF Finish, FlightInv, FlightTypeOK
<1>3. CASE task[t].via = "endpoint"
  <2>1. state' = state
    BY <1>3 DEF Finish
  <2> QED
    BY <1>1, <1>2, <1>3, <2>1, FlightBeside DEF InFlight
<1>4. CASE task[t].via # "endpoint"
  <2>1. state' = Stopped
    BY <1>4 DEF Finish
  <2>2. FlightTypeOK'
    BY <1>1, <1>2, <2>1 DEF FlightInv, FlightTypeOK, Stopped
  <2>3. \A u \in Tasks : u # t => task'[u] = task[u]
    BY <1>2 DEF FlightInv, FlightTypeOK
  <2>4. ASSUME ~orphaned' PROVE FlightKept'
    <3>1. \A u \in Tasks : ~InFlight(u)'
      BY <1>1, <1>2, <1>4, <2>3, <2>4 DEF FlightInv, FlightKept, InFlight
    <3> QED
      BY <2>1, <3>1 DEF FlightKept, Stopped
  <2> QED
    BY <1>1, <1>2, <2>2, <2>3, <2>4 DEF FlightInv
<1> QED
  BY <1>3, <1>4

(* A reset takes the flag down.  No run() is in flight, or the claim ends    *)
(* here; a background run is the manager's task and is cancelled.            *)
LEMMA FlightReset ==
  ASSUME FlightInv, ResetIfStale
  PROVE  FlightInv'
<1> DEFINE cancelled == background # None /\ task[background].via = "background"
<1>1. /\ state' = Stopped /\ UNCHANGED <<background, candles>>
      /\ task' = IF cancelled THEN [task EXCEPT ![background] = NoTask] ELSE task
      /\ orphaned' = (orphaned \/ \E t \in Tasks : t \in Executing /\ task[t].via = "run")
  BY DEF ResetIfStale, dataVars
<1>2. NoTask \in Coroutines /\ NoTask.pc = "idle"
  BY DEF NoTask, Coroutines, Pcs
<1>3. FlightTypeOK'
  BY <1>1, <1>2 DEF FlightInv, FlightTypeOK, Stopped
<1>4. \A u \in Tasks : task'[u] = task[u] \/ task'[u] = NoTask
  BY <1>1 DEF FlightInv, FlightTypeOK
<1>5. ASSUME ~orphaned' PROVE FlightKept'
  <2>1. ~orphaned /\ \A t \in Tasks : ~(InFlight(t) /\ task[t].via = "run")
    BY <1>1, <1>5 DEF Executing, InFlight
  <2>2. ASSUME NEW t \in Tasks, InFlight(t) PROVE task'[t] = NoTask
    <3>1. task[t].via = "background" /\ background = t
      BY <2>1, <2>2 DEF FlightInv, FlightKept
    <3> QED
      BY <1>1, <3>1, HolderAssumption DEF FlightInv, FlightTypeOK
  <2>3. \A t \in Tasks : ~InFlight(t)'
    BY <1>2, <1>4, <2>2 DEF InFlight
  <2> QED
    BY <1>1, <2>3 DEF FlightKept, Stopped
<1> QED
  BY <1>2, <1>3, <1>4, <1>5 DEF FlightInv

(* The calls of the manager and of the endpoint.                             *)
LEMMA FlightCalled ==
  ASSUME FlightInv, NEW t \in Tasks, NEW d \in Days,
         StartBackground(t, d) \/ RunCall(t, d) \/ CycleEndpoint(t, d)
  PROVE  FlightInv'
<1> DEFINE New(place, means) == [pc |-> place, via |-> means, day |-> d, todo |-> {}, prior |-> {}]
<1>1. \A place \in Pcs, means \in {"run", "background", "endpoint"} :
         /\ New(place, means) \in Coroutines
         /\ New(place, means).pc = place /\ New(place, means).via = means
  BY DEF Coroutines
<1>2. task[t].pc = "idle" /\ ~InFlight(t)
  BY DEF StartBackground, RunCall, CycleEndpoint, IdleTask, InFlight
<1>3. DOMAIN task = Tasks
  BY DEF FlightInv, FlightTypeOK
<1>4. CASE StartBackground(t, d)
  <2>1. /\ task' = [task EXCEPT ![t] = New("backfill", "background")]
        /\ ~state.running /\ state' = Running /\ background' = t
        /\ UNCHANGED <<candles, orphaned>>
    BY <1>4 DEF StartBackground, Start, dataVars
  <2>2. task'[t] = New("backfill", "background")
    BY <1>3, <2>1
  <2> HIDE DEF New
  <2> QED
    BY <1>1, <2>1, <2>2, FlightStarts DEF Pcs
<1>5. CASE RunCall(t, d) /\ lock = None
  <2>1. /\ task' = [task EXCEPT ![t] = New("backfill", "run")]
        /\ ~state.running /\ state' = Running
        /\ UNCHANGED <<candles, orphaned, background>>
    BY <1>5 DEF RunCall, Start, dataVars
  <2>2. task'[t] = New("backfill", "run")
    BY <1>3, <2>1
  <2> HIDE DEF New
  <2> QED
    BY <1>1, <2>1, <2>2, FlightStarts DEF Pcs
<1>6. CASE RunCall(t, d) /\ lock # None
  <2>1. /\ task' = [task EXCEPT ![t] = New("lock", "run")]
        /\ UNCHANGED <<candles, orphaned, background, state>>
    BY <1>6 DEF RunCall, Start, dataVars
  <2>2. task'[t] = New("lock", "run")
    BY <1>3, <2>1
  <2> HIDE DEF New
  <2>3. ~InFlight(t)'
    BY <1>1, <2>2 DEF InFlight, Pcs
  <2> QED
    BY <1>1, <1>2, <2>1, <2>2, <2>3, FlightBeside DEF Pcs
<1>7. CASE CycleEndpoint(t, d)
  <2>1. /\ task' = [task EXCEPT ![t] = New("detect", "endpoint")]
        /\ UNCHANGED <<candles, orphaned, background, state>>
    BY <1>7 DEF CycleEndpoint, Start, dataVars, managerVars
  <2>2. task'[t] = New("detect", "endpoint")
    BY <1>3, <2>1
  <2> HIDE DEF New
  <2>3. task'[t].pc = "detect" /\ ~InFlight(t)'
    BY <1>1, <2>2 DEF InFlight, Pcs
  <2> QED
    BY <1>1, <1>2, <2>1, <2>2, <2>3, FlightBeside DEF Pcs
<1> QED
  BY <1>4, <1>5, <1>6, <1>7

(* run(), once it has the lock, tests the flag again.                        *)
LEMMA FlightLocked ==
  ASSUME FlightInv, NEW t \in Tasks, LockAcquired(t)
  PROVE  FlightInv'
<1>1. task[t].pc = "lock" /\ task[t].via = "run" /\ task[t] \in Coroutines /\ ~InFlight(t)
      /\ UNCHANGED <<background, orphaned, candles>>
  BY DEF LockAcquired, FlightInv, FlightTypeOK, InFlight, dataVars
<1>2. CASE state.running
  <2>1. NoTask \in Coroutines /\ NoTask.pc = "idle"
    BY DEF NoTask, Coroutines, Pcs
  <2>2. task' = [task EXCEPT ![t] = NoTask] /\ task'[t] = NoTask /\ state' = state
    BY <1>2 DEF LockAcquired, FlightInv, FlightTypeOK
  <2> QED
    BY <1>1, <2>1, <2>2, FlightBeside DEF InFlight
<1>3. CASE ~state.running
  <2>1. task' = [task EXCEPT ![t].pc = "backfill"] /\ state' = Running
    BY <1>3 DEF LockAcquired
  <2>2. task'[t] = [task[t] EXCEPT !.pc = "backfill"]
    BY <2>1 DEF FlightInv, FlightTypeOK
  <2>3. task'[t] \in Coroutines /\ task'[t].pc = "backfill" /\ task'[t].via = "run"
    BY <1>1, <2>2 DEF Coroutines, Pcs
  <2>4. task' = [task EXCEPT ![t] = task'[t]]
    BY <2>1, <2>2
  <2> QED
    BY <1>1, <1>3, <2>1, <2>3, <2>4, FlightStarts
<1> QED
  BY <1>2, <1>3

(* The pipeline's own steps.                                                 *)
LEMMA FlightWorks ==
  ASSUME FlightInv, NEW t \in Tasks,
         \/ BackfillSync(t) \/ BackfillDetect(t) \/ SyncDay(t) \/ Detect(t)
         \/ ReadPriorSetups(t) \/ ValidateAndStore(t)
  PROVE  FlightInv'
<1>1. task[t] \in Coroutines /\ DOMAIN task = Tasks
  BY DEF FlightInv, FlightTypeOK
<1>2. candles' \subseteq Days /\ UNCHANGED <<state, background, orphaned>>
  BY DEF BackfillSync, BackfillDetect, SyncDay, Detect, ReadPriorSetups, ValidateAndStore, Sync,
     IsTradingDay, dataVars, managerVars, FlightInv, FlightTypeOK
<1>3. /\ task[t].pc \in {"backfill", "history", "detect", "validate", "store"}
      /\ \E place \in {"history", "detect", "validate", "store", "shortlist"},
            todo, prior \in SUBSET Days :
           task' = [task EXCEPT ![t] = [task[t] EXCEPT !.pc = place, !.todo = todo, !.prior = prior]]
  <2>1. CASE BackfillSync(t)
    <3>1. PICK listed \in SUBSET {d \in candles' : d < task[t].day} :
             task' = [task EXCEPT ![t].todo = listed, ![t].pc = "history"]
      BY <2>1 DEF BackfillSync
    <3>2. listed \in SUBSET Days
      BY <1>2
    <3>3. task' = [task EXCEPT ![t] = [task[t] EXCEPT !.pc = "history", !.todo = listed,
                                                      !.prior = task[t].prior]]
      BY <1>1, <3>1 DEF Coroutines
    <3> QED
      BY <1>1, <2>1, <3>2, <3>3 DEF BackfillSync, AtPc, Coroutines
  <2>2. CASE BackfillDetect(t)
    <3>1. PICK d : task' = [task EXCEPT ![t].todo = task[t].todo \ {d}]
      BY <1>1, <2>2 DEF BackfillDetect
    <3>2. task[t].pc = "history" /\ task[t].todo \ {d} \in SUBSET Days
      BY <1>1, <2>2 DEF BackfillDetect, AtPc, Coroutines
    <3>3. task' = [task EXCEPT ![t] = [task[t] EXCEPT !.pc = "history", !.todo = task[t].todo \ {d},
                                                      !.prior = task[t].prior]]
      BY <1>1, <3>1, <3>2 DEF Coroutines
    <3> QED
      BY <1>1, <3>2, <3>3 DEF Coroutines
  <2>3. CASE ReadPriorSetups(t) /\ setups[task[t].day] = TRUE
    <3>1. task' = [task EXCEPT ![t].prior = PriorSetups(task[t].day), ![t].pc = "store"]
      BY <2>3 DEF ReadPriorSetups
    <3>2. PriorSetups(task[t].day) \in SUBSET Days
      BY DEF PriorSetups
    <3> HIDE DEF PriorSetups
    <3>3. task' = [task EXCEPT ![t] = [task[t] EXCEPT !.pc = "store", !.todo = task[t].todo,
                                                      !.prior = PriorSetups(task[t].day)]]
      BY <1>1, <3>1 DEF Coroutines
    <3> QED
      BY <1>1, <2>3, <3>2, <3>3 DEF ReadPriorSetups, AtPc, Coroutines
  <2>4. CASE \/ SyncDay(t) \/ Detect(t) \/ ValidateAndStore(t)
             \/ ReadPriorSetups(t) /\ setups[task[t].day] # TRUE
    <3>1. /\ task[t].pc \in {"history", "detect", "validate", "store"}
          /\ \E place \in {"detect", "validate", "shortlist"} : GotoPc(t, place)
      BY <2>4 DEF SyncDay, Detect, ValidateAndStore, ReadPriorSetups, AtPc
    <3>2. PICK place \in {"detect", "validate", "shortlist"} : task' = [task EXCEPT ![t].pc = place]
      BY <3>1 DEF GotoPc
    <3>3. task' = [task EXCEPT ![t] = [task[t] EXCEPT !.pc = place, !.todo = task[t].todo,
                                                      !.prior = task[t].prior]]
      BY <1>1, <3>2 DEF Coroutines
    <3> QED
      BY <1>1, <3>1, <3>3 DEF Coroutines
  <2> QED
    BY <2>1, <2>2, <2>3, <2>4
<1>4. /\ task'[t] \in Coroutines /\ task'[t].via = task[t].via
      /\ task'[t].pc \notin {"idle", "lock"} /\ task' = [task EXCEPT ![t] = task'[t]]
  <2>1. PICK place \in {"history", "detect", "validate", "store", "shortlist"},
             todo, prior \in SUBSET Days :
          task' = [task EXCEPT ![t] = [task[t] EXCEPT !.pc = place, !.todo = todo,
                                                      !.prior = prior]]
    BY <1>3
  <2>2. task'[t] = [task[t] EXCEPT !.pc = place, !.todo = todo, !.prior = prior]
    BY <1>1, <2>1
  <2>3. place \in Pcs \ {"idle", "lock"}
    BY DEF Pcs
  <2>4. /\ task'[t] \in Coroutines /\ task'[t].via = task[t].via /\ task'[t].pc = place
    BY <1>1, <2>2, <2>3 DEF Coroutines
  <2>5. task' = [task EXCEPT ![t] = task'[t]]
    BY <2>1, <2>2
  <2> QED
    BY <2>3, <2>4, <2>5
<1>5. task[t].pc \notin {"idle", "lock"}
  BY <1>3
<1> QED
  BY <1>2, <1>4, <1>5, FlightContinues

LEMMA FlightNext ==
  ASSUME FlightInv, [OrhvNext]_orhvVars
  PROVE  FlightInv'
<1>1. CASE UNCHANGED orhvVars
  BY <1>1 DEF orhvVars, FlightInv, FlightTypeOK, FlightKept, InFlight
<1>2. ASSUME NEW t \in Tasks, NEW d \in Days,
             StartBackground(t, d) \/ RunCall(t, d) \/ CycleEndpoint(t, d)
      PROVE  FlightInv'
  BY <1>2, FlightCalled
<1>3. ASSUME NEW t \in Tasks, TaskStep(t) PROVE FlightInv'
  <2>1. CASE LockAcquired(t)
    BY <2>1, FlightLocked
  <2>2. CASE Shortlist(t) \/ Fails(t)
    <3>1. task[t].pc \notin {"idle", "lock"} /\ Finish(t) /\ candles' = candles
      BY <2>2 DEF Shortlist, Fails, IdleTask, AtPc, dataVars
    <3> QED
      BY <3>1, FlightEnds
  <2>3. CASE ~(LockAcquired(t) \/ Shortlist(t) \/ Fails(t))
    BY <1>3, <2>3, FlightWorks DEF TaskStep
  <2> QED
    BY <2>1, <2>2, <2>3
<1>4. CASE Age
  <2>1. /\ UNCHANGED <<task, background, orphaned, candles>>
        /\ state' \in [running : BOOLEAN, aged : BOOLEAN] /\ state'.running = state.running
    BY <1>4 DEF Age, dataVars, FlightInv, FlightTypeOK
  <2> QED
    BY <2>1 DEF FlightInv, FlightTypeOK, FlightKept, InFlight
<1>5. CASE ResetIfStale
  BY <1>5, FlightReset
<1>6. CASE NextDay
  <2>1. UNCHANGED <<task, state, background, orphaned>> /\ candles' \subseteq Days
    BY <1>6 DEF NextDay, Sync, IsTradingDay, managerVars, FlightInv, FlightTypeOK
  <2> QED
    BY <2>1 DEF FlightInv, FlightTypeOK, FlightKept, InFlight
<1> QED
  BY <1>1, <1>2, <1>3, <1>4, <1>5, <1>6 DEF OrhvNext

(* The manager's flag, lock and background task belong to one run: the       *)
(* inductive invariant (ORHVRunManager).                                     *)
THEOREM FlightInvariant == OrhvSpec => []FlightInv
<1>1. FlightInv /\ [OrhvNext]_orhvVars => FlightInv'
  BY FlightNext
<1> QED
  BY <1>1, FlightInit, PTL DEF OrhvSpec

(* However scheduler, operators and stale resets overlap, and whatever the   *)
(* database does, at most one managed pipeline executes and the flag says so,*)
(* until a run() is taken for stale (ORHVRunManager.run, start_background).  *)
THEOREM SingleFlightTheorem == OrhvSpec => []SingleFlight
<1>1. ASSUME FlightInv, ~orphaned
      PROVE  Cardinality(Executing) <= 1 /\ (state.running <=> Executing # {})
  <2>1. FlightKept /\ \A t \in Tasks : t \in Executing <=> InFlight(t)
    BY <1>1 DEF FlightInv, Executing, InFlight
  <2>2. Executing \subseteq Tasks
    BY DEF Executing
  <2>3. CASE Executing = {}
    <3>1. Cardinality({}) = 0
      BY FS_EmptySet
    <3> QED
      BY <2>1, <2>3, <3>1 DEF FlightKept
  <2>4. CASE Executing # {}
    <3>1. PICK t \in Tasks : t \in Executing
      BY <2>2, <2>4
    <3>2. Executing = {t}
      BY <2>1, <2>2, <3>1 DEF FlightKept
    <3>3. Cardinality({t}) = 1
      BY FS_Singleton
    <3> QED
      BY <2>1, <3>1, <3>2, <3>3 DEF FlightKept
  <2> QED
    BY <2>3, <2>4
<1>2. FlightInv => SingleFlight
  BY <1>1 DEF SingleFlight
<1> QED
  BY <1>2, FlightInvariant, PTL

-----------------------------------------------------------------------------
(* The nightly validation and the backtest reach the same verdict.           *)

LEMMA DaysAreIntegers == Days \subseteq Nat
BY CalendarAssumption DEF Days

LEMMA MinIs ==
  ASSUME NEW S \in SUBSET Int, NEW m \in S, \A y \in S : m <= y
  PROVE  Min(S) = m
<1>1. \A x \in S : (\A y \in S : x =< y) => x = m
  OBVIOUS
<1> QED
  BY <1>1 DEF Min

LEMMA FirstDay ==
  ASSUME NEW S \in SUBSET Days, S # {}
  PROVE  Min(S) \in S /\ \A y \in S : Min(S) <= y
<1>1. IsFiniteSet(1 .. LastDay)
  BY CalendarAssumption, FS_Interval
<1>2. IsFiniteSet(S)
  BY <1>1, FS_Subset DEF Days
<1>3. S \in SUBSET Nat /\ S \in SUBSET Int
  BY DaysAreIntegers
<1>4. PICK m \in S : \A y \in S : m <= y
  BY <1>2, <1>3, LeastExists
<1> QED
  BY <1>3, <1>4, MinIs

LEMMA SelectedArePrior == \A prior : Selected(prior) \subseteq prior
BY DEF Selected

LEMMA HistoryIsStored == \A prior : LoadHistory(prior) \subseteq candles
BY DEF LoadHistory

(* The occurrences a validation trades on, with the day of each trade.       *)
Occurrences(d, prior) == Selected({s \in prior : s < d})
TradesOn(d, prior, history) ==
    IF Cardinality(Occurrences(d, prior)) < MinOccurrences THEN {}
    ELSE {<<s, NextTradingDate(s, history)>> :
             s \in {c \in Occurrences(d, prior) : NextTradingDate(c, history) # 0}}
Judge(chosen) ==
    LET used == Cardinality(chosen)
        wins == Cardinality({p \in chosen : win[p[2]]})
    IN  [trades |-> chosen, wins |-> wins,
         tradable |-> /\ used >= MinOccurrences
                      /\ wins >= MinWins \/ wins * 100 >= MinWinRatePct * used]

LEMMA ValidateJudgesTrades ==
  \A d, prior, history : validate(d, prior, history) = Judge(TradesOn(d, prior, history))
<1> TAKE d, prior, history
<1> DEFINE T == TradesOn(d, prior, history)
           wins == Cardinality({p \in T : win[p[2]]})
<1>1. /\ validate(d, prior, history).trades = T
      /\ validate(d, prior, history).wins = wins
      /\ validate(d, prior, history).tradable
            = (Cardinality(T) >= MinOccurrences
               /\ (wins >= MinWins \/ wins * 100 >= MinWinRatePct * Cardinality(T)))
  BY DEF validate, TradesOn, Occurrences
<1>2. validate(d, prior, history) = [trades |-> validate(d, prior, history).trades,
                                     wins |-> validate(d, prior, history).wins,
                                     tradable |-> validate(d, prior, history).tradable]
  BY DEF validate
<1> HIDE DEF T
<1> QED
  BY <1>1, <1>2 DEF Judge, T

(* Two histories with the same next day after every occurrence give the same *)
(* verdict.                                                                  *)
LEMMA SameNextDaySameVerdict ==
  ASSUME NEW d, NEW prior, NEW h1, NEW h2,
         \A s \in Occurrences(d, prior) : NextTradingDate(s, h1) = NextTradingDate(s, h2)
  PROVE  validate(d, prior, h1) = validate(d, prior, h2)
<1>1. TradesOn(d, prior, h1) = TradesOn(d, prior, h2)
  <2>1. {<<s, NextTradingDate(s, h1)>> :
            s \in {c \in Occurrences(d, prior) : NextTradingDate(c, h1) # 0}}
        = {<<s, NextTradingDate(s, h2)>> :
            s \in {c \in Occurrences(d, prior) : NextTradingDate(c, h2) # 0}}
    OBVIOUS
  <2> QED
    BY <2>1 DEF TradesOn
<1> QED
  BY <1>1, ValidateJudgesTrades

LEMMA NextTradingDateIs ==
  ASSUME NEW s \in Days, NEW history \in SUBSET Days, NextTradingDate(s, history) # 0
  PROVE  /\ NextTradingDate(s, history) \in history /\ s < NextTradingDate(s, history)
         /\ \A h \in history : s < h => NextTradingDate(s, history) <= h
<1> DEFINE later == {h \in history : h > s}
<1>1. later # {} /\ NextTradingDate(s, history) = Min(later)
  BY DEF NextTradingDate
<1>2. later \in SUBSET Days
  OBVIOUS
<1>3. Min(later) \in later /\ \A y \in later : Min(later) <= y
  <2> HIDE DEF later
  <2> QED
    BY <1>1, <1>2, FirstDay
<1> QED
  BY <1>1, <1>3, DaysAreIntegers

(* A candidate with candles within two calendar days is followed by the same *)
(* day in the history the nightly validation loads and in all candles.       *)
LEMMA WindowFindsNextDay ==
  ASSUME candles \subseteq Days, NEW prior \in SUBSET Days, NEW s \in prior,
         {s + 1, s + 2} \intersect candles # {}
  PROVE  NextTradingDate(s, LoadHistory(prior)) = NextTradingDate(s, candles)
<1> DEFINE m == IF s + 1 \in candles THEN s + 1 ELSE s + 2
<1>1. s \in Nat /\ candles \subseteq Nat
  BY DaysAreIntegers
<1>2. m \in candles /\ m > s /\ \A h \in candles : h > s => m <= h
  BY <1>1
<1>3. m \in LoadHistory(prior)
  BY <1>2 DEF LoadHistory
<1>4. ASSUME NEW H \in SUBSET candles, m \in H PROVE NextTradingDate(s, H) = m
  <2> DEFINE later == {h \in H : h > s}
  <2>1. m \in later /\ \A h \in later : m <= h
    <3> HIDE DEF m
    <3> QED
      BY <1>2, <1>4
  <2>2. later \in SUBSET Int
    <3>1. later \subseteq candles
      OBVIOUS
    <3>2. candles \subseteq Int
      BY <1>1
    <3> HIDE DEF later, m
    <3> QED
      BY <3>1, <3>2
  <2>3. Min(later) = m /\ later # {}
    <3> HIDE DEF later, m
    <3> QED
      BY <2>1, <2>2, MinIs
  <2> QED
    BY <2>3 DEF NextTradingDate
<1> HIDE DEF m
<1> QED
  BY <1>2, <1>3, <1>4, HistoryIsStored

(* No trade of a validation of day d lies after d.                           *)
LEMMA ValidationLooksBack ==
  ASSUME candles \subseteq Days, NEW d \in candles, NEW prior \in SUBSET Days,
         \A s \in prior : s < d
  PROVE  \A p \in validate(d, prior, LoadHistory(prior)).trades :
            p[1] < d /\ p[1] < p[2] /\ p[2] <= d
<1> DEFINE H == LoadHistory(prior)
<1>1. validate(d, prior, H).trades = TradesOn(d, prior, H)
  BY ValidateJudgesTrades DEF Judge
<1>2. H \in SUBSET Days /\ d \in Nat
  BY HistoryIsStored, DaysAreIntegers
<1>3. \A h \in H : \E r \in prior : h = r + 1 \/ h = r + 2
  BY DEF LoadHistory
<1>4. \A r \in prior : r + 1 = d => d \in H
  BY DEF LoadHistory
<1> HIDE DEF H
<1>5. ASSUME NEW p \in TradesOn(d, prior, H)
      PROVE  p[1] < d /\ p[1] < p[2] /\ p[2] <= d
  <2>1. PICK s \in Occurrences(d, prior) :
           NextTradingDate(s, H) # 0 /\ p = <<s, NextTradingDate(s, H)>>
    BY <1>5 DEF TradesOn
  <2>2. s \in prior /\ s < d /\ s \in Days
    BY SelectedArePrior DEF Occurrences
  <2> DEFINE n == NextTradingDate(s, H)
  <2>3. n \in H /\ s < n /\ \A h \in H : s < h => n <= h
    BY <1>2, <2>1, <2>2, NextTradingDateIs
  <2>4. PICK r \in prior : n = r + 1 \/ n = r + 2
    BY <1>3, <2>3
  <2>5. r \in Nat /\ n \in Nat /\ s \in Nat /\ r < d
    BY <1>2, <2>2, <2>3, DaysAreIntegers
  <2>6. n <= d
    <3>1. CASE r + 1 = d
      BY <1>4, <2>2, <2>3, <3>1
    <3>2. CASE r + 1 # d
      BY <1>2, <2>4, <2>5, <3>2
    <3> QED
      BY <3>1, <3>2
  <2> QED
    BY <2>1, <2>2, <2>3, <2>6
<1> QED
  BY <1>1, <1>5 DEF H

(* A stored setup belongs to a day with candles and is the detector's word.  *)
Recorded ==
    /\ candidate \in [Days -> BOOLEAN]
    /\ setups \in [Days -> BOOLEAN \union {None}]
    /\ \A d \in Days : setups[d] # None => d \in candles /\ setups[d] = candidate[d]

(* What coroutine t carries from one database call to the next stays true.   *)
Carries(t) ==
    /\ task[t].todo \subseteq candles
    /\ task[t].pc # "idle" => task[t].day \in Days
    /\ task[t].pc = "store" =>
          setups[task[t].day] = TRUE /\ \A s \in task[t].prior : s < task[t].day

LooksBack ==
    /\ DOMAIN validations = Days
    /\ \A d \in Days : validations[d] # None =>
          \A p \in validations[d].trades : p[1] < d /\ p[1] < p[2] /\ p[2] <= d

NightInv == Recorded /\ LooksBack /\ \A t \in Tasks : Carries(t)

LEMMA NightInit == OrhvInit => NightInv
<1> SUFFICES ASSUME OrhvInit PROVE NightInv
  OBVIOUS
<1>1. Recorded
  BY DEF OrhvInit, Recorded
<1>2. LooksBack
  BY DEF OrhvInit, LooksBack
<1>3. \A t \in Tasks : Carries(t)
  BY DEF OrhvInit, Carries, NoTask
<1> QED
  BY <1>1, <1>2, <1>3 DEF NightInv

(* Candles and setups are only added, a setup as the detector's verdict on   *)
(* stored candles; the coroutines that do not move carry what they carried.  *)
LEMMA NightMoves ==
  ASSUME NightInv, candidate' = candidate, candles \subseteq candles',
         setups' \in [Days -> BOOLEAN \union {None}],
         \A d \in Days : setups'[d] = setups[d] \/ (d \in candles' /\ setups'[d] = candidate[d]),
         \A t \in Tasks : task'[t] = task[t] \/ Carries(t)', LooksBack'
  PROVE  NightInv'
<1>1. Recorded'
  BY DEF NightInv, Recorded
<1>2. ASSUME NEW t \in Tasks, task'[t] = task[t] PROVE Carries(t)'
  <2>1. Carries(t)
    BY DEF NightInv
  <2>2. task[t].pc = "store" => setups'[task[t].day] = TRUE
    <3>1. SUFFICES ASSUME task[t].pc = "store" PROVE setups'[task[t].day] = TRUE
      OBVIOUS
    <3>2. task[t].day \in Days /\ setups[task[t].day] = TRUE
      BY <2>1, <3>1 DEF Carries
    <3>3. candidate[task[t].day] = TRUE
      BY <3>2, HolderAssumption DEF NightInv, Recorded
    <3> QED
      BY <3>2, <3>3
  <2> QED
    BY <1>2, <2>1, <2>2 DEF Carries
<1> QED
  BY <1>1, <1>2 DEF NightInv

(* The manager's steps touch no candle, setup or record.                     *)
LEMMA NightManaged ==
  ASSUME NightInv, UNCHANGED dataVars,
         \A t \in Tasks : \/ task'[t] = task[t]
                         \/ task'[t] = NoTask
                         \/ /\ task'[t].pc # "store" /\ task'[t].todo = {}
                            /\ task'[t].day \in Days
                         \/ /\ task[t].pc # "idle" /\ task'[t].pc # "store"
                            /\ task'[t].todo = task[t].todo /\ task'[t].day = task[t].day
  PROVE  NightInv'
<1>1. UNCHANGED <<candidate, candles, setups, validations>>
  BY DEF dataVars
<1>2. LooksBack'
  BY <1>1 DEF NightInv, LooksBack
<1>3. ASSUME NEW t \in Tasks PROVE task'[t] = task[t] \/ Carries(t)'
  BY <1>1 DEF NightInv, Carries, NoTask
<1> QED
  BY <1>1, <1>2, <1>3, NightMoves DEF NightInv, Recorded

LEMMA NightCalled ==
  ASSUME FlightTypeOK, NightInv, NEW t \in Tasks, NEW d \in Days,
         StartBackground(t, d) \/ RunCall(t, d) \/ CycleEndpoint(t, d)
  PROVE  NightInv'
<1>1. UNCHANGED dataVars
  BY DEF StartBackground, RunCall, CycleEndpoint
<1>2. \E place \in {"backfill", "lock", "detect"}, means \in {"run", "background", "endpoint"} :
         Start(t, means, place, d)
  BY DEF StartBackground, RunCall, CycleEndpoint
<1>3. /\ \A u \in Tasks : u # t => task'[u] = task[u]
      /\ task'[t].pc # "store" /\ task'[t].todo = {} /\ task'[t].day \in Days
  BY <1>2 DEF Start, FlightTypeOK
<1> QED
  BY <1>1, <1>3, NightManaged

LEMMA NightManager ==
  ASSUME FlightTypeOK, NightInv, NEW t \in Tasks,
         LockAcquired(t) \/ Shortlist(t) \/ Fails(t) \/ Age \/ ResetIfStale
  PROVE  NightInv'
<1>1. UNCHANGED dataVars
  BY DEF LockAcquired, Shortlist, Fails, Age, ResetIfStale
<1>2. CASE LockAcquired(t)
  <2>1. task[t].pc = "lock" /\ task[t] \in Coroutines
    BY <1>2 DEF LockAcquired, FlightTypeOK
  <2>2. task' = [task EXCEPT ![t] = NoTask] \/ task' = [task EXCEPT ![t].pc = "backfill"]
    BY <1>2 DEF LockAcquired
  <2>3. \A u \in Tasks : u # t => task'[u] = task[u]
    BY <2>2 DEF FlightTypeOK
  <2>4. \/ task'[t] = NoTask
        \/ /\ task'[t].pc # "store"
           /\ task'[t].todo = task[t].todo /\ task'[t].day = task[t].day
    BY <2>1, <2>2 DEF FlightTypeOK, Coroutines
  <2> QED
    BY <1>1, <2>1, <2>3, <2>4, NightManaged
<1>3. CASE Shortlist(t) \/ Fails(t)
  <2>1. task' = [task EXCEPT ![t] = NoTask]
    BY <1>3 DEF Shortlist, Fails, Finish
  <2>2. \A u \in Tasks : task'[u] = task[u] \/ task'[u] = NoTask
    BY <2>1 DEF FlightTypeOK
  <2> QED
    BY <1>1, <2>2, NightManaged
<1>4. CASE Age \/ ResetIfStale
  <2>1. \/ task' = task
        \/ task' = [task EXCEPT ![background] = NoTask]
    BY <1>4 DEF Age, ResetIfStale
  <2>2. \A u \in Tasks : task'[u] = task[u] \/ task'[u] = NoTask
    BY <2>1 DEF FlightTypeOK
  <2> QED
    BY <1>1, <2>2, NightManaged
<1> QED
  BY <1>2, <1>3, <1>4

LEMMA SyncAddsCandles ==
  ASSUME NEW days, Sync(days)
  PROVE  candles \subseteq candles'
BY DEF Sync

LEMMA NightSyncs ==
  ASSUME FlightTypeOK, NightInv, NEW t \in Tasks, BackfillSync(t) \/ SyncDay(t)
  PROVE  NightInv'
<1>1. /\ candles \subseteq candles' /\ UNCHANGED <<candidate, setups, validations>>
  BY SyncAddsCandles DEF BackfillSync, SyncDay
<1>2. task[t] \in Coroutines /\ Carries(t) /\ LooksBack'
  BY <1>1 DEF FlightTypeOK, NightInv, LooksBack
<1>3. \A u \in Tasks : u # t => task'[u] = task[u]
  BY DEF BackfillSync, SyncDay, GotoPc, FlightTypeOK
<1>4. task[t].pc \in {"backfill", "history"} /\ task'[t].pc # "store"
      /\ task'[t].day = task[t].day /\ task'[t].todo \subseteq candles'
  <2>1. CASE BackfillSync(t)
    <3>1. PICK listed \in SUBSET {d \in candles' : d < task[t].day} :
             task' = [task EXCEPT ![t].todo = listed, ![t].pc = "history"]
      BY <2>1 DEF BackfillSync
    <3>2. task'[t] = [task[t] EXCEPT !.todo = listed, !.pc = "history"]
      BY <3>1 DEF FlightTypeOK
    <3>3. task'[t].pc = "history" /\ task'[t].day = task[t].day /\ task'[t].todo = listed
      BY <1>2, <3>2 DEF Coroutines
    <3> QED
      BY <2>1, <3>3 DEF BackfillSync, AtPc
  <2>2. CASE SyncDay(t)
    <3>1. task'[t] = [task[t] EXCEPT !.pc = "detect"]
      BY <2>2 DEF SyncDay, GotoPc, FlightTypeOK
    <3>2. task'[t].pc = "detect" /\ task'[t].day = task[t].day /\ task'[t].todo = task[t].todo
      BY <1>2, <3>1 DEF Coroutines
    <3> QED
      BY <1>1, <1>2, <2>2, <3>2 DEF SyncDay, AtPc, Carries
  <2> QED
    BY <2>1, <2>2
<1>5. Carries(t)'
  BY <1>2, <1>4 DEF Carries
<1> QED
  BY <1>1, <1>2, <1>3, <1>5, NightMoves DEF NightInv, Recorded

LEMMA NightDetects ==
  ASSUME FlightTypeOK, NightInv, NEW t \in Tasks, BackfillDetect(t) \/ Detect(t)
  PROVE  NightInv'
<1>1. UNCHANGED <<candidate, candles, validations>>
  BY DEF BackfillDetect, Detect
<1>2. task[t] \in Coroutines /\ Carries(t) /\ LooksBack' /\ candles \subseteq Days
  BY <1>1 DEF FlightTypeOK, NightInv, LooksBack
<1>3. /\ \/ \E d \in candles : setups' = [setups EXCEPT ![d] = candidate[d]]
         \/ setups' = setups
      /\ \A u \in Tasks : u # t => task'[u] = task[u]
      /\ task[t].pc # "idle" /\ task'[t].pc # "store"
      /\ task'[t].day = task[t].day /\ task'[t].todo \subseteq task[t].todo
  <2>1. CASE BackfillDetect(t)
    <3> DEFINE d == Min(task[t].todo)
    <3>1. task[t].pc = "history" /\ task[t].todo # {} /\ task[t].todo \in SUBSET Days
      BY <1>2, <2>1 DEF BackfillDetect, AtPc, Coroutines
    <3>2. d \in candles
      BY <1>2, <3>1, FirstDay DEF Carries
    <3>3. /\ setups' = [setups EXCEPT ![d] = candidate[d]] \/ setups' = setups
          /\ task' = [task EXCEPT ![t].todo = @ \ {d}]
      BY <2>1 DEF BackfillDetect
    <3> HIDE DEF d
    <3>4. task'[t] = [task[t] EXCEPT !.todo = task[t].todo \ {d}]
      BY <3>3 DEF FlightTypeOK
    <3>5. task'[t].pc = task[t].pc /\ task'[t].day = task[t].day
          /\ task'[t].todo = task[t].todo \ {d}
      BY <1>2, <3>4 DEF Coroutines
    <3>6. \A u \in Tasks : u # t => task'[u] = task[u]
      BY <3>3 DEF FlightTypeOK
    <3> QED
      BY <3>1, <3>2, <3>3, <3>5, <3>6
  <2>2. CASE Detect(t)
    <3>1. task[t].pc = "detect" /\ task'[t] = [task[t] EXCEPT !.pc = "validate"]
      BY <2>2 DEF Detect, AtPc, GotoPc, FlightTypeOK
    <3>2. task'[t].pc = "validate" /\ task'[t].day = task[t].day /\ task'[t].todo = task[t].todo
      BY <1>2, <3>1 DEF Coroutines
    <3>3. \A u \in Tasks : u # t => task'[u] = task[u]
      BY <2>2 DEF Detect, GotoPc, FlightTypeOK
    <3>4. \/ task[t].day \in candles /\ setups' = [setups EXCEPT ![task[t].day] = candidate[task[t].day]]
          \/ setups' = setups
      BY <2>2 DEF Detect
    <3> QED
      BY <3>1, <3>2, <3>3, <3>4
  <2> QED
    BY <2>1, <2>2
<1>4. /\ setups' \in [Days -> BOOLEAN \union {None}]
      /\ \A d \in Days : setups'[d] = setups[d] \/ (d \in candles' /\ setups'[d] = candidate[d])
  BY <1>1, <1>2, <1>3 DEF NightInv, Recorded
<1>5. Carries(t)'
  BY <1>1, <1>2, <1>3 DEF Carries
<1> QED
  BY <1>1, <1>2, <1>3, <1>4, <1>5, NightMoves

LEMMA NightReads ==
  ASSUME FlightTypeOK, NightInv, NEW t \in Tasks, ReadPriorSetups(t)
  PROVE  NightInv'
<1>1. UNCHANGED <<candidate, candles, setups, validations>>
  BY DEF ReadPriorSetups, dataVars
<1>2. task[t] \in Coroutines /\ Carries(t) /\ LooksBack' /\ task[t].pc = "validate"
  BY <1>1 DEF FlightTypeOK, NightInv, LooksBack, ReadPriorSetups, AtPc
<1>3. CASE setups[task[t].day] = TRUE
  <2>1. task' = [task EXCEPT ![t].prior = PriorSetups(task[t].day), ![t].pc = "store"]
    BY <1>3 DEF ReadPriorSetups
  <2>2. task'[t] = [task[t] EXCEPT !.prior = PriorSetups(task[t].day), !.pc = "store"]
    BY <2>1 DEF FlightTypeOK
  <2>3. /\ task'[t].prior = PriorSetups(task[t].day) /\ task'[t].todo = task[t].todo
        /\ task'[t].day = task[t].day
    BY <1>2, <2>2 DEF Coroutines
  <2>4. \A s \in PriorSetups(task[t].day) : s < task[t].day
    BY DEF PriorSetups
  <2>5. Carries(t)'
    BY <1>1, <1>2, <1>3, <2>3, <2>4 DEF Carries
  <2>6. \A u \in Tasks : u # t => task'[u] = task[u]
    BY <2>1 DEF FlightTypeOK
  <2> QED
    BY <1>1, <1>2, <2>5, <2>6, NightMoves DEF NightInv, Recorded
<1>4. CASE setups[task[t].day] # TRUE
  <2>1. task' = [task EXCEPT ![t].pc = "shortlist"]
    BY <1>4 DEF ReadPriorSetups, GotoPc
  <2>2. task'[t] = [task[t] EXCEPT !.pc = "shortlist"]
    BY <2>1 DEF FlightTypeOK
  <2>3. task'[t].pc = "shortlist" /\ task'[t].todo = task[t].todo /\ task'[t].day = task[t].day
    BY <1>2, <2>2 DEF Coroutines
  <2>4. Carries(t)'
    BY <1>1, <1>2, <2>3 DEF Carries
  <2>5. \A u \in Tasks : u # t => task'[u] = task[u]
    BY <2>1 DEF FlightTypeOK
  <2> QED
    BY <1>1, <1>2, <2>4, <2>5, NightMoves DEF NightInv, Recorded
<1> QED
  BY <1>3, <1>4

(* The stored verdict is that of a day with candles, on earlier setups.      *)
LEMMA NightStores ==
  ASSUME FlightTypeOK, NightInv, NEW t \in Tasks, ValidateAndStore(t)
  PROVE  NightInv'
<1> DEFINE d == task[t].day
           p == task[t].prior
           verdict == validate(d, p, LoadHistory(p))
<1>1. UNCHANGED <<candidate, candles, setups>>
  BY DEF ValidateAndStore
<1>2. task[t] \in Coroutines /\ Carries(t) /\ task[t].pc = "store" /\ candles \subseteq Days
  BY DEF FlightTypeOK, NightInv, ValidateAndStore, AtPc
<1>3. d \in Days /\ setups[d] = TRUE /\ (\A s \in p : s < d) /\ p \in SUBSET Days
  BY <1>2 DEF Carries, Coroutines
<1>4. d \in candles
  BY <1>3, HolderAssumption DEF NightInv, Recorded
<1>5. \A q \in verdict.trades : q[1] < d /\ q[1] < q[2] /\ q[2] <= d
  <2> HIDE DEF d, p
  <2> QED
    BY <1>2, <1>3, <1>4, ValidationLooksBack
<1>6. LooksBack'
  <2>1. validations' = [validations EXCEPT ![d] = verdict] \/ validations' = validations
    BY DEF ValidateAndStore
  <2> HIDE DEF verdict, d
  <2> QED
    BY <1>5, <2>1 DEF NightInv, LooksBack
<1>7. task' = [task EXCEPT ![t].pc = "shortlist"]
  BY DEF ValidateAndStore, GotoPc
<1>8. task'[t] = [task[t] EXCEPT !.pc = "shortlist"]
  BY <1>7 DEF FlightTypeOK
<1>9. task'[t].pc = "shortlist" /\ task'[t].todo = task[t].todo /\ task'[t].day = task[t].day
  BY <1>2, <1>8 DEF Coroutines
<1>10. Carries(t)'
  BY <1>1, <1>2, <1>9 DEF Carries
<1>11. \A u \in Tasks : u # t => task'[u] = task[u]
  BY <1>7 DEF FlightTypeOK
<1> QED
  BY <1>1, <1>6, <1>10, <1>11, NightMoves DEF NightInv, Recorded

LEMMA NightNext ==
  ASSUME FlightInv, NightInv, [OrhvNext]_orhvVars
  PROVE  NightInv'
<1>1. FlightTypeOK
  BY DEF FlightInv
<1>2. CASE UNCHANGED orhvVars
  BY <1>2 DEF orhvVars, NightInv, Recorded, LooksBack, Carries
<1>3. ASSUME NEW t \in Tasks, NEW d \in Days,
             StartBackground(t, d) \/ RunCall(t, d) \/ CycleEndpoint(t, d)
      PROVE  NightInv'
  BY <1>1, <1>3, NightCalled
<1>4. ASSUME NEW t \in Tasks, TaskStep(t) PROVE NightInv'
  BY <1>1, <1>4, NightManager, NightSyncs, NightDetects, NightReads, NightStores DEF TaskStep
<1>5. CASE Age \/ ResetIfStale
  <2>1. UNCHANGED dataVars
    BY <1>5 DEF Age, ResetIfStale
  <2>2. task' = task \/ task' = [task EXCEPT ![background] = NoTask]
    BY <1>5 DEF Age, ResetIfStale
  <2>3. \A u \in Tasks : task'[u] = task[u] \/ task'[u] = NoTask
    BY <1>1, <2>2 DEF FlightTypeOK
  <2> QED
    BY <2>1, <2>3, NightManaged
<1>6. CASE NextDay
  <2>1. candles \subseteq candles' /\ UNCHANGED <<candidate, setups, validations, task>>
    BY <1>6, SyncAddsCandles DEF NextDay
  <2>2. LooksBack'
    BY <2>1 DEF NightInv, LooksBack
  <2> QED
    BY <2>1, <2>2, NightMoves DEF NightInv, Recorded
<1> QED
  BY <1>2, <1>3, <1>4, <1>5, <1>6 DEF OrhvNext

(* Setups come from stored candles, and what a run carries between two       *)
(* database calls is not undone by the runs beside it: inductive invariant.  *)
THEOREM NightInvariant == OrhvSpec => []NightInv
<1>1. FlightInv /\ NightInv /\ [OrhvNext]_orhvVars => NightInv'
  BY NightNext
<1> QED
  BY <1>1, NightInit, FlightInvariant, PTL DEF OrhvSpec

(* The verdict of the nightly validation is the backtest's once the earlier  *)
(* candle days are detected and every earlier candidate has candles within   *)
(* two days, and no stored verdict looks past its day, whatever the table of *)
(* candles, the failures and the runs beside it                              *)
(* (run_validation_for_date against the backtest engine).                    *)
THEOREM NightlyMatchesBacktestTheorem == OrhvSpec => []NightlyMatchesBacktest
<1>1. ASSUME FlightInv, NightInv, NEW d \in candles,
             \A s \in candles : s < d => setups[s] # None,
             \A s \in PriorSetups(d) : {s + 1, s + 2} \intersect candles # {}
      PROVE  validate(d, PriorSetups(d), LoadHistory(PriorSetups(d))) = BacktestVerdict(d)
  <2> DEFINE P == PriorSetups(d)
  <2>1. candles \subseteq Days
    BY <1>1 DEF FlightInv, FlightTypeOK
  <2>2. P = {s \in candles : s < d /\ candidate[s]}
    BY <1>1, <2>1, HolderAssumption DEF PriorSetups, NightInv, Recorded
  <2>3. P \in SUBSET Days
    BY DEF PriorSetups
  <2>4. \A s \in Occurrences(d, P) :
           NextTradingDate(s, LoadHistory(P)) = NextTradingDate(s, candles)
    <3>1. Occurrences(d, P) \subseteq P
      BY SelectedArePrior DEF Occurrences
    <3> HIDE DEF P
    <3>2. \A s \in P : {s + 1, s + 2} \intersect candles # {}
      BY <1>1 DEF P
    <3> QED
      BY <2>1, <2>3, <3>1, <3>2, WindowFindsNextDay
  <2>5. BacktestVerdict(d) = validate(d, P, candles)
    BY <2>2 DEF BacktestVerdict
  <2> HIDE DEF P
  <2>6. validate(d, P, LoadHistory(P)) = BacktestVerdict(d)
    BY <2>4, <2>5, SameNextDaySameVerdict
  <2> QED
    BY <2>6 DEF P
<1>2. FlightInv /\ NightInv => NightlyMatchesBacktest
  BY <1>1 DEF NightlyMatchesBacktest, NightInv, LooksBack
<1> QED
  BY <1>2, FlightInvariant, NightInvariant, PTL

-----------------------------------------------------------------------------
(* One day of the strategy.  A candidate or a closed trade is never revised, *)
(* and the two replays and the live generator take the same trade.           *)

Candles == [slot : Slots, high : Nat, low : Nat, close : Nat]
IsCandle(c) == c \in Candles /\ c.low <= c.close /\ c.close <= c.high /\ c.low > 0
Signals == [side : {"LONG", "SHORT"}, entry : Nat, stop : Nat, slot : Slots]

DayOK ==
    /\ day \in Seq(Candles)
    /\ \A i \in 1 .. Len(day) : IsCandle(day[i])
    /\ \A i, j \in 1 .. Len(day) : i < j => day[i].slot < day[j].slot

GenOK ==
    gen \in [active : BOOLEAN, tracked : BOOLEAN, first : Candles \union {None},
             range_rejected : BOOLEAN, trade_locked : BOOLEAN,
             signal : Signals \union {None}]

(* The first of a set of indices, 0 when there is none.                      *)
FirstOf(hits) ==
    IF hits = {} THEN 0 ELSE CHOOSE j \in hits : \A k \in hits : j <= k

(* The signal of a breakout at index i of d.                                 *)
SignalAt(d, i) ==
    LET side == BreakoutSide(d, i)
    IN  [side |-> side,
         entry |-> IF side = "LONG" THEN d[1].high ELSE d[1].low,
         stop |-> StopOf(d, side), slot |-> d[i].slot]

(* What the generator knows is what the candles say, from the opening candle *)
(* on and while it is active.                                                *)
Captured ==
    /\ gen.first = None => gen.signal = None
    /\ gen.first # None =>
          /\ day # << >> /\ gen.first = day[1] /\ day[1].slot = OpenSlot
          /\ gen.tracked /\ gen.range_rejected = RangeRejected(day[1])
    /\ gen.first # None /\ gen.active /\ ~gen.trade_locked =>
          gen.signal = None /\ (gen.range_rejected \/ Breakout(day) = 0)
    /\ gen.first # None /\ gen.active /\ gen.signal # None =>
          /\ gen.trade_locked /\ ~gen.range_rejected
          /\ Breakout(day) # 0 /\ gen.signal = SignalAt(day, Breakout(day))

DayInv == DayOK /\ GenOK /\ Captured

LEMMA FirstOfIs ==
  ASSUME NEW hits \in SUBSET Nat, NEW m \in hits, \A k \in hits : m <= k
  PROVE  FirstOf(hits) = m
<1>1. \A x \in hits : (\A y \in hits : x <= y) => x = m
  OBVIOUS
<1> QED
  BY <1>1 DEF FirstOf

(* A non-empty set of indices has a first one.                               *)
LEMMA FirstOfExists ==
  ASSUME NEW n \in Nat, NEW hits \in SUBSET (1 .. n), hits # {}
  PROVE  FirstOf(hits) \in hits /\ \A k \in hits : FirstOf(hits) <= k
<1>1. IsFiniteSet(1 .. n)
  BY FS_Interval
<1>2. IsFiniteSet(hits)
  BY <1>1, FS_Subset
<1>3. hits \in SUBSET Nat
  OBVIOUS
<1>4. PICK m \in hits : \A y \in hits : m <= y
  BY <1>2, <1>3, LeastExists
<1> QED
  BY <1>3, <1>4, FirstOfIs

(* More hits beyond the end do not change the first one.                     *)
LEMMA FirstSettled ==
  ASSUME NEW n \in Nat, NEW hits \in SUBSET (1 .. n), NEW wider \in SUBSET Nat,
         hits \subseteq wider, \A k \in wider : k <= n => k \in hits, FirstOf(hits) # 0
  PROVE  FirstOf(wider) = FirstOf(hits) /\ FirstOf(hits) \in hits
<1>1. hits # {}
  BY DEF FirstOf
<1>2. FirstOf(hits) \in hits /\ \A k \in hits : FirstOf(hits) <= k
  BY <1>1, FirstOfExists
<1>3. ASSUME NEW k \in wider PROVE FirstOf(hits) <= k
  <2>1. CASE k <= n
    BY <1>2, <2>1
  <2>2. CASE ~(k <= n)
    <3>1. k \in Nat /\ FirstOf(hits) \in 1 .. n
      BY <1>2
    <3> QED
      BY <2>2, <3>1
  <2> QED
    BY <2>1, <2>2
<1> QED
  BY <1>2, <1>3, FirstOfIs

HighAfter(d, i, x) == {j \in (i + 1) .. Len(d) : d[j].high > x}
LowAfter(d, i, x) == {j \in (i + 1) .. Len(d) : d[j].low < x}
BreakHits(d) ==
    {j \in (1 + 1) .. Len(d) : /\ InEntryWindow(d[j])
                              /\ (d[j].high > d[1].high \/ d[j].low < d[1].low)}
CloseHits(d, side) ==
    {j \in (1 + 1) .. Len(d) : /\ InEntryWindow(d[j])
                              /\ IF side = "LONG" THEN d[j].close > d[1].high
                                                  ELSE d[j].close < d[1].low}
StopHit(c, side, stop) == IF side = "LONG" THEN c.low <= stop ELSE c.high >= stop
ExitHits(d, i, side, stop) ==
    {j \in (i + 1) .. Len(d) : StopHit(d[j], side, stop) \/ IsEodCandle(d[j])}

LEMMA BreakoutIs == \A d : Breakout(d) = FirstOf(BreakHits(d))
BY DEF Breakout, FirstAfter, FirstOf, BreakHits

Detected(d, ch1, cl1, condA, condB) ==
    [ch1 |-> ch1, cl1 |-> cl1, condA |-> condA, condB |-> condB,
     is_candidate |-> condA # 0 /\ condB # 0]
Ch1(d) == FirstOf(HighAfter(d, 1, d[1].high))
Cl1(d) == FirstOf(LowAfter(d, 1, d[1].low))
CondA(d) == IF Ch1(d) = 0 THEN 0 ELSE FirstOf(HighAfter(d, Ch1(d), d[Ch1(d)].high))
CondB(d) == IF Cl1(d) = 0 THEN 0 ELSE FirstOf(LowAfter(d, Cl1(d), d[Cl1(d)].low))

LEMMA DetectIs ==
  \A d : detect(d) = IF Len(d) < 2 \/ d[1].high < d[1].low THEN Rejected
                     ELSE Detected(d, Ch1(d), Cl1(d), CondA(d), CondB(d))
BY DEF detect, Detected, Ch1, Cl1, CondA, CondB, FirstAfter, FirstOf, HighAfter, LowAfter

Managed(d, i, side, stop, j) ==
    LET entry == ApplySlippageEntry(IF side = "LONG" THEN d[1].high ELSE d[1].low, side)
        sl == j # 0 /\ StopHit(d[j], side, stop)
        exit == CASE sl -> ApplySlippageExit(stop, side)
                  [] ~sl /\ j # 0 -> d[j].close * PriceScale
                  [] j = 0 -> d[Len(d)].close * PriceScale
    IN  [reason |-> IF sl THEN "SL_HIT" ELSE "EOD_EXIT", side |-> side,
         entry |-> i, exit |-> IF j = 0 THEN Len(d) ELSE j,
         closed |-> j # 0, pnl |-> NetPnl(side, entry, exit)]

LEMMA ManageIs ==
  \A d, i, side, stop :
     Manage(d, i, side, stop) = Managed(d, i, side, stop, FirstOf(ExitHits(d, i, side, stop)))
BY DEF Manage, Managed, FirstAfter, FirstOf, ExitHits, StopHit

LEMMA SimulatorIs ==
  \A d, side : TradeSimulator_simulate(d, side) =
     IF Len(d) < 2 THEN NoTrade("NO_BREAKOUT")
     ELSE IF FirstOf(CloseHits(d, side)) = 0 THEN NoTrade("NO_BREAKOUT")
     ELSE Manage(d, FirstOf(CloseHits(d, side)), side, StopOf(d, side))
BY DEF TradeSimulator_simulate, FirstAfter, FirstOf, CloseHits

(* e is the same day seen later.                                             *)
Grows(d, e) ==
    /\ d \in Seq(Candles) /\ e \in Seq(Candles) /\ Len(d) <= Len(e)
    /\ \A i \in 1 .. Len(d) : e[i] = d[i]

LEMMA HighSettled ==
  ASSUME NEW d, NEW e, Grows(d, e), NEW i \in Nat, i >= 1, NEW x,
         FirstOf(HighAfter(d, i, x)) # 0
  PROVE  /\ FirstOf(HighAfter(e, i, x)) = FirstOf(HighAfter(d, i, x))
         /\ FirstOf(HighAfter(d, i, x)) \in 1 .. Len(d)
<1>1. Len(d) \in Nat /\ Len(e) \in Nat /\ Len(d) <= Len(e) /\ \A j \in 1 .. Len(d) : e[j] = d[j]
  BY DEF Grows
<1>2. HighAfter(d, i, x) \in SUBSET (1 .. Len(d))
  BY <1>1 DEF HighAfter
<1>3. /\ HighAfter(e, i, x) \in SUBSET Nat /\ HighAfter(d, i, x) \subseteq HighAfter(e, i, x)
      /\ \A k \in HighAfter(e, i, x) : k <= Len(d) => k \in HighAfter(d, i, x)
  BY <1>1 DEF HighAfter
<1> QED
  BY <1>1, <1>2, <1>3, FirstSettled

LEMMA LowSettled ==
  ASSUME NEW d, NEW e, Grows(d, e), NEW i \in Nat, i >= 1, NEW x,
         FirstOf(LowAfter(d, i, x)) # 0
  PROVE  /\ FirstOf(LowAfter(e, i, x)) = FirstOf(LowAfter(d, i, x))
         /\ FirstOf(LowAfter(d, i, x)) \in 1 .. Len(d)
<1>1. Len(d) \in Nat /\ Len(e) \in Nat /\ Len(d) <= Len(e) /\ \A j \in 1 .. Len(d) : e[j] = d[j]
  BY DEF Grows
<1>2. LowAfter(d, i, x) \in SUBSET (1 .. Len(d))
  BY <1>1 DEF LowAfter
<1>3. /\ LowAfter(e, i, x) \in SUBSET Nat /\ LowAfter(d, i, x) \subseteq LowAfter(e, i, x)
      /\ \A k \in LowAfter(e, i, x) : k <= Len(d) => k \in LowAfter(d, i, x)
  BY <1>1 DEF LowAfter
<1> QED
  BY <1>1, <1>2, <1>3, FirstSettled

(* A breakout, by touch or by close, stays the first one.                    *)
LEMMA BreakoutSettled ==
  ASSUME NEW d, NEW e, Grows(d, e), Len(d) >= 1, Breakout(d) # 0
  PROVE  Breakout(e) = Breakout(d) /\ Breakout(d) \in 2 .. Len(d)
<1>1. Len(d) \in Nat /\ Len(e) \in Nat /\ Len(d) <= Len(e) /\ \A j \in 1 .. Len(d) : e[j] = d[j]
  BY DEF Grows
<1>2. BreakHits(d) \in SUBSET (1 .. Len(d)) /\ BreakHits(d) \subseteq 2 .. Len(d)
  BY <1>1 DEF BreakHits
<1>3. e[1] = d[1]
  BY <1>1
<1>4. \A j \in (1 + 1) .. Len(e) : j <= Len(d) => j \in (1 + 1) .. Len(d) /\ e[j] = d[j]
  BY <1>1
<1>5. /\ BreakHits(e) \in SUBSET Nat /\ BreakHits(d) \subseteq BreakHits(e)
      /\ \A k \in BreakHits(e) : k <= Len(d) => k \in BreakHits(d)
  BY <1>1, <1>3, <1>4 DEF BreakHits
<1> QED
  BY <1>1, <1>2, <1>5, FirstSettled, BreakoutIs

LEMMA CloseSettled ==
  ASSUME NEW d, NEW e, Grows(d, e), Len(d) >= 1, NEW side, FirstOf(CloseHits(d, side)) # 0
  PROVE  /\ FirstOf(CloseHits(e, side)) = FirstOf(CloseHits(d, side))
         /\ FirstOf(CloseHits(d, side)) \in 2 .. Len(d)
<1>1. Len(d) \in Nat /\ Len(e) \in Nat /\ Len(d) <= Len(e) /\ \A j \in 1 .. Len(d) : e[j] = d[j]
  BY DEF Grows
<1>2. CloseHits(d, side) \in SUBSET (1 .. Len(d)) /\ CloseHits(d, side) \subseteq 2 .. Len(d)
  BY <1>1 DEF CloseHits
<1>3. e[1] = d[1]
  BY <1>1
<1>4. \A j \in (1 + 1) .. Len(e) : j <= Len(d) => j \in (1 + 1) .. Len(d) /\ e[j] = d[j]
  BY <1>1
<1>5. /\ CloseHits(e, side) \in SUBSET Nat /\ CloseHits(d, side) \subseteq CloseHits(e, side)
      /\ \A k \in CloseHits(e, side) : k <= Len(d) => k \in CloseHits(d, side)
  BY <1>1, <1>3, <1>4 DEF CloseHits
<1> QED
  BY <1>1, <1>2, <1>5, FirstSettled

(* A closed trade keeps its exit.                                            *)
LEMMA ManageSettled ==
  ASSUME NEW d, NEW e, Grows(d, e), NEW i \in 1 .. Len(d), NEW side, NEW stop,
         Manage(d, i, side, stop).closed
  PROVE  Manage(e, i, side, stop) = Manage(d, i, side, stop)
<1> DEFINE j == FirstOf(ExitHits(d, i, side, stop))
<1>1. Len(d) \in Nat /\ Len(e) \in Nat /\ Len(d) <= Len(e) /\ \A k \in 1 .. Len(d) : e[k] = d[k]
  BY DEF Grows
<1>2. j # 0
  BY ManageIs DEF Managed
<1>3. ExitHits(d, i, side, stop) \in SUBSET (1 .. Len(d))
  BY <1>1 DEF ExitHits
<1>4. \A k \in (i + 1) .. Len(e) : k <= Len(d) => k \in (i + 1) .. Len(d) /\ e[k] = d[k]
  BY <1>1
<1>5. /\ ExitHits(e, i, side, stop) \in SUBSET Nat
      /\ ExitHits(d, i, side, stop) \subseteq ExitHits(e, i, side, stop)
      /\ \A k \in ExitHits(e, i, side, stop) : k <= Len(d) => k \in ExitHits(d, i, side, stop)
  BY <1>1, <1>4 DEF ExitHits
<1>6. FirstOf(ExitHits(e, i, side, stop)) = j /\ j \in 1 .. Len(d)
  BY <1>1, <1>2, <1>3, <1>5, FirstSettled
<1>7. e[1] = d[1] /\ e[j] = d[j]
  BY <1>1, <1>6
<1> HIDE DEF j
<1>8. Managed(e, i, side, stop, j) = Managed(d, i, side, stop, j)
  BY <1>2, <1>7 DEF Managed
<1> QED
  BY <1>6, <1>8, ManageIs DEF j

LEMMA DetectSettled ==
  ASSUME NEW d, NEW e, Grows(d, e), detect(d).is_candidate
  PROVE  detect(e) = detect(d)
<1>1. Len(d) \in Nat /\ Len(e) \in Nat /\ Len(d) <= Len(e) /\ \A k \in 1 .. Len(d) : e[k] = d[k]
  BY DEF Grows
<1>2. ~(Len(d) < 2 \/ d[1].high < d[1].low)
  BY DetectIs DEF Rejected
<1>3. CondA(d) # 0 /\ CondB(d) # 0
  BY <1>2, DetectIs DEF Detected
<1>4. e[1] = d[1] /\ ~(Len(e) < 2 \/ e[1].high < e[1].low)
  BY <1>1, <1>2
<1>5. Ch1(d) # 0 /\ Cl1(d) # 0
  BY <1>3 DEF CondA, CondB
<1>6. Ch1(e) = Ch1(d) /\ Ch1(d) \in 1 .. Len(d)
  BY <1>4, <1>5, HighSettled DEF Ch1
<1>7. Cl1(e) = Cl1(d) /\ Cl1(d) \in 1 .. Len(d)
  BY <1>4, <1>5, LowSettled DEF Cl1
<1>8. CondA(e) = CondA(d)
  <2>1. FirstOf(HighAfter(d, Ch1(d), d[Ch1(d)].high)) # 0 /\ e[Ch1(d)] = d[Ch1(d)]
        /\ Ch1(d) \in Nat /\ Ch1(d) >= 1
    BY <1>1, <1>3, <1>5, <1>6 DEF CondA
  <2> QED
    BY <1>6, <2>1, HighSettled DEF CondA
<1>9. CondB(e) = CondB(d)
  <2>1. FirstOf(LowAfter(d, Cl1(d), d[Cl1(d)].low)) # 0 /\ e[Cl1(d)] = d[Cl1(d)]
        /\ Cl1(d) \in Nat /\ Cl1(d) >= 1
    BY <1>1, <1>3, <1>5, <1>7 DEF CondB
  <2> QED
    BY <1>7, <2>1, LowSettled DEF CondB
<1>10. detect(d) = Detected(d, Ch1(d), Cl1(d), CondA(d), CondB(d))
  BY <1>2, DetectIs
<1>11. detect(e) = Detected(e, Ch1(e), Cl1(e), CondA(e), CondB(e))
  BY <1>4, DetectIs
<1>12. \A a, b, x, y : Detected(e, a, b, x, y) = Detected(d, a, b, x, y)
  BY DEF Detected
<1> QED
  BY <1>6, <1>7, <1>8, <1>9, <1>10, <1>11, <1>12

LEMMA ReplaySettled ==
  ASSUME NEW d, NEW e, Grows(d, e), simulate_phase3(d).closed
  PROVE  simulate_phase3(e) = simulate_phase3(d)
<1>1. Len(d) \in Nat /\ Len(e) \in Nat /\ Len(d) <= Len(e) /\ \A k \in 1 .. Len(d) : e[k] = d[k]
  BY DEF Grows
<1>2. ~(Len(d) < 2 \/ d[1].close <= 0) /\ ~RangeRejected(d[1]) /\ Breakout(d) # 0
  BY DEF simulate_phase3, NoTrade
<1> DEFINE i == Breakout(d)
           side == BreakoutSide(d, i)
<1>3. e[1] = d[1] /\ ~(Len(e) < 2 \/ e[1].close <= 0) /\ ~RangeRejected(e[1])
  BY <1>1, <1>2
<1>4. Breakout(e) = i /\ i \in 2 .. Len(d)
  BY <1>1, <1>2, BreakoutSettled
<1>5. BreakoutSide(e, i) = side /\ StopOf(e, side) = StopOf(d, side)
  BY <1>1, <1>3, <1>4 DEF BreakoutSide, StopOf
<1>6. /\ simulate_phase3(d) = Manage(d, i, side, StopOf(d, side))
      /\ simulate_phase3(e) = Manage(e, i, side, StopOf(d, side))
  BY <1>2, <1>3, <1>4, <1>5 DEF simulate_phase3
<1> HIDE DEF i, side
<1>7. Manage(d, i, side, StopOf(d, side)).closed /\ i \in 1 .. Len(d)
  BY <1>1, <1>4, <1>6
<1> QED
  BY <1>6, <1>7, ManageSettled

LEMMA SimulatorSettled ==
  ASSUME NEW d, NEW e, Grows(d, e), NEW side, TradeSimulator_simulate(d, side).closed
  PROVE  TradeSimulator_simulate(e, side) = TradeSimulator_simulate(d, side)
<1>1. Len(d) \in Nat /\ Len(e) \in Nat /\ Len(d) <= Len(e) /\ \A k \in 1 .. Len(d) : e[k] = d[k]
  BY DEF Grows
<1> DEFINE i == FirstOf(CloseHits(d, side))
<1>2. ~(Len(d) < 2) /\ i # 0
  BY SimulatorIs DEF NoTrade
<1>3. e[1] = d[1] /\ ~(Len(e) < 2) /\ StopOf(e, side) = StopOf(d, side)
  BY <1>1, <1>2 DEF StopOf
<1>4. FirstOf(CloseHits(e, side)) = i /\ i \in 2 .. Len(d)
  BY <1>1, <1>2, CloseSettled
<1>5. /\ TradeSimulator_simulate(d, side) = Manage(d, i, side, StopOf(d, side))
      /\ TradeSimulator_simulate(e, side) = Manage(e, i, side, StopOf(d, side))
  BY <1>2, <1>3, <1>4, SimulatorIs
<1> HIDE DEF i
<1>6. Manage(d, i, side, StopOf(d, side)).closed /\ i \in 1 .. Len(d)
  BY <1>1, <1>4, <1>5
<1> QED
  BY <1>5, <1>6, ManageSettled

LEMMA DayStarts == DayInit => DayInv
<1> SUFFICES ASSUME DayInit PROVE DayInv
  OBVIOUS
<1>1. DayOK
  BY DEF DayInit, DayOK
<1>2. GenOK
  BY DEF DayInit, GenOK, Untracked
<1>3. Captured
  BY DEF DayInit, Captured, Untracked
<1> QED
  BY <1>1, <1>2, <1>3 DEF DayInv

LEMMA CandleIsCandle ==
  ASSUME NEW slot \in Slots, NEW s \in Shapes
  PROVE  IsCandle(Candle(slot, s)) /\ Candle(slot, s).slot = slot
<1>1. s[1] \in Nat /\ s[2] \in Nat /\ s[3] \in Nat /\ s[2] <= s[3] /\ s[3] <= s[1] /\ s[2] > 0
  BY ShapesAreCandles
<1> QED
  BY <1>1 DEF Candle, IsCandle, Candles

(* The day after one more candle.                                            *)
LEMMA DayGrows ==
  ASSUME DayOK, NEW c, IsCandle(c), day # << >> => c.slot > day[Len(day)].slot,
         day' = Append(day, c)
  PROVE  /\ DayOK' /\ Grows(day, day')
         /\ Len(day') = Len(day) + 1 /\ day'[Len(day) + 1] = c
<1>1. c \in Candles /\ day \in Seq(Candles) /\ Len(day) \in Nat
  BY DEF DayOK, IsCandle
<1>2. /\ day' \in Seq(Candles) /\ Len(day') = Len(day) + 1 /\ day'[Len(day) + 1] = c
      /\ \A i \in 1 .. Len(day) : day'[i] = day[i]
  BY <1>1
<1>3. \A i \in 1 .. Len(day) : day[i] \in Candles
  BY <1>1
<1>4. \A i \in 1 .. Len(day') : i \in 1 .. Len(day) \/ i = Len(day) + 1
  BY <1>1, <1>2
<1>5. \A i \in 1 .. Len(day') : IsCandle(day'[i])
  BY <1>2, <1>4 DEF DayOK
<1>6. \A i \in 1 .. Len(day) : day[i].slot < c.slot
  <2>1. SUFFICES ASSUME NEW i \in 1 .. Len(day) PROVE day[i].slot < c.slot
    OBVIOUS
  <2>2. day # << >> /\ Len(day) \in 1 .. Len(day)
    BY <1>1, <2>1
  <2>3. \A k \in 1 .. Len(day) : day[k].slot \in Int
    BY <1>3, SlotOrder DEF Candles, Slots
  <2>4. c.slot \in Int /\ c.slot > day[Len(day)].slot
    BY <1>1, <2>2, SlotOrder DEF Candles, Slots
  <2>5. i = Len(day) \/ day[i].slot < day[Len(day)].slot
    <3>1. i = Len(day) \/ i < Len(day)
      BY <1>1
    <3> QED
      BY <2>2, <3>1 DEF DayOK
  <2> QED
    BY <2>2, <2>3, <2>4, <2>5
<1>7. \A i, j \in 1 .. Len(day') : i < j => day'[i].slot < day'[j].slot
  <2>1. SUFFICES ASSUME NEW i \in 1 .. Len(day'), NEW j \in 1 .. Len(day'), i < j
                 PROVE  day'[i].slot < day'[j].slot
    OBVIOUS
  <2>2. i \in 1 .. Len(day)
    BY <1>1, <1>2, <2>1
  <2>3. CASE j \in 1 .. Len(day)
    BY <1>2, <2>1, <2>2, <2>3 DEF DayOK
  <2>4. CASE j = Len(day) + 1
    BY <1>2, <1>6, <2>2, <2>4
  <2> QED
    BY <1>4, <2>3, <2>4
<1> QED
  BY <1>1, <1>2, <1>5, <1>7 DEF DayOK, Grows

LEMMA DayFirst ==
  ASSUME DayOK, day # << >>
  PROVE  1 \in 1 .. Len(day) /\ IsCandle(day[1]) /\ day[1] \in Candles
<1>1. Len(day) \in Nat /\ Len(day) >= 1
  BY DEF DayOK
<1> QED
  BY <1>1 DEF DayOK, IsCandle

LEMMA SignalIsSignal ==
  ASSUME DayOK, NEW i \in 1 .. Len(day)
  PROVE  SignalAt(day, i) \in Signals /\ SignalAt(day, i) # None
<1>1. day # << >>
  BY DEF DayOK
<1>2. day[1] \in Candles /\ day[i] \in Candles
  BY <1>1, DayFirst DEF DayOK
<1>3. SignalAt(day, i) \in Signals
  BY <1>2 DEF SignalAt, Signals, StopOf, BreakoutSide, Candles
<1> QED
  BY <1>3, NoCandleAssumption DEF Signals

(* A breakout found stays found; none found before, only the new candle can  *)
(* be one.                                                                   *)
LEMMA BreakoutGrows ==
  ASSUME DayOK, NEW c, IsCandle(c), day # << >>, day' = Append(day, c),
         Grows(day, day'), Breakout(day) = 0
  PROVE  Breakout(day') =
            IF InEntryWindow(c) /\ (c.high > day[1].high \/ c.low < day[1].low)
            THEN Len(day) + 1 ELSE 0
<1>1. /\ Len(day) \in Nat /\ Len(day) >= 1 /\ Len(day') = Len(day) + 1
      /\ day'[Len(day) + 1] = c /\ day'[1] = day[1]
      /\ \A i \in 1 .. Len(day) : day'[i] = day[i]
  BY DEF DayOK, IsCandle, Grows
<1>2. BreakHits(day) = {}
  <2>1. SUFFICES ASSUME BreakHits(day) # {} PROVE FALSE
    OBVIOUS
  <2>2. BreakHits(day) \in SUBSET (1 .. Len(day))
    BY <1>1 DEF BreakHits
  <2>3. FirstOf(BreakHits(day)) \in 1 .. Len(day)
    BY <1>1, <2>1, <2>2, FirstOfExists
  <2> QED
    BY <2>3, BreakoutIs
<1>3. BreakHits(day') \subseteq {Len(day) + 1}
  <2>1. SUFFICES ASSUME NEW j \in BreakHits(day'), j # Len(day) + 1 PROVE FALSE
    OBVIOUS
  <2>2. j \in (1 + 1) .. Len(day) /\ day'[j] = day[j]
    BY <1>1, <2>1 DEF BreakHits
  <2>3. j \in BreakHits(day)
    BY <1>1, <2>1, <2>2 DEF BreakHits
  <2> QED
    BY <1>2, <2>3
<1>4. Len(day) + 1 \in BreakHits(day') <=>
         InEntryWindow(c) /\ (c.high > day[1].high \/ c.low < day[1].low)
  BY <1>1 DEF BreakHits
<1>5. CASE Len(day) + 1 \in BreakHits(day')
  <2>1. FirstOf(BreakHits(day')) = Len(day) + 1
    <3>1. BreakHits(day') = {Len(day) + 1} /\ Len(day) + 1 \in Nat
      BY <1>1, <1>3, <1>5
    <3> QED
      BY <3>1, FirstOfIs
  <2> QED
    BY <1>4, <1>5, <2>1, BreakoutIs
<1>6. CASE Len(day) + 1 \notin BreakHits(day')
  <2>1. BreakHits(day') = {}
    BY <1>3, <1>6
  <2> QED
    BY <1>4, <1>6, <2>1, BreakoutIs DEF FirstOf
<1> QED
  BY <1>5, <1>6

LEMMA SignalStays ==
  ASSUME Grows(day, day'), day # << >>, NEW i \in 1 .. Len(day)
  PROVE  SignalAt(day', i) = SignalAt(day, i)
<1>1. day'[i] = day[i] /\ day'[1] = day[1]
  BY DEF Grows
<1> QED
  BY <1>1 DEF SignalAt, BreakoutSide, StopOf

(* The generator stays as it is while a candle closes.                       *)
LEMMA CaptureKept ==
  ASSUME DayInv, NEW c, IsCandle(c), day' = Append(day, c), Grows(day, day'), DayOK',
         gen' = gen,
         gen.active /\ gen.first # None /\ ~gen.trade_locked /\ ~gen.range_rejected =>
            ~(InEntryWindow(c) /\ (c.high > day[1].high \/ c.low < day[1].low))
  PROVE  DayInv'
<1>1. DayOK /\ GenOK /\ Captured /\ GenOK'
  BY DEF DayInv, GenOK
<1>2. CASE gen.first = None
  BY <1>1, <1>2 DEF DayInv, Captured
<1>3. CASE gen.first # None
  <2>1. day # << >> /\ gen.first = day[1] /\ day[1].slot = OpenSlot /\ gen.tracked
        /\ gen.range_rejected = RangeRejected(day[1])
    BY <1>1, <1>3 DEF Captured
  <2>2. Len(day) \in Nat /\ Len(day) >= 1 /\ day'[1] = day[1] /\ day' # << >>
    BY <1>1, <2>1 DEF DayOK, Grows, IsCandle
  <2>3. ASSUME gen.active, ~gen.trade_locked
        PROVE  gen.signal = None /\ (gen.range_rejected \/ Breakout(day') = 0)
    <3>1. gen.signal = None /\ (gen.range_rejected \/ Breakout(day) = 0)
      BY <1>1, <1>3, <2>3 DEF Captured
    <3> QED
      BY <1>1, <1>3, <2>1, <2>3, <3>1, BreakoutGrows
  <2>4. ASSUME gen.active, gen.signal # None
        PROVE  /\ gen.trade_locked /\ ~gen.range_rejected
               /\ Breakout(day') # 0 /\ gen.signal = SignalAt(day', Breakout(day'))
    <3>1. /\ gen.trade_locked /\ ~gen.range_rejected
          /\ Breakout(day) # 0 /\ gen.signal = SignalAt(day, Breakout(day))
      BY <1>1, <1>3, <2>4 DEF Captured
    <3>2. Breakout(day') = Breakout(day) /\ Breakout(day) \in 2 .. Len(day)
      BY <2>2, <3>1, BreakoutSettled
    <3>3. \A i \in 1 .. Len(day) : SignalAt(day', i) = SignalAt(day, i)
      BY <2>1, SignalStays
    <3>4. Breakout(day) \in 1 .. Len(day)
      BY <2>2, <3>2
    <3> QED
      BY <3>1, <3>2, <3>3, <3>4
  <2>5. Captured'
    BY <1>3, <2>1, <2>2, <2>3, <2>4 DEF Captured
  <2> QED
    BY <1>1, <2>5 DEF DayInv
<1> QED
  BY <1>2, <1>3

(* The opening candle is captured.                                           *)
LEMMA CaptureStarts ==
  ASSUME DayInv, NEW c, IsCandle(c), day' = Append(day, c), DayOK',
         day # << >> => c.slot > day[Len(day)].slot,
         gen.active, gen.tracked, gen.first = None, c.slot = OpenSlot,
         gen' = [gen EXCEPT !.first = c, !.range_rejected = c.close > 0 /\ RangeRejected(c)]
  PROVE  DayInv'
<1>1. DayOK /\ GenOK /\ gen.signal = None
  BY DEF DayInv, Captured
<1>2. day = << >>
  <2>1. SUFFICES ASSUME day # << >> PROVE FALSE
    OBVIOUS
  <2>2. Len(day) \in 1 .. Len(day)
    BY <1>1, <2>1 DEF DayOK
  <2>3. day[Len(day)].slot \in OpenSlot .. EodSlot
    BY <1>1, <2>2 DEF DayOK, IsCandle, Candles, Slots
  <2> QED
    BY <2>1, <2>3, SlotOrder
<1>3. day' = <<c>> /\ Len(day') = 1 /\ day'[1] = c /\ day' # << >>
  BY <1>2
<1>4. /\ gen'.first = c /\ gen'.signal = None /\ gen'.tracked
      /\ gen'.range_rejected = (c.close > 0 /\ RangeRejected(c))
  BY <1>1 DEF GenOK
<1>5. gen'.range_rejected = RangeRejected(c)
  <2>1. c.close > 0
    BY DEF IsCandle, Candles
  <2> HIDE DEF RangeRejected
  <2>2. RangeRejected(c) \in BOOLEAN
    BY DEF RangeRejected
  <2> QED
    BY <1>4, <2>1, <2>2
<1>6. GenOK'
  <2>1. RangeRejected(c) \in BOOLEAN /\ c \in Candles
    BY DEF RangeRejected, IsCandle
  <2> QED
    BY <1>1, <2>1 DEF GenOK
<1>7. Breakout(day') = 0
  <2>1. BreakHits(day') = {}
    BY <1>3 DEF BreakHits
  <2> QED
    BY <2>1, BreakoutIs DEF FirstOf
<1>8. Captured'
  BY <1>3, <1>4, <1>5, <1>7 DEF Captured
<1> QED
  BY <1>6, <1>8 DEF DayInv

(* The first breakout of a captured range is signalled.                      *)
LEMMA CaptureSignals ==
  ASSUME DayInv, NEW c, IsCandle(c), day' = Append(day, c), Grows(day, day'), DayOK',
         gen.active, gen.first # None, ~gen.trade_locked, ~gen.range_rejected,
         InEntryWindow(c), c.high > gen.first.high \/ c.low < gen.first.low,
         NEW signal,
         signal = LET buy == c.high > gen.first.high
                  IN  [side |-> IF buy THEN "LONG" ELSE "SHORT",
                       entry |-> IF buy THEN gen.first.high ELSE gen.first.low,
                       stop |-> IF buy THEN gen.first.low ELSE gen.first.high,
                       slot |-> c.slot],
         gen' = [gen EXCEPT !.trade_locked = TRUE, !.signal = signal]
  PROVE  DayInv'
<1>1. /\ DayOK /\ GenOK /\ day # << >> /\ gen.first = day[1] /\ day[1].slot = OpenSlot
      /\ gen.tracked /\ gen.range_rejected = RangeRejected(day[1]) /\ Breakout(day) = 0
  BY DEF DayInv, Captured
<1>2. /\ Len(day) \in Nat /\ Len(day) >= 1 /\ Len(day') = Len(day) + 1
      /\ day'[Len(day) + 1] = c /\ day'[1] = day[1] /\ day' # << >>
  BY <1>1 DEF DayOK, IsCandle, Grows
<1>3. Breakout(day') = Len(day) + 1
  BY <1>1, BreakoutGrows
<1>4. signal = SignalAt(day', Len(day) + 1)
  BY <1>1, <1>2 DEF SignalAt, BreakoutSide, StopOf
<1>5. SignalAt(day', Len(day) + 1) \in Signals
  <2>1. Len(day) + 1 \in 1 .. Len(day')
    BY <1>2
  <2>2. day'[1] \in Candles /\ day'[Len(day) + 1] \in Candles
    BY <1>1, <1>2, DayFirst DEF IsCandle
  <2> QED
    BY <2>2 DEF SignalAt, Signals, StopOf, BreakoutSide, Candles
<1>6. /\ gen'.first = gen.first /\ gen'.signal = signal /\ gen'.tracked = gen.tracked
      /\ gen'.range_rejected = gen.range_rejected /\ gen'.trade_locked /\ gen'.active
  BY <1>1 DEF GenOK
<1>7. GenOK'
  <2>1. signal \in Signals
    BY <1>4, <1>5
  <2> HIDE DEF Signals
  <2> QED
    BY <1>1, <2>1 DEF GenOK
<1>8. Captured'
  BY <1>1, <1>2, <1>3, <1>4, <1>6 DEF Captured
<1> QED
  BY <1>7, <1>8 DEF DayInv

LEMMA DayCloses ==
  ASSUME DayInv, CandleClosed
  PROVE  DayInv'
<1>1. PICK slot \in Slots, s \in Shapes :
         /\ day # << >> => slot > day[Len(day)].slot
         /\ day' = Append(day, Candle(slot, s)) /\ gen' = on_candle(gen, Candle(slot, s))
  BY DEF CandleClosed
<1> DEFINE c == Candle(slot, s)
<1>2. IsCandle(c) /\ c.slot = slot
  BY CandleIsCandle
<1> HIDE DEF c
<1>3. (day # << >> => c.slot > day[Len(day)].slot) /\ day' = Append(day, c)
      /\ gen' = on_candle(gen, c)
  BY <1>1, <1>2 DEF c
<1>4. DayOK' /\ Grows(day, day')
  BY <1>2, <1>3, DayGrows DEF DayInv
<1>5. gen.first # None => gen.first = day[1] /\ gen.tracked
  BY DEF DayInv, Captured
<1>6. day[1] \in Candles \/ gen.first = None
  BY DayFirst DEF DayInv, Captured
<1>7. CASE ~gen.active \/ ~gen.tracked
  <2>1. gen' = gen
    BY <1>3, <1>7 DEF on_candle
  <2> QED
    BY <1>2, <1>3, <1>4, <1>5, <1>7, <2>1, CaptureKept
<1>8. CASE gen.active /\ gen.tracked /\ gen.first = None
  <2>1. CASE c.slot = OpenSlot
    <3>1. gen' = [gen EXCEPT !.first = c, !.range_rejected = c.close > 0 /\ RangeRejected(c)]
      BY <1>3, <1>8, <2>1 DEF on_candle
    <3> QED
      BY <1>2, <1>3, <1>4, <1>8, <2>1, <3>1, CaptureStarts
  <2>2. CASE c.slot # OpenSlot
    <3>1. gen' = gen
      BY <1>3, <1>8, <2>2 DEF on_candle
    <3> QED
      BY <1>2, <1>3, <1>4, <1>8, <3>1, CaptureKept
  <2> QED
    BY <2>1, <2>2
<1>9. CASE gen.active /\ gen.tracked /\ gen.first # None
  <2> DEFINE Ignored == \/ gen.trade_locked \/ gen.range_rejected \/ ~InEntryWindow(c)
                        \/ c.high <= gen.first.high /\ c.low >= gen.first.low
  <2>1. CASE Ignored
    <3>1. gen' = gen
      BY <1>3, <1>9, <2>1 DEF on_candle
    <3>2. c.high <= gen.first.high /\ c.low >= gen.first.low =>
             ~(c.high > day[1].high \/ c.low < day[1].low)
      BY <1>2, <1>5, <1>6, <1>9 DEF IsCandle, Candles
    <3> QED
      BY <1>2, <1>3, <1>4, <2>1, <3>1, <3>2, CaptureKept
  <2>2. CASE ~Ignored
    <3> DEFINE signal == LET buy == c.high > gen.first.high
                         IN  [side |-> IF buy THEN "LONG" ELSE "SHORT",
                              entry |-> IF buy THEN gen.first.high ELSE gen.first.low,
                              stop |-> IF buy THEN gen.first.low ELSE gen.first.high,
                              slot |-> c.slot]
    <3>1. gen' = [gen EXCEPT !.trade_locked = TRUE, !.signal = signal]
      BY <1>3, <1>9, <2>2 DEF on_candle
    <3>2. c.high > gen.first.high \/ c.low < gen.first.low
      BY <1>2, <1>5, <1>6, <1>9, <2>2 DEF IsCandle, Candles
    <3> QED
      BY <1>2, <1>3, <1>4, <1>9, <2>2, <3>1, <3>2, CaptureSignals
  <2> QED
    BY <2>1, <2>2
<1> QED
  BY <1>7, <1>8, <1>9

LEMMA DayNextKeeps ==
  ASSUME DayInv, [DayNext]_dayVars
  PROVE  DayInv'
<1>1. DayOK /\ GenOK /\ Captured
  BY DEF DayInv
<1>2. CASE CandleClosed
  BY <1>2, DayCloses
<1>3. CASE activate
  <2>1. PICK listed \in BOOLEAN : gen' = [Untracked EXCEPT !.active = TRUE, !.tracked = listed]
    BY <1>3 DEF activate, Activate
  <2>2. GenOK' /\ gen'.first = None /\ gen'.signal = None
    BY <2>1 DEF GenOK, Untracked
  <2> QED
    BY <1>1, <1>3, <2>2 DEF DayInv, DayOK, Captured, activate
<1>4. CASE add_candidate \/ lock_symbol \/ deactivate
  <2>1. day' = day /\ GenOK' /\ gen'.first = gen.first /\ gen'.signal = gen.signal
        /\ gen'.range_rejected = gen.range_rejected
        /\ (gen'.active => gen.active) /\ (gen.tracked => gen'.tracked)
        /\ (gen.trade_locked => gen'.trade_locked)
    BY <1>1, <1>4 DEF add_candidate, lock_symbol, deactivate, GenOK
  <2>2. Captured'
    BY <1>1, <2>1 DEF Captured
  <2> QED
    BY <1>1, <2>1, <2>2 DEF DayInv, DayOK
<1>5. CASE UNCHANGED dayVars
  BY <1>1, <1>5 DEF dayVars, DayInv, DayOK, GenOK, Captured
<1> QED
  BY <1>2, <1>3, <1>4, <1>5 DEF DayNext

LEMMA ManageFields ==
  ASSUME NEW d, NEW i, NEW side, NEW stop
  PROVE  Manage(d, i, side, stop).entry = i /\ Manage(d, i, side, stop).side = side
BY ManageIs DEF Managed

(* The replay enters at the breakout, if the range is not too wide.          *)
LEMMA ReplayEnters ==
  ASSUME DayOK
  PROVE  /\ day = << >> \/ RangeRejected(day[1]) \/ Breakout(day) = 0 =>
               simulate_phase3(day).entry = 0
         /\ day # << >> /\ ~RangeRejected(day[1]) /\ Breakout(day) # 0 =>
               /\ simulate_phase3(day).entry = Breakout(day)
               /\ simulate_phase3(day).side = BreakoutSide(day, Breakout(day))
               /\ Breakout(day) \in 2 .. Len(day)
<1>1. Len(day) \in Nat /\ (day = << >> <=> Len(day) = 0)
  BY DEF DayOK
<1>2. ASSUME day = << >> \/ RangeRejected(day[1]) \/ Breakout(day) = 0
      PROVE  simulate_phase3(day).entry = 0
  BY <1>1, <1>2 DEF simulate_phase3, NoTrade
<1>3. ASSUME day # << >>, ~RangeRejected(day[1]), Breakout(day) # 0
      PROVE  /\ simulate_phase3(day).entry = Breakout(day)
             /\ simulate_phase3(day).side = BreakoutSide(day, Breakout(day))
             /\ Breakout(day) \in 2 .. Len(day)
  <2>1. Grows(day, day) /\ Len(day) >= 1
    BY <1>1, <1>3 DEF Grows, DayOK
  <2>2. Breakout(day) \in 2 .. Len(day)
    BY <1>3, <2>1, BreakoutSettled
  <2>3. ~(Len(day) < 2) /\ ~(day[1].close <= 0)
    BY <1>1, <1>3, <2>2, DayFirst DEF IsCandle, Candles
  <2>4. simulate_phase3(day) = Manage(day, Breakout(day), BreakoutSide(day, Breakout(day)),
                                      StopOf(day, BreakoutSide(day, Breakout(day))))
    BY <1>3, <2>3 DEF simulate_phase3
  <2> QED
    BY <2>2, <2>4, ManageFields
<1> QED
  BY <1>2, <1>3

LEMMA ReplaysAreOne ==
  /\ simulate_phase3(day).entry = simulate_phase3_trade(day).entry
  /\ simulate_phase3(day).side = simulate_phase3_trade(day).side
  /\ simulate_phase3(day).pnl = simulate_phase3_trade(day).pnl
<1>1. CASE Len(day) < 2 \/ day[1].close <= 0 \/ RangeRejected(day[1]) \/ Breakout(day) = 0
  BY <1>1 DEF simulate_phase3, simulate_phase3_trade, NoTrade
<1>2. CASE ~(Len(day) < 2 \/ day[1].close <= 0 \/ RangeRejected(day[1]) \/ Breakout(day) = 0)
  BY <1>2 DEF simulate_phase3, simulate_phase3_trade
<1> QED
  BY <1>1, <1>2

(* The generator's signal is the replay's trade.                             *)
LEMMA SignalIsReplay ==
  ASSUME DayInv, gen.active, gen.first # None, gen.trade_locked => gen.signal # None
  PROVE  LET v == simulate_phase3(day)
         IN  gen.signal = IF v.entry = 0 THEN None
                ELSE [side |-> v.side, slot |-> day[v.entry].slot,
                      entry |-> StopOf(day, IF v.side = "LONG" THEN "SHORT" ELSE "LONG"),
                      stop |-> StopOf(day, v.side)]
<1> DEFINE v == simulate_phase3(day)
           i == Breakout(day)
<1>1. DayOK /\ Captured /\ day # << >> /\ gen.range_rejected = RangeRejected(day[1])
  BY DEF DayInv, Captured
<1>2. CASE gen.signal = None
  <2>1. RangeRejected(day[1]) \/ i = 0
    BY <1>1, <1>2 DEF Captured
  <2>2. v.entry = 0
    BY <1>1, <2>1, ReplayEnters
  <2> QED
    BY <1>2, <2>2
<1>3. CASE gen.signal # None
  <2>1. ~RangeRejected(day[1]) /\ i # 0 /\ gen.signal = SignalAt(day, i)
    BY <1>1, <1>3 DEF Captured
  <2>2. v.entry = i /\ v.side = BreakoutSide(day, i)
    BY <1>1, <2>1, ReplayEnters
  <2>3. SignalAt(day, i) =
          [side |-> BreakoutSide(day, i), slot |-> day[i].slot,
           entry |-> StopOf(day, IF BreakoutSide(day, i) = "LONG" THEN "SHORT" ELSE "LONG"),
           stop |-> StopOf(day, BreakoutSide(day, i))]
    BY DEF SignalAt, StopOf
  <2> HIDE DEF v, i
  <2>4. v.entry # 0
    BY <2>1, <2>2
  <2> QED
    BY <2>1, <2>2, <2>3, <2>4 DEF v
<1> QED
  BY <1>2, <1>3

(* A breakout by close is one by touch.                                      *)
LEMMA CloseFollowsTouch ==
  ASSUME DayOK, NEW side \in {"LONG", "SHORT"},
         TradeSimulator_simulate(day, side).entry # 0, ~RangeRejected(day[1])
  PROVE  simulate_phase3(day).entry \in 2 .. TradeSimulator_simulate(day, side).entry
<1> DEFINE i == FirstOf(CloseHits(day, side))
<1>1. ~(Len(day) < 2) /\ i # 0 /\ TradeSimulator_simulate(day, side).entry = i
  BY SimulatorIs, ManageFields DEF NoTrade
<1>2. day # << >> /\ Len(day) \in Nat /\ Grows(day, day) /\ Len(day) >= 1
  BY <1>1 DEF DayOK, Grows
<1>3. CloseHits(day, side) \in SUBSET (1 .. Len(day)) /\ CloseHits(day, side) # {}
  BY <1>1 DEF CloseHits, FirstOf
<1>4. i \in CloseHits(day, side) /\ i \in 2 .. Len(day)
  BY <1>1, <1>2, <1>3, FirstOfExists, CloseSettled
<1>5. i \in BreakHits(day)
  <2>1. IsCandle(day[i]) /\ IsCandle(day[1])
    BY <1>2, <1>4 DEF DayOK
  <2>2. InEntryWindow(day[i]) /\ (day[i].close > day[1].high \/ day[i].close < day[1].low)
    BY <1>4 DEF CloseHits
  <2>3. day[i].high > day[1].high \/ day[i].low < day[1].low
    BY <2>1, <2>2 DEF IsCandle, Candles
  <2>4. i \in (1 + 1) .. Len(day)
    BY <1>4
  <2> QED
    BY <2>2, <2>3, <2>4 DEF BreakHits
<1>6. Breakout(day) # 0 /\ Breakout(day) <= i
  <2>1. BreakHits(day) \in SUBSET (1 .. Len(day))
    BY <1>2 DEF BreakHits
  <2>2. FirstOf(BreakHits(day)) \in 1 .. Len(day) /\ FirstOf(BreakHits(day)) <= i
    BY <1>2, <1>5, <2>1, FirstOfExists
  <2> QED
    BY <2>2, BreakoutIs
<1> HIDE DEF i
<1>7. simulate_phase3(day).entry = Breakout(day) /\ Breakout(day) \in 2 .. Len(day)
  BY <1>2, <1>6, ReplayEnters
<1> QED
  BY <1>1, <1>4, <1>6, <1>7

(* What the generator has captured is what the candles say: the inductive    *)
(* invariant (ORHVSignalGenerator).                                          *)
THEOREM DayInvariant == DaySpec => []DayInv
<1>1. DayInv /\ [DayNext]_dayVars => DayInv'
  BY DayNextKeeps
<1> QED
  BY <1>1, DayStarts, PTL DEF DaySpec

(* The validator's replay, the backtest engine's and the live generator take *)
(* the same trade from the same candles, for any shapes, slots and prices,   *)
(* and the close-based simulator never enters first                          *)
(* (_simulate_phase3, _simulate_phase3_trade, on_candle, simulate).          *)
THEOREM ReplaysAgreeTheorem == DaySpec => []ReplaysAgree
<1>1. DayInv => ReplaysAgree
  <2> SUFFICES ASSUME DayInv PROVE ReplaysAgree
    OBVIOUS
  <2>1. DayOK
    BY DEF DayInv
  <2> QED
    BY <2>1, ReplaysAreOne, SignalIsReplay, CloseFollowsTouch DEF ReplaysAgree
<1> QED
  BY <1>1, DayInvariant, PTL

(* No verdict is revised by the candles that follow it                       *)
(* (ORHVDetector.detect, _simulate_phase3, TradeSimulator.simulate).         *)
THEOREM VerdictIsFinalTheorem == DaySpec => VerdictIsFinal
<1> DEFINE Final ==
      /\ detect(day).is_candidate => detect(day') = detect(day)
      /\ simulate_phase3(day).closed => simulate_phase3(day') = simulate_phase3(day)
      /\ \A side \in {"LONG", "SHORT"} :
            TradeSimulator_simulate(day, side).closed
               => TradeSimulator_simulate(day', side) = TradeSimulator_simulate(day, side)
<1>1. ASSUME DayInv, DayNext PROVE Final
  <2>1. CASE day' = day
    BY <2>1
  <2>2. CASE CandleClosed
    <3>1. Grows(day, day')
      <4>1. PICK slot \in Slots, s \in Shapes :
               /\ day # << >> => slot > day[Len(day)].slot
               /\ day' = Append(day, Candle(slot, s))
        BY <2>2 DEF CandleClosed
      <4> QED
        BY <1>1, <4>1, CandleIsCandle, DayGrows DEF DayInv
    <3> QED
      BY <3>1, DetectSettled, ReplaySettled, SimulatorSettled
  <2> QED
    BY <1>1, <2>1, <2>2 DEF DayNext, activate, add_candidate, lock_symbol, deactivate
<1>2. DayInv /\ [DayNext]_dayVars => [Final]_dayVars
  BY <1>1
<1> QED
  BY <1>2, DayInvariant, PTL DEF DaySpec, VerdictIsFinal
-----------------------------------------------------------------------------
(* The windows of a walk-forward run, over any calendar.                     *)

LastMonth == Len(MonthLengths)
InMonth(d, m) ==
    m \in 1 .. LastMonth /\ MonthStart[m] < d /\ d <= MonthStart[m] + MonthLengths[m]

LEMMA LengthsAreNumbers ==
  /\ LastMonth \in Nat /\ DOMAIN MonthLengths = 1 .. LastMonth
  /\ \A m \in 1 .. LastMonth : MonthLengths[m] \in Int /\ MonthLengths[m] >= 28
BY WfCalendarAssumption DEF LastMonth

(* The first days of the months exist ...                                    *)
LEMMA MonthStartExists ==
  \E f \in [1 .. LastMonth -> Int] : \A m \in 1 .. LastMonth :
     f[m] = IF m = 1 THEN 0 ELSE f[m - 1] + MonthLengths[m - 1]
<1> DEFINE Starts(f, m) == f[m] = IF m = 1 THEN 0 ELSE f[m - 1] + MonthLengths[m - 1]
           G == {k \in 0 .. LastMonth :
                   \E f \in [1 .. LastMonth -> Int] : \A m \in 1 .. k : Starts(f, m)}
<1>1. LastMonth \in Nat
  BY LengthsAreNumbers
<1>2. 0 \in G
  <2>1. [m \in 1 .. LastMonth |-> 0] \in [1 .. LastMonth -> Int]
    OBVIOUS
  <2> HIDE DEF Starts
  <2>2. \A f : \A m \in 1 .. 0 : Starts(f, m)
    OBVIOUS
  <2>3. \E f \in [1 .. LastMonth -> Int] : \A m \in 1 .. 0 : Starts(f, m)
    BY <2>1, <2>2
  <2>4. 0 \in 0 .. LastMonth
    BY <1>1
  <2> QED
    BY <2>3, <2>4
<1>3. ASSUME NEW k \in 0 .. LastMonth, k + 1 <= LastMonth, k \in G PROVE k + 1 \in G
  <2>1. PICK f \in [1 .. LastMonth -> Int] : \A m \in 1 .. k : Starts(f, m)
    BY <1>3
  <2> DEFINE x == IF k = 0 THEN 0 ELSE f[k] + MonthLengths[k]
             g == [f EXCEPT ![k + 1] = x]
  <2>2. x \in Int
    BY <1>1, <1>3, LengthsAreNumbers
  <2>3. /\ g \in [1 .. LastMonth -> Int] /\ g[k + 1] = x
        /\ \A m \in 1 .. k : g[m] = f[m]
    <3> HIDE DEF x
    <3> QED
      BY <1>1, <1>3, <2>2
  <2> HIDE DEF g
  <2>4. ASSUME NEW m \in 1 .. k + 1 PROVE Starts(g, m)
    <3>1. CASE m = k + 1
      <4>1. k # 0 => k \in 1 .. k /\ k + 1 # 1 /\ (k + 1) - 1 = k
        BY <1>1, <1>3
      <4> QED
        BY <2>3, <3>1, <4>1
    <3>2. CASE m # k + 1
      <4>1. m \in 1 .. k /\ (m # 1 => m - 1 \in 1 .. k)
        BY <1>3, <2>4, <3>2
      <4> QED
        BY <2>1, <2>3, <4>1
    <3> QED
      BY <3>1, <3>2
  <2> HIDE DEF Starts
  <2> QED
    BY <1>1, <1>3, <2>3, <2>4, SMTT(30)
<1>4. LastMonth \in G
  <2> HIDE DEF G
  <2> QED
    BY <1>1, <1>2, <1>3, UpTo
<1> QED
  BY <1>4

(* ... and are what their definition says.                                   *)
LEMMA MonthStartIs ==
  /\ \A m \in 1 .. LastMonth : MonthStart[m] \in Int
  /\ \A m \in 1 .. LastMonth :
        MonthStart[m] = IF m = 1 THEN 0 ELSE MonthStart[m - 1] + MonthLengths[m - 1]
<1> DEFINE Body(f) == [m \in 1 .. LastMonth |->
                         IF m = 1 THEN 0 ELSE f[m - 1] + MonthLengths[m - 1]]
<1>1. PICK f \in [1 .. LastMonth -> Int] : \A m \in 1 .. LastMonth :
         f[m] = IF m = 1 THEN 0 ELSE f[m - 1] + MonthLengths[m - 1]
  BY MonthStartExists
<1>2. f = Body(f)
  BY <1>1
<1>3. MonthStart = CHOOSE g : g = Body(g)
  BY DEF MonthStart, LastMonth
<1>4. MonthStart = Body(MonthStart)
  <2> HIDE DEF Body
  <2> QED
    BY <1>2, <1>3
<1>5. \A m \in 1 .. LastMonth :
        MonthStart[m] = IF m = 1 THEN 0 ELSE MonthStart[m - 1] + MonthLengths[m - 1]
  BY <1>4
<1>6. \A m \in 1 .. LastMonth : MonthStart[m] \in Int
  <2> DEFINE G == {k \in 0 .. LastMonth : k = 0 \/ MonthStart[k] \in Int}
  <2>1. 0 \in G
    BY LengthsAreNumbers
  <2>2. ASSUME NEW k \in 0 .. LastMonth, k + 1 <= LastMonth, k \in G PROVE k + 1 \in G
    <3>1. k + 1 \in 1 .. LastMonth /\ (k # 0 => k \in 1 .. LastMonth)
      BY <2>2, LengthsAreNumbers
    <3>2. MonthStart[k + 1] = IF k + 1 = 1 THEN 0 ELSE MonthStart[(k + 1) - 1] + MonthLengths[(k + 1) - 1]
      BY <1>5, <3>1
    <3>3. (k + 1) - 1 = k /\ (k = 0 <=> k + 1 = 1)
      BY <2>2
    <3> QED
      BY <2>2, <3>1, <3>2, <3>3, LengthsAreNumbers
  <2>3. \A k \in 0 .. LastMonth : k \in G
    <3> HIDE DEF G
    <3> QED
      BY <2>1, <2>2, UpTo, LengthsAreNumbers
  <2> QED
    BY <2>3
<1> QED
  BY <1>5, <1>6

(* Months follow each other.                                                 *)
LEMMA MonthsInOrder ==
  \A a, b \in 1 .. LastMonth : a < b => MonthStart[a] + MonthLengths[a] <= MonthStart[b]
<1> DEFINE G == {b \in 0 .. LastMonth :
                   \A a \in 1 .. b - 1 : MonthStart[a] + MonthLengths[a] <= MonthStart[b]}
<1>1. 0 \in G
  BY LengthsAreNumbers
<1>2. ASSUME NEW b \in 0 .. LastMonth, b + 1 <= LastMonth, b \in G PROVE b + 1 \in G
  <2>1. SUFFICES ASSUME NEW a \in 1 .. b
                 PROVE  MonthStart[a] + MonthLengths[a] <= MonthStart[b + 1]
    BY <1>2, LengthsAreNumbers
  <2>2. b \in 1 .. LastMonth /\ b + 1 \in 1 .. LastMonth /\ b + 1 # 1 /\ (b + 1) - 1 = b
        /\ a \in 1 .. LastMonth
    BY <1>2, <2>1, LengthsAreNumbers
  <2>3. MonthStart[b + 1] = MonthStart[b] + MonthLengths[b]
    BY <2>2, MonthStartIs
  <2>4. a = b \/ MonthStart[a] + MonthLengths[a] <= MonthStart[b]
    <3>1. a = b \/ a \in 1 .. b - 1
      BY <2>1, <2>2
    <3> QED
      BY <1>2, <3>1
  <2>5. /\ MonthStart[a] \in Int /\ MonthStart[b] \in Int
        /\ MonthLengths[a] \in Int /\ MonthLengths[b] \in Int /\ MonthLengths[b] >= 28
    BY <2>2, LengthsAreNumbers, MonthStartIs
  <2> QED
    BY <2>3, <2>4, <2>5
<1>3. \A b \in 0 .. LastMonth : b \in G
  <2> HIDE DEF G
  <2> QED
    BY <1>1, <1>2, UpTo, LengthsAreNumbers
<1>4. SUFFICES ASSUME NEW a \in 1 .. LastMonth, NEW b \in 1 .. LastMonth, a < b
               PROVE  MonthStart[a] + MonthLengths[a] <= MonthStart[b]
  OBVIOUS
<1>5. b \in 0 .. LastMonth /\ a \in 1 .. b - 1
  BY <1>4, LengthsAreNumbers
<1> QED
  BY <1>3, <1>5

(* The month of a day is unique, and later days are in no earlier month.     *)
LEMMA MonthsOfDaysInOrder ==
  ASSUME NEW a, NEW b, NEW d \in Int, NEW e \in Int, InMonth(d, a), InMonth(e, b), d <= e
  PROVE  a <= b
<1>1. a \in 1 .. LastMonth /\ b \in 1 .. LastMonth /\ a \in Int /\ b \in Int
  BY DEF InMonth
<1>2. b < a => MonthStart[b] + MonthLengths[b] <= MonthStart[a]
  BY <1>1, MonthsInOrder
<1>3. /\ MonthStart[a] \in Int /\ MonthStart[b] \in Int
      /\ MonthLengths[b] \in Int
  BY <1>1, MonthStartIs, LengthsAreNumbers
<1>4. MonthStart[a] < d /\ e <= MonthStart[b] + MonthLengths[b]
  BY DEF InMonth
<1> QED
  BY <1>1, <1>2, <1>3, <1>4

LEMMA MonthOfIs ==
  ASSUME NEW m, NEW d \in Int, InMonth(d, m)
  PROVE  MonthOf(d) = m /\ DayOfMonth(d) = d - MonthStart[m] /\ DayOfMonth(d) \in Int
         /\ DayOfMonth(d) >= 1
<1>1. \A k : k \in DOMAIN MonthLengths /\ MonthStart[k] < d /\ d <= MonthStart[k] + MonthLengths[k]
               <=> InMonth(d, k)
  BY LengthsAreNumbers DEF InMonth
<1>2. MonthOf(d) = CHOOSE k \in DOMAIN MonthLengths :
                      MonthStart[k] < d /\ d <= MonthStart[k] + MonthLengths[k]
  BY DEF MonthOf
<1>3. InMonth(d, MonthOf(d))
  <2> DEFINE P(k) == MonthStart[k] < d /\ d <= MonthStart[k] + MonthLengths[k]
  <2>1. \E k \in DOMAIN MonthLengths : P(k)
    BY <1>1
  <2>2. MonthOf(d) = CHOOSE k \in DOMAIN MonthLengths : P(k)
    BY <1>2
  <2>3. MonthOf(d) \in DOMAIN MonthLengths /\ P(MonthOf(d))
    <3> HIDE DEF P
    <3> QED
      BY <2>1, <2>2
  <2> QED
    BY <1>1, <2>3
<1>4. MonthOf(d) <= m /\ m <= MonthOf(d)
  BY <1>3, MonthsOfDaysInOrder
<1>5. MonthOf(d) \in Int /\ m \in Int
  BY <1>3 DEF InMonth
<1>6. MonthOf(d) = m
  BY <1>4, <1>5
<1>7. MonthStart[m] \in Int /\ MonthStart[m] < d
  BY MonthStartIs DEF InMonth
<1> QED
  BY <1>6, <1>7 DEF DayOfMonth

(* A later month's same day, or its last one.                                *)
LEMMA AddMonthsIs ==
  ASSUME NEW m, NEW d \in Int, NEW k \in Nat, InMonth(d, m), m + k <= LastMonth
  PROVE  /\ AddMonths(d, k) \in Int
         /\ InMonth(AddMonths(d, k), m + k)
         /\ k >= 1 => d < AddMonths(d, k)
         /\ DayOfMonth(d) <= 28 => AddMonths(d, k) = MonthStart[m + k] + DayOfMonth(d)
<1> DEFINE x == DayOfMonth(d)
           l == MonthLengths[m + k]
<1>1. m \in 1 .. LastMonth /\ m + k \in 1 .. LastMonth
  BY LengthsAreNumbers DEF InMonth
<1>2. MonthOf(d) = m /\ x = d - MonthStart[m] /\ x \in Int /\ x >= 1
  BY MonthOfIs
<1>3. l \in Int /\ l >= 28 /\ MonthStart[m + k] \in Int /\ MonthStart[m] \in Int
      /\ MonthLengths[m] \in Int
  BY <1>1, LengthsAreNumbers, MonthStartIs
<1>4. AddMonths(d, k) = MonthStart[m + k] + Min({x, l})
  BY <1>2 DEF AddMonths
<1> HIDE DEF x, l
<1>5. Min({x, l}) = IF x <= l THEN x ELSE l
  <2>1. CASE x <= l
    <3>1. Min({x, l}) = x
      BY <1>2, <1>3, <2>1, MinIs
    <3> QED
      BY <2>1, <3>1
  <2>2. CASE ~(x <= l)
    <3>1. {x, l} \in SUBSET Int /\ l \in {x, l}
      BY <1>2, <1>3
    <3>2. \A j \in {x, l} : l <= j
      BY <1>2, <1>3, <2>2
    <3>3. Min({x, l}) = l
      BY <3>1, <3>2, MinIs
    <3> QED
      BY <2>2, <3>3
  <2> QED
    BY <2>1, <2>2
<1>6. AddMonths(d, k) \in Int /\ MonthStart[m + k] < AddMonths(d, k)
      /\ AddMonths(d, k) <= MonthStart[m + k] + l
  BY <1>2, <1>3, <1>4, <1>5
<1>7. InMonth(AddMonths(d, k), m + k)
  BY <1>1, <1>6 DEF InMonth, l
<1>8. k >= 1 => d < AddMonths(d, k)
  <2>1. k >= 1 => MonthStart[m] + MonthLengths[m] <= MonthStart[m + k]
    BY <1>1, MonthsInOrder
  <2>2. d <= MonthStart[m] + MonthLengths[m]
    BY DEF InMonth
  <2> QED
    BY <1>3, <1>6, <2>1, <2>2
<1>9. x <= 28 => AddMonths(d, k) = MonthStart[m + k] + x
  BY <1>2, <1>3, <1>4, <1>5
<1> QED
  BY <1>6, <1>7, <1>8, <1>9 DEF x

(* The record of a run; its windows; and what holds when the generator asks  *)
(* for the next one: the month its training starts in leaves room for the    *)
(* training, every window so far trained before it and, when no day is       *)
(* clipped, tested before the day A the next test would start on, up to it   *)
(* when the windows step by their testing length.                            *)
WindowRecord == [training_start : Int, training_end : Int,
                 testing_start : Int, testing_end : Int]

WfType ==
    /\ wf.cfg \in WfConfigs
    /\ wf.phase \in {"generate", "rejected", "segments", "done"}
    /\ wf.training_start \in Int
    /\ wf = [cfg |-> wf.cfg, history |-> wf.history, phase |-> wf.phase,
             training_start |-> wf.training_start, windows |-> wf.windows,
             segments |-> wf.segments]
    /\ wf.windows \in Seq(WindowRecord)

NotClipped(cfg) == DayOfMonth(cfg.from) <= 28
FirstTestDay(cfg, ts) == AddMonths(ts, cfg.training)

InRange(cfg, w) ==
    /\ cfg.from <= w.training_start
    /\ w.training_start <= w.training_end
    /\ w.training_end < w.testing_start
    /\ w.testing_start <= w.testing_end
    /\ w.testing_end <= cfg.to

InOrder(cfg, ws) ==
    LET n == Len(ws)
    IN  /\ \A i \in 1 .. n : InRange(cfg, ws[i])
        /\ \A i \in 1 .. n - 1 : ws[i].training_start < ws[i + 1].training_start
        /\ NotClipped(cfg) /\ cfg.step >= cfg.testing =>
              \A i, j \in 1 .. n : i < j => ws[i].testing_end < ws[j].testing_start
        /\ NotClipped(cfg) /\ cfg.step = cfg.testing =>
              \A i \in 1 .. n - 1 : ws[i + 1].testing_start = ws[i].testing_end + 1

ReachTheEnd(cfg, ws) ==
    /\ ws # << >>
    /\ NotClipped(cfg) /\ cfg.step = cfg.testing => ws[Len(ws)].testing_end = cfg.to

NextFits(cfg, ws, ts) ==
    /\ cfg.from <= ts
    /\ \E m \in 1 .. LastMonth : InMonth(ts, m) /\ m + cfg.training <= LastMonth
    /\ NotClipped(cfg) => DayOfMonth(ts) = DayOfMonth(cfg.from)
    /\ \A i \in 1 .. Len(ws) : ws[i].training_start < ts
    /\ NotClipped(cfg) /\ cfg.step >= cfg.testing =>
          \A i \in 1 .. Len(ws) : ws[i].testing_end < FirstTestDay(cfg, ts)
    /\ NotClipped(cfg) /\ cfg.step = cfg.testing /\ ws # << >> =>
          ws[Len(ws)].testing_end + 1 = FirstTestDay(cfg, ts)

WfInv ==
    /\ WfType
    /\ InOrder(wf.cfg, wf.windows)
    /\ wf.phase \in {"segments", "done"} => ReachTheEnd(wf.cfg, wf.windows)
    /\ wf.phase = "generate" /\ wf.windows # << >> => validate_window_config(wf.cfg)
    /\ wf.phase = "generate" /\ validate_window_config(wf.cfg) =>
          NextFits(wf.cfg, wf.windows, wf.training_start)

(* What a request's dates leave room for.                                    *)
LEMMA RequestInCalendar ==
  ASSUME NEW cfg \in WfConfigs
  PROVE  /\ cfg.from \in Int /\ cfg.to \in Int
         /\ cfg.training \in Int /\ cfg.testing \in Int /\ cfg.step \in Int
         /\ \A d \in {cfg.from, cfg.to} : \E m \in 1 .. LastMonth :
               /\ InMonth(d, m)
               /\ m + cfg.training <= LastMonth
               /\ m + cfg.testing <= LastMonth
               /\ m + cfg.step <= LastMonth
<1>1. cfg \in [from : Int, to : Int, training : Int, testing : Int, step : Int]
  BY WfCalendarAssumption
<1>2. \A d \in {cfg.from, cfg.to} :
          \E m \in DOMAIN MonthLengths :
             /\ MonthStart[m] < d /\ d <= MonthStart[m] + MonthLengths[m]
             /\ \A k \in {cfg.training, cfg.testing, cfg.step} : m + k <= Len(MonthLengths)
  BY WfCalendarAssumption
<1>3. DOMAIN MonthLengths = 1 .. LastMonth
  BY LengthsAreNumbers
<1> QED
  BY <1>1, <1>2, <1>3 DEF InMonth, LastMonth

LEMMA WfInitInv == WfInit => WfInv
<1>1. SUFFICES ASSUME WfInit PROVE WfInv
  OBVIOUS
<1>2. PICK cfg \in WfConfigs, days \in Histories :
         wf = [cfg |-> cfg, history |-> days, phase |-> "generate",
               training_start |-> cfg.from, windows |-> << >>, segments |-> << >>]
  BY <1>1 DEF WfInit
<1>3. wf.cfg = cfg /\ wf.phase = "generate" /\ wf.training_start = cfg.from /\ wf.windows = << >>
      /\ wf.history = days /\ wf.segments = << >>
  BY <1>2
<1>4. WfType
  BY <1>2, <1>3, RequestInCalendar DEF WfType
<1>5. Len(wf.windows) = 0
  BY <1>3
<1>6. InOrder(wf.cfg, wf.windows)
  BY <1>3, <1>5 DEF InOrder
<1>7. \E m \in 1 .. LastMonth : InMonth(cfg.from, m) /\ m + cfg.training <= LastMonth
  BY RequestInCalendar
<1>8. validate_window_config(cfg) => NextFits(cfg, << >>, cfg.from)
  BY <1>7, RequestInCalendar DEF NextFits
<1> QED
  BY <1>3, <1>4, <1>6, <1>8 DEF WfInv

(* What appending does to a sequence of windows.                             *)
LEMMA WindowAppended ==
  ASSUME NEW s \in Seq(WindowRecord), NEW w \in WindowRecord
  PROVE  /\ Append(s, w) \in Seq(WindowRecord) /\ Append(s, w) # << >>
         /\ Len(s) \in Nat /\ Len(Append(s, w)) = Len(s) + 1
         /\ Append(s, w)[Len(s) + 1] = w
         /\ \A i \in 1 .. Len(s) : Append(s, w)[i] = s[i] /\ s[i] \in WindowRecord
<1>1. Append(s, w) \in Seq(WindowRecord) /\ Len(s) \in Nat /\ Len(Append(s, w)) = Len(s) + 1
  OBVIOUS
<1>2. Append(s, w)[Len(s) + 1] = w
  OBVIOUS
<1>3. \A i \in 1 .. Len(s) : Append(s, w)[i] = s[i] /\ s[i] \in WindowRecord
  OBVIOUS
<1>4. Append(s, w) # << >>
  BY <1>1
<1> QED
  BY <1>1, <1>2, <1>3, <1>4

(* The first day a window tests: after its training, on the same day of the  *)
(* month as the request's first day unless days are clipped.                 *)
LEMMA TestAfterTraining ==
  ASSUME NEW cfg \in WfConfigs, NEW ws, NEW ts \in Int,
         validate_window_config(cfg), NextFits(cfg, ws, ts)
  PROVE  LET A == FirstTestDay(cfg, ts)
         IN  /\ A \in Int /\ ts < A
             /\ \E m \in 1 .. LastMonth :
                   /\ InMonth(ts, m) /\ InMonth(A, m + cfg.training)
                   /\ NotClipped(cfg) =>
                         A = MonthStart[m + cfg.training] + DayOfMonth(cfg.from)
<1> DEFINE A == FirstTestDay(cfg, ts)
<1>1. PICK m \in 1 .. LastMonth : InMonth(ts, m) /\ m + cfg.training <= LastMonth
  BY DEF NextFits
<1>2. cfg.training \in Nat /\ cfg.training >= 1
  BY RequestInCalendar DEF validate_window_config
<1>3. A = AddMonths(ts, cfg.training)
  BY DEF FirstTestDay
<1>4. /\ A \in Int /\ InMonth(A, m + cfg.training) /\ ts < A
      /\ DayOfMonth(ts) <= 28 => A = MonthStart[m + cfg.training] + DayOfMonth(ts)
  BY <1>1, <1>2, <1>3, AddMonthsIs
<1>5. NotClipped(cfg) => A = MonthStart[m + cfg.training] + DayOfMonth(cfg.from)
  BY <1>4 DEF NextFits, NotClipped
<1> QED
  BY <1>1, <1>4, <1>5

(* The day after the testing period of a window whose test starts in time.   *)
LEMMA TestPeriodEnds ==
  ASSUME NEW cfg \in WfConfigs, validate_window_config(cfg),
         NEW a, NEW A \in Int, InMonth(A, a), A <= cfg.to
  PROVE  LET B == AddMonths(A, cfg.testing)
         IN  /\ B \in Int /\ A < B /\ a \in Int
             /\ a + cfg.testing <= LastMonth
             /\ a + cfg.step <= LastMonth
             /\ DayOfMonth(A) <= 28 => B = MonthStart[a + cfg.testing] + DayOfMonth(A)
<1>1. PICK m \in 1 .. LastMonth :
         /\ InMonth(cfg.to, m)
         /\ m + cfg.testing <= LastMonth
         /\ m + cfg.step <= LastMonth
  BY RequestInCalendar
<1>2. /\ cfg.step \in Int /\ cfg.to \in Int
      /\ cfg.testing \in Nat /\ cfg.testing >= 1
  BY RequestInCalendar DEF validate_window_config
<1>3. a <= m
  BY <1>1, <1>2, MonthsOfDaysInOrder
<1>4. a \in Int /\ LastMonth \in Int
  BY LengthsAreNumbers DEF InMonth
<1>5. a + cfg.testing <= LastMonth /\ a + cfg.step <= LastMonth
  BY <1>1, <1>2, <1>3, <1>4
<1>6. /\ AddMonths(A, cfg.testing) \in Int /\ A < AddMonths(A, cfg.testing)
      /\ DayOfMonth(A) <= 28 =>
            AddMonths(A, cfg.testing) = MonthStart[a + cfg.testing] + DayOfMonth(A)
  BY <1>2, <1>5, AddMonthsIs
<1> QED
  BY <1>4, <1>5, <1>6

(* One more window keeps them in order.                                      *)
LEMMA OneMoreWindow ==
  ASSUME NEW cfg \in WfConfigs, NEW ws \in Seq(WindowRecord), NEW w \in WindowRecord,
         InOrder(cfg, ws), NextFits(cfg, ws, w.training_start), InRange(cfg, w),
         w.testing_start = FirstTestDay(cfg, w.training_start)
  PROVE  InOrder(cfg, Append(ws, w))
<1> DEFINE n == Len(ws)
           vs == Append(ws, w)
<1>1. /\ n \in Nat /\ Len(vs) = n + 1 /\ vs[n + 1] = w
      /\ \A i \in 1 .. n : vs[i] = ws[i] /\ ws[i] \in WindowRecord
  BY WindowAppended
<1>2. n > 0 => ws # << >>
  OBVIOUS
<1> HIDE DEF vs
<1>3. ASSUME NEW i \in 1 .. n + 1 PROVE i = n + 1 \/ i \in 1 .. n
  BY <1>1
<1>4. \A i \in 1 .. n + 1 : InRange(cfg, vs[i])
  <2>1. \A i \in 1 .. n : InRange(cfg, vs[i])
    BY <1>1 DEF InOrder
  <2> QED
    BY <1>1, <1>3, <2>1
<1>5. ASSUME NEW i \in 1 .. (n + 1) - 1 PROVE vs[i].training_start < vs[i + 1].training_start
  <2>1. i \in 1 .. n /\ (i = n \/ (i \in 1 .. n - 1 /\ i + 1 \in 1 .. n))
    BY <1>1
  <2>2. CASE i = n
    BY <1>1, <2>1, <2>2 DEF NextFits
  <2>3. CASE i \in 1 .. n - 1 /\ i + 1 \in 1 .. n
    BY <1>1, <2>1, <2>3 DEF InOrder
  <2> QED
    BY <2>1, <2>2, <2>3
<1>6. ASSUME NotClipped(cfg), cfg.step >= cfg.testing,
             NEW i \in 1 .. n + 1, NEW j \in 1 .. n + 1, i < j
      PROVE  vs[i].testing_end < vs[j].testing_start
  <2>1. i \in 1 .. n /\ (j = n + 1 \/ j \in 1 .. n)
    BY <1>1, <1>6
  <2>2. CASE j = n + 1
    BY <1>1, <1>6, <2>1, <2>2 DEF NextFits
  <2>3. CASE j \in 1 .. n
    BY <1>1, <1>6, <2>1, <2>3 DEF InOrder
  <2> QED
    BY <2>1, <2>2, <2>3
<1>7. ASSUME NotClipped(cfg), cfg.step = cfg.testing, NEW i \in 1 .. (n + 1) - 1
      PROVE  vs[i + 1].testing_start = vs[i].testing_end + 1
  <2>1. i \in 1 .. n /\ (i = n \/ (i \in 1 .. n - 1 /\ i + 1 \in 1 .. n))
    BY <1>1
  <2>2. CASE i = n
    BY <1>1, <1>2, <1>7, <2>1, <2>2 DEF NextFits
  <2>3. CASE i \in 1 .. n - 1 /\ i + 1 \in 1 .. n
    BY <1>1, <1>7, <2>1, <2>3 DEF InOrder
  <2> QED
    BY <2>1, <2>2, <2>3
<1> QED
  BY <1>1, <1>4, <1>5, <1>6, <1>7 DEF InOrder, vs

(* A step that keeps the record's shape, the request and the windows.        *)
LEMMA GenerateStops ==
  ASSUME WfInv, wf.phase = "generate", wf' = [wf EXCEPT !.phase = "rejected"]
  PROVE  WfInv'
<1>1. /\ wf'.cfg = wf.cfg /\ wf'.windows = wf.windows /\ wf'.phase = "rejected"
      /\ WfType'
  BY DEF WfInv, WfType
<1>2. InOrder(wf.cfg, wf.windows)
  BY DEF WfInv
<1> QED
  BY <1>1, <1>2 DEF WfInv

(* No room for another training period: the windows found are the run's.     *)
LEMMA GenerateEnds ==
  ASSUME WfInv, wf.phase = "generate", validate_window_config(wf.cfg),
         PeriodEnd(wf.training_start, wf.cfg.training) >= wf.cfg.to,
         wf.windows # << >>, wf' = [wf EXCEPT !.phase = "segments"]
  PROVE  WfInv'
<1> DEFINE cfg == wf.cfg
           ts == wf.training_start
           ws == wf.windows
           A == FirstTestDay(cfg, ts)
<1>1. /\ wf'.cfg = cfg /\ wf'.windows = ws /\ wf'.phase = "segments"
      /\ WfType'
  BY DEF WfInv, WfType
<1>2. InOrder(cfg, ws) /\ NextFits(cfg, ws, ts)
  BY DEF WfInv
<1>3. cfg \in WfConfigs /\ ts \in Int /\ ws \in Seq(WindowRecord)
  BY DEF WfInv, WfType
<1>4. A \in Int /\ A - 1 >= cfg.to
  BY <1>2, <1>3, TestAfterTraining DEF PeriodEnd, FirstTestDay
<1>5. Len(ws) \in 1 .. Len(ws) /\ ws[Len(ws)] \in WindowRecord
  BY <1>3
<1>6. ASSUME NotClipped(cfg), cfg.step = cfg.testing
      PROVE  ws[Len(ws)].testing_end = cfg.to
  <2>1. ws[Len(ws)].testing_end + 1 = A
    BY <1>2, <1>6 DEF NextFits
  <2>2. ws[Len(ws)].testing_end <= cfg.to
    BY <1>2, <1>5 DEF InOrder, InRange
  <2>3. ws[Len(ws)].testing_end \in Int /\ cfg.to \in Int
    BY <1>3, <1>5, RequestInCalendar DEF WindowRecord
  <2> QED
    BY <1>4, <2>1, <2>2, <2>3
<1>7. ReachTheEnd(cfg, ws)
  BY <1>6 DEF ReachTheEnd
<1> HIDE DEF cfg, ws
<1> QED
  BY <1>1, <1>2, <1>7 DEF WfInv

(* The window the generator adds, whose tests end on e.                      *)
NewWindow(cfg, ts, e) ==
    [training_start |-> ts, training_end |-> FirstTestDay(cfg, ts) - 1,
     testing_start |-> FirstTestDay(cfg, ts), testing_end |-> e]

LEMMA NewWindowInOrder ==
  ASSUME NEW cfg \in WfConfigs, NEW ws \in Seq(WindowRecord), NEW ts \in Int, NEW e \in Int,
         validate_window_config(cfg), InOrder(cfg, ws), NextFits(cfg, ws, ts),
         FirstTestDay(cfg, ts) <= e, e <= cfg.to
  PROVE  /\ NewWindow(cfg, ts, e) \in WindowRecord
         /\ InOrder(cfg, Append(ws, NewWindow(cfg, ts, e)))
<1> DEFINE w == NewWindow(cfg, ts, e)
           A == FirstTestDay(cfg, ts)
<1>1. A \in Int /\ ts < A
  BY TestAfterTraining
<1>2. /\ w.training_start = ts /\ w.training_end = A - 1
      /\ w.testing_start = A /\ w.testing_end = e
      /\ w \in WindowRecord
  BY <1>1 DEF NewWindow, WindowRecord
<1> HIDE DEF w
<1>3. cfg.from <= ts
  BY DEF NextFits
<1>4. InRange(cfg, w)
  BY <1>1, <1>2, <1>3 DEF InRange
<1>5. InOrder(cfg, Append(ws, w))
  BY <1>2, <1>4, OneMoreWindow
<1> QED
  BY <1>2, <1>5 DEF w

(* The last window is cut at the last day of the range.                      *)
LEMMA GenerateCuts ==
  ASSUME WfInv, wf.phase = "generate", validate_window_config(wf.cfg),
         FirstTestDay(wf.cfg, wf.training_start) <= wf.cfg.to,
         wf' = [wf EXCEPT !.windows = Append(@, NewWindow(wf.cfg, wf.training_start, wf.cfg.to)),
                          !.phase = "segments"]
  PROVE  WfInv'
<1> DEFINE cfg == wf.cfg
           ts == wf.training_start
           ws == wf.windows
           w == NewWindow(cfg, ts, cfg.to)
<1>1. cfg \in WfConfigs /\ ts \in Int /\ ws \in Seq(WindowRecord) /\ cfg.to \in Int
  BY RequestInCalendar DEF WfInv, WfType
<1>2. InOrder(cfg, ws) /\ NextFits(cfg, ws, ts)
  BY DEF WfInv
<1>3. w \in WindowRecord /\ InOrder(cfg, Append(ws, w))
  BY <1>1, <1>2, NewWindowInOrder
<1>4. w.testing_end = cfg.to
  BY DEF NewWindow
<1> HIDE DEF w
<1>5. /\ Append(ws, w) \in Seq(WindowRecord) /\ Append(ws, w) # << >>
      /\ Append(ws, w)[Len(Append(ws, w))] = w
  BY <1>1, <1>3, WindowAppended
<1>6. wf' = [wf EXCEPT !.windows = Append(ws, w), !.phase = "segments"]
  BY DEF w
<1>7. /\ wf'.cfg = cfg /\ wf'.windows = Append(ws, w) /\ wf'.phase = "segments"
      /\ WfType'
  BY <1>5, <1>6 DEF WfInv, WfType
<1>8. ReachTheEnd(cfg, Append(ws, w))
  BY <1>4, <1>5 DEF ReachTheEnd
<1> HIDE DEF cfg, ws
<1> QED
  BY <1>3, <1>7, <1>8 DEF WfInv

(* What stays true of the next window when one that ends in range is added.  *)
LEMMA NextStillFits ==
  ASSUME NEW cfg \in WfConfigs, NEW ws \in Seq(WindowRecord), NEW ts \in Int,
         validate_window_config(cfg), NextFits(cfg, ws, ts),
         NEW A, A = FirstTestDay(cfg, ts), A <= cfg.to,
         NEW B, B = AddMonths(A, cfg.testing)
  PROVE  /\ AddMonths(ts, cfg.step) \in Int /\ B \in Int /\ A < B
         /\ NextFits(cfg, Append(ws, NewWindow(cfg, ts, B - 1)), AddMonths(ts, cfg.step))
<1> DEFINE w == NewWindow(cfg, ts, B - 1)
           us == AddMonths(ts, cfg.step)
           vs == Append(ws, w)
           n == Len(ws)
           dom == DayOfMonth(cfg.from)
           A2 == FirstTestDay(cfg, us)
<1>1. PICK m \in 1 .. LastMonth :
         /\ InMonth(ts, m) /\ InMonth(A, m + cfg.training) /\ A \in Int /\ ts < A
         /\ NotClipped(cfg) => A = MonthStart[m + cfg.training] + dom
  BY TestAfterTraining
<1>2. /\ cfg.step \in Nat /\ cfg.step >= 1 /\ cfg.training \in Nat /\ cfg.training >= 1
      /\ cfg.testing \in Nat /\ cfg.testing >= 1
      /\ LastMonth \in Nat /\ cfg.from \in Int /\ m \in Int
  <2>1. cfg.step \in Int /\ cfg.training \in Int /\ cfg.testing \in Int /\ cfg.from \in Int
    BY RequestInCalendar
  <2>2. cfg.step > 0 /\ cfg.training > 0 /\ cfg.testing > 0
    BY DEF validate_window_config
  <2> QED
    BY <2>1, <2>2, LengthsAreNumbers
<1>3. /\ B \in Int /\ A < B
      /\ m + cfg.training + cfg.testing <= LastMonth
      /\ m + cfg.training + cfg.step <= LastMonth
      /\ DayOfMonth(A) <= 28 => B = MonthStart[m + cfg.training + cfg.testing] + DayOfMonth(A)
  BY <1>1, <1>2, TestPeriodEnds
<1>4. /\ us \in Int /\ InMonth(us, m + cfg.step) /\ ts < us
      /\ DayOfMonth(ts) <= 28 => us = MonthStart[m + cfg.step] + DayOfMonth(ts)
  <2>1. m + cfg.step <= LastMonth
    BY <1>2, <1>3
  <2> QED
    BY <1>1, <1>2, <2>1, AddMonthsIs
<1>5. m + cfg.step + cfg.training <= LastMonth
  BY <1>2, <1>3
<1>6. /\ w.training_start = ts /\ w.testing_end = B - 1 /\ w \in WindowRecord
  BY <1>1, <1>3 DEF NewWindow, WindowRecord
<1> HIDE DEF w, A2, us
<1>7. /\ n \in Nat /\ Len(vs) = n + 1 /\ vs[n + 1] = w /\ vs # << >>
      /\ \A i \in 1 .. n : vs[i] = ws[i] /\ ws[i] \in WindowRecord
  BY <1>6, WindowAppended
<1> HIDE DEF vs, n
<1>8. \A i \in 1 .. n + 1 : i = n + 1 \/ i \in 1 .. n
  BY <1>7
<1>9. cfg.from <= us
  BY <1>2, <1>4 DEF NextFits
<1>10. m + cfg.step \in 1 .. LastMonth
  BY <1>4 DEF InMonth
<1>11. A2 \in Int /\ (DayOfMonth(us) <= 28 =>
                       A2 = MonthStart[m + cfg.step + cfg.training] + DayOfMonth(us))
  BY <1>2, <1>4, <1>5, AddMonthsIs DEF A2, FirstTestDay
<1>12. NotClipped(cfg) => DayOfMonth(us) = dom
  <2>1. SUFFICES ASSUME NotClipped(cfg) PROVE DayOfMonth(us) = dom
    OBVIOUS
  <2>2. DayOfMonth(ts) = dom /\ dom <= 28
    BY <2>1 DEF NextFits, NotClipped
  <2>3. DayOfMonth(us) = us - MonthStart[m + cfg.step]
    BY <1>4, MonthOfIs
  <2>4. DayOfMonth(ts) \in Int
    BY <1>1, MonthOfIs
  <2>5. MonthStart[m + cfg.step] \in Int
    BY <1>10, MonthStartIs
  <2> QED
    BY <1>4, <2>2, <2>3, <2>4, <2>5
<1>13. \A i \in 1 .. n + 1 : vs[i].training_start < us
  <2>1. ASSUME NEW i \in 1 .. n PROVE vs[i].training_start < us
    <3>1. ws[i].training_start < ts
      BY DEF NextFits, n
    <3>2. ws[i].training_start \in Int /\ vs[i] = ws[i]
      BY <1>7 DEF WindowRecord
    <3> QED
      BY <1>4, <3>1, <3>2
  <2> QED
    BY <1>4, <1>6, <1>7, <1>8, <2>1
(* B is the same day of the month testing later, A2 the one step later.      *)
<1>14. ASSUME NotClipped(cfg), cfg.step >= cfg.testing
       PROVE  B <= A2 /\ (cfg.step = cfg.testing => B = A2)
  <2>1. dom <= 28 /\ dom \in Int
    <3>1. dom <= 28
      BY <1>14 DEF NotClipped
    <3>2. DayOfMonth(us) = dom /\ DayOfMonth(us) \in Int
      BY <1>4, <1>12, <1>14, MonthOfIs
    <3> QED
      BY <3>1, <3>2
  <2>2. A2 = MonthStart[m + cfg.step + cfg.training] + dom
    BY <1>11, <1>12, <1>14, <2>1
  <2> DEFINE a == m + cfg.training + cfg.testing
             b == m + cfg.step + cfg.training
  <2>3. DayOfMonth(A) = A - MonthStart[m + cfg.training]
    BY <1>1, MonthOfIs
  <2>4. MonthStart[m + cfg.training] \in Int
    <3>1. m + cfg.training \in 1 .. LastMonth
      BY <1>1 DEF InMonth
    <3> QED
      BY <3>1, MonthStartIs
  <2>5. DayOfMonth(A) = dom
    BY <1>1, <1>14, <2>1, <2>3, <2>4
  <2>6. B = MonthStart[a] + dom
    BY <1>3, <2>1, <2>5
  <2>7. a \in 1 .. LastMonth /\ b \in 1 .. LastMonth /\ (a < b \/ a = b)
        /\ (cfg.step = cfg.testing => a = b)
    <3>1. m \in 1 .. LastMonth
      OBVIOUS
    <3>2. a <= LastMonth /\ b <= LastMonth
      BY <1>3, <1>5
    <3>3. a \in Int /\ b \in Int
      BY <1>2
    <3>4. 1 <= a
      BY <1>2, <3>1
    <3>5. a <= b /\ (cfg.step = cfg.testing => a = b)
      BY <1>2, <1>14
    <3> QED
      BY <1>2, <3>2, <3>3, <3>4, <3>5
  <2> HIDE DEF a, b
  <2>8. /\ MonthStart[a] \in Int /\ MonthStart[b] \in Int
        /\ MonthLengths[a] \in Int /\ MonthLengths[a] >= 28
        /\ a < b => MonthStart[a] + MonthLengths[a] <= MonthStart[b]
    BY <2>7, MonthStartIs, MonthsInOrder, LengthsAreNumbers
  <2>9. MonthStart[a] <= MonthStart[b]
    BY <2>7, <2>8
  <2>10. A2 = MonthStart[b] + dom
    BY <2>2 DEF b
  <2> QED
    BY <2>1, <2>6, <2>7, <2>8, <2>9, <2>10
<1>15. ASSUME NotClipped(cfg), cfg.step >= cfg.testing, NEW i \in 1 .. n + 1
       PROVE  vs[i].testing_end < A2
  <2>1. CASE i = n + 1
    BY <1>3, <1>6, <1>7, <1>11, <1>14, <1>15, <2>1
  <2>2. CASE i \in 1 .. n
    <3>1. ws[i].testing_end < A
      BY <1>15, <2>2 DEF NextFits, n
    <3>2. ws[i].testing_end \in Int /\ vs[i] = ws[i]
      BY <1>7, <2>2 DEF WindowRecord
    <3> QED
      BY <1>1, <1>3, <1>11, <1>14, <1>15, <3>1, <3>2
  <2> QED
    BY <1>8, <2>1, <2>2
<1>16. ASSUME NotClipped(cfg), cfg.step = cfg.testing
       PROVE  vs[n + 1].testing_end + 1 = A2
  BY <1>2, <1>3, <1>6, <1>7, <1>11, <1>14, <1>16
<1>17. NextFits(cfg, vs, us)
  <2>1. InMonth(us, m + cfg.step) /\ m + cfg.step + cfg.training <= LastMonth
    BY <1>4, <1>5
  <2> QED
    BY <1>7, <1>9, <1>10, <1>12, <1>13, <1>15, <1>16, <2>1 DEF NextFits, A2
<1> QED
  BY <1>3, <1>4, <1>17 DEF vs, us, w

LEMMA GenerateAdds ==
  ASSUME WfInv, wf.phase = "generate", validate_window_config(wf.cfg),
         NEW A, A = FirstTestDay(wf.cfg, wf.training_start), A <= wf.cfg.to,
         NEW B, B = AddMonths(A, wf.cfg.testing), B - 1 <= wf.cfg.to,
         wf' = [wf EXCEPT !.windows = Append(@, NewWindow(wf.cfg, wf.training_start, B - 1)),
                          !.training_start = AddMonths(@, wf.cfg.step)]
  PROVE  WfInv'
<1> DEFINE cfg == wf.cfg
           ts == wf.training_start
           ws == wf.windows
           w == NewWindow(cfg, ts, B - 1)
           us == AddMonths(ts, cfg.step)
<1>1. cfg \in WfConfigs /\ ts \in Int /\ ws \in Seq(WindowRecord)
  BY DEF WfInv, WfType
<1>2. InOrder(cfg, ws) /\ NextFits(cfg, ws, ts)
  BY DEF WfInv
<1>3. us \in Int /\ B \in Int /\ A < B /\ NextFits(cfg, Append(ws, w), us)
  BY <1>1, <1>2, NextStillFits
<1>4. A \in Int
  BY <1>1, <1>2, TestAfterTraining
<1>5. B - 1 \in Int /\ A <= B - 1
  BY <1>3, <1>4
<1>6. w \in WindowRecord /\ InOrder(cfg, Append(ws, w))
  BY <1>1, <1>2, <1>5, NewWindowInOrder
<1>7. wf' = [wf EXCEPT !.windows = Append(ws, w), !.training_start = us]
  OBVIOUS
<1> HIDE DEF w, us
<1>8. Append(ws, w) \in Seq(WindowRecord)
  BY <1>1, <1>6, WindowAppended
<1>9. /\ wf'.cfg = cfg /\ wf'.windows = Append(ws, w) /\ wf'.phase = "generate"
      /\ wf'.training_start = us /\ WfType'
  BY <1>3, <1>7, <1>8 DEF WfInv, WfType
<1> HIDE DEF cfg, ws
<1>10. validate_window_config(cfg)
  BY DEF cfg
<1> QED
  BY <1>3, <1>6, <1>9, <1>10 DEF WfInv

(* The four ways an iteration of the loop may go.                            *)
LEMMA GenerateCases ==
  ASSUME WfInv, Generate
  PROVE  LET A == FirstTestDay(wf.cfg, wf.training_start)
             B == AddMonths(A, wf.cfg.testing)
         IN  /\ wf.phase = "generate"
             /\ \/ wf' = [wf EXCEPT !.phase = "rejected"]
                \/ /\ validate_window_config(wf.cfg) /\ wf.windows # << >>
                   /\ PeriodEnd(wf.training_start, wf.cfg.training) >= wf.cfg.to
                   /\ wf' = [wf EXCEPT !.phase = "segments"]
                \/ /\ validate_window_config(wf.cfg) /\ A <= wf.cfg.to
                   /\ wf' = [wf EXCEPT !.windows =
                                          Append(@, NewWindow(wf.cfg, wf.training_start, wf.cfg.to)),
                                       !.phase = "segments"]
                \/ /\ validate_window_config(wf.cfg) /\ A <= wf.cfg.to /\ B - 1 <= wf.cfg.to
                   /\ wf' = [wf EXCEPT !.windows =
                                          Append(@, NewWindow(wf.cfg, wf.training_start, B - 1)),
                                       !.training_start = AddMonths(@, wf.cfg.step)]
<1> DEFINE cfg == wf.cfg
           ts == wf.training_start
           A == FirstTestDay(cfg, ts)
           B == AddMonths(A, cfg.testing)
           training_end == PeriodEnd(ts, cfg.training)
           testing_end == PeriodEnd(training_end + 1, cfg.testing)
           partial == testing_end > cfg.to
           window == [training_start |-> ts, training_end |-> training_end,
                      testing_start |-> training_end + 1,
                      testing_end |-> IF partial THEN cfg.to ELSE testing_end]
           Finished(ws) == IF ws = << >> THEN "rejected" ELSE "segments"
           valid == validate_window_config(cfg)
           ended == training_end >= cfg.to
           room == training_end < cfg.to
<1>1. /\ wf.phase = "generate"
      /\ wf' = CASE ~valid -> [wf EXCEPT !.phase = "rejected"]
                 [] valid /\ ended -> [wf EXCEPT !.phase = Finished(wf.windows)]
                 [] valid /\ room /\ partial ->
                      [wf EXCEPT !.windows = Append(@, window), !.phase = "segments"]
                 [] OTHER -> [wf EXCEPT !.windows = Append(@, window),
                                        !.training_start = AddMonths(@, cfg.step)]
  BY DEF Generate
<1>2. cfg \in WfConfigs /\ ts \in Int /\ cfg.to \in Int
  BY RequestInCalendar DEF WfInv, WfType
<1>0. wf.phase = "generate"
  BY <1>1
<1>3. ASSUME valid
      PROVE  A \in Int /\ training_end = A - 1 /\ training_end + 1 = A
  <2>1. NextFits(cfg, wf.windows, ts)
    BY <1>0, <1>3 DEF WfInv
  <2>2. A \in Int
    BY <1>2, <1>3, <2>1, TestAfterTraining
  <2> QED
    BY <2>2 DEF PeriodEnd, FirstTestDay
<1>4. ASSUME valid, room
      PROVE  B \in Int /\ testing_end = B - 1 /\ A <= cfg.to
  <2>1. A \in Int /\ A <= cfg.to
    BY <1>2, <1>3, <1>4
  <2>0. NextFits(cfg, wf.windows, ts)
    BY <1>0, <1>4 DEF WfInv
  <2>2. PICK m \in 1 .. LastMonth : InMonth(A, m + cfg.training)
    BY <1>2, <1>4, <2>0, TestAfterTraining
  <2>3. B \in Int
    BY <1>2, <1>4, <2>1, <2>2, TestPeriodEnds
  <2>4. testing_end = B - 1
    BY <1>3, <1>4 DEF PeriodEnd
  <2> QED
    BY <2>1, <2>3, <2>4
<1>5. CASE ~valid
  BY <1>1, <1>5
<1>6. CASE valid /\ ended
  <2>0. ~room
    BY <1>2, <1>3, <1>6
  <2>1. wf' = [wf EXCEPT !.phase = Finished(wf.windows)]
    <3> HIDE DEF valid, ended, room, partial, window, Finished
    <3> QED
      BY <1>1, <1>6, <2>0
  <2> QED
    BY <1>1, <1>6, <2>1
<1>7. CASE valid /\ ~ended
  <2>1. room /\ ~ended
    BY <1>2, <1>3, <1>7
  <2>2. CASE partial
    <3>1. wf' = [wf EXCEPT !.windows = Append(@, window), !.phase = "segments"]
      <4> HIDE DEF valid, ended, room, partial, window
      <4> QED
        BY <1>1, <1>7, <2>1, <2>2
    <3>2. window = NewWindow(cfg, ts, cfg.to)
      BY <1>3, <1>7, <2>2 DEF NewWindow
    <3> HIDE DEF window
    <3> QED
      BY <1>1, <1>4, <1>7, <2>1, <3>1, <3>2
  <2>3. CASE ~partial
    <3>1. wf' = [wf EXCEPT !.windows = Append(@, window),
                           !.training_start = AddMonths(@, cfg.step)]
      <4> HIDE DEF valid, ended, room, partial, window
      <4> QED
        BY <1>1, <1>7, <2>1, <2>3
    <3>2. B \in Int /\ testing_end = B - 1 /\ A <= cfg.to
      BY <1>4, <1>7, <2>1
    <3>3. B - 1 <= cfg.to
      <4> HIDE DEF testing_end, B
      <4> QED
        BY <1>2, <2>3, <3>2
    <3>4. window = NewWindow(cfg, ts, B - 1)
      BY <1>3, <1>7, <2>3, <3>2 DEF NewWindow
    <3> HIDE DEF window
    <3> QED
      BY <1>1, <1>7, <3>1, <3>2, <3>3, <3>4
  <2> QED
    BY <2>2, <2>3
<1> QED
  BY <1>5, <1>6, <1>7

(* The segments and the end of the run leave the windows alone.              *)
LEMMA WindowsStay ==
  ASSUME WfInv, wf.phase = "segments", NEW s, NEW p \in {"segments", "done"},
         wf' = [wf EXCEPT !.segments = s, !.phase = p]
  PROVE  WfInv'
<1>1. /\ wf'.cfg = wf.cfg /\ wf'.windows = wf.windows /\ wf'.phase = p
      /\ WfType'
  BY DEF WfInv, WfType
<1>2. InOrder(wf.cfg, wf.windows) /\ ReachTheEnd(wf.cfg, wf.windows)
  BY DEF WfInv
<1> QED
  BY <1>1, <1>2 DEF WfInv

LEMMA WfNextInv == WfInv /\ [WfNext]_wf => WfInv'
<1> SUFFICES ASSUME WfInv, [WfNext]_wf PROVE WfInv'
  OBVIOUS
<1>1. CASE Generate
  <2> DEFINE A == FirstTestDay(wf.cfg, wf.training_start)
             B == AddMonths(A, wf.cfg.testing)
  <2>1. wf.phase = "generate"
    BY <1>1, GenerateCases
  <2>2. CASE wf' = [wf EXCEPT !.phase = "rejected"]
    BY <2>1, <2>2, GenerateStops
  <2>3. CASE /\ validate_window_config(wf.cfg) /\ wf.windows # << >>
             /\ PeriodEnd(wf.training_start, wf.cfg.training) >= wf.cfg.to
             /\ wf' = [wf EXCEPT !.phase = "segments"]
    BY <2>1, <2>3, GenerateEnds
  <2>4. CASE /\ validate_window_config(wf.cfg) /\ A <= wf.cfg.to
             /\ wf' = [wf EXCEPT !.windows =
                                    Append(@, NewWindow(wf.cfg, wf.training_start, wf.cfg.to)),
                                 !.phase = "segments"]
    BY <2>1, <2>4, GenerateCuts
  <2>5. CASE /\ validate_window_config(wf.cfg) /\ A <= wf.cfg.to /\ B - 1 <= wf.cfg.to
             /\ wf' = [wf EXCEPT !.windows =
                                    Append(@, NewWindow(wf.cfg, wf.training_start, B - 1)),
                                 !.training_start = AddMonths(@, wf.cfg.step)]
    BY <2>1, <2>5, GenerateAdds
  <2> QED
    BY <1>1, <2>2, <2>3, <2>4, <2>5, GenerateCases
<1>2. CASE ProcessSegment
  <2>1. wf.phase = "segments"
    BY <1>2 DEF ProcessSegment
  <2>2. PICK s : wf' = [wf EXCEPT !.segments = s]
    BY <1>2 DEF ProcessSegment
  <2>3. wf' = [wf EXCEPT !.segments = s, !.phase = "segments"]
    BY <2>1, <2>2 DEF WfInv, WfType
  <2> QED
    BY <2>1, <2>3, WindowsStay
<1>3. CASE FinishWalk
  <2>1. wf.phase = "segments" /\ wf' = [wf EXCEPT !.phase = "done"]
    BY <1>3 DEF FinishWalk
  <2>2. wf' = [wf EXCEPT !.segments = wf.segments, !.phase = "done"]
    BY <2>1 DEF WfInv, WfType
  <2> QED
    BY <2>1, <2>2, WindowsStay
<1>4. CASE UNCHANGED wf
  BY <1>4 DEF WfInv, WfType
<1> QED
  BY <1>1, <1>2, <1>3, <1>4 DEF WfNext

(* For every calendar and request the generated windows stay in order, and   *)
(* the generator never loses track of where the next one may start.          *)
THEOREM WindowsInvariant == WfSpec => []WfInv
<1> QED
  BY WfInitInv, WfNextInv, PTL DEF WfSpec

LEMMA OrderedIsOutOfSample == WfInv => WindowsOutOfSample
<1> SUFFICES ASSUME WfInv PROVE WindowsOutOfSample
  OBVIOUS
<1>1. InOrder(wf.cfg, wf.windows)
  BY DEF WfInv
<1>2. wf.phase \in {"segments", "done"} => ReachTheEnd(wf.cfg, wf.windows)
  BY DEF WfInv
<1>3. NoClipping <=> NotClipped(wf.cfg)
  BY DEF NoClipping, NotClipped
<1> QED
  BY <1>1, <1>2, <1>3 DEF WindowsOutOfSample, InOrder, InRange, ReachTheEnd, Windows

(* Every window trains strictly before it tests, inside the requested range; *)
(* windows that step by at least their testing length never test a day twice *)
(* and those that step by exactly it leave no day untested, provided no month*)
(* clips the request's first day.                                            *)
THEOREM WindowsAreOutOfSample == WfSpec => []WindowsOutOfSample
<1> QED
  BY WindowsInvariant, OrderedIsOutOfSample, PTL


-----------------------------------------------------------------------------
(* The summary of a walk-forward run.  Scores first: the variation of the    *)
(* segment results is at most their spread.                                  *)

(* The whole root exists: it is the greatest number whose square is in reach.*)
LEMMA IsqrtIs ==
    ASSUME NEW n \in Nat
    PROVE  Isqrt(n) \in Nat /\ Isqrt(n) * Isqrt(n) <= n
<1> DEFINE R == {r \in 0 .. n : r * r <= n}
           m == Max(R)
<1>1. IsFiniteSet(R) /\ R # {} /\ R \subseteq Int
  <2>1. 0 \in R
    OBVIOUS
  <2>2. R \in SUBSET (0 .. n) /\ R \subseteq Int
    OBVIOUS
  <2>3. IsFiniteSet(0 .. n)
    BY FS_Interval
  <2> HIDE DEF R
  <2>4. IsFiniteSet(R)
    BY <2>2, <2>3, FS_Subset
  <2> QED
    BY <2>1, <2>2, <2>4
<1>2. m \in R /\ \A r \in R : m >= r
  <2> HIDE DEF R
  <2> QED
    BY <1>1, MaxExists
<1> HIDE DEF m
<1>3. (m + 1) * (m + 1) > n
  <2>1. CASE m + 1 <= n
    <3>1. m + 1 \in 0 .. n /\ m + 1 \notin R
      BY <1>2, <2>1
    <3> QED
      BY <3>1, <1>2
  <2>2. CASE m + 1 > n
    <3>1. m + 1 \in Nat /\ m + 1 > n /\ m + 1 >= 1
      BY <1>2, <2>2
    <3>2. \A x \in Nat : x >= 1 => x * x >= x
      OBVIOUS
    <3>3. (m + 1) * (m + 1) >= m + 1 /\ (m + 1) * (m + 1) \in Nat
      BY <3>1, <3>2
    <3> QED
      BY <3>1, <3>3
  <2> QED
    BY <1>2, <2>1, <2>2
<1>4. \E r \in 0 .. n : r * r <= n /\ (r + 1) * (r + 1) > n
  BY <1>2, <1>3
<1>5. Isqrt(n) \in 0 .. n /\ Isqrt(n) * Isqrt(n) <= n
  BY <1>4 DEF Isqrt
<1> QED
  BY <1>5

(* Clamping two scores keeps their order.                                    *)
LEMMA ClampKeepsOrder ==
    ASSUME NEW a \in Int, NEW b \in Int, a <= b
    PROVE  ClampScore(a) <= ClampScore(b)
<1>1. \A x \in Int : ClampScore(x) = IF x >= 100 THEN 100 ELSE IF x >= 0 THEN x ELSE 0
  <2> SUFFICES ASSUME NEW x \in Int
               PROVE  ClampScore(x) = IF x >= 100 THEN 100 ELSE IF x >= 0 THEN x ELSE 0
    OBVIOUS
  <2> DEFINE y == Min({100, x})
  <2>1. y \in {100, x} /\ y <= 100 /\ y <= x
    BY MinOfTwo
  <2> HIDE DEF y
  <2>2. Max({0, y}) = IF 0 >= y THEN 0 ELSE y
    BY <2>1, MaxOfTwo
  <2> QED
    BY <2>1, <2>2 DEF ClampScore, y
<1> QED
  BY <1>1

(* All values lie within r of each other.                                    *)
Within(n, v, r) == r \in Nat /\ \A i, j \in 1 .. n : v[i] - v[j] <= r

(* The squares that the variation is a root of.                              *)
LEMMA ScatterBounds ==
    ASSUME NEW n \in Nat, n # 0, NEW v \in [1 .. n -> Int], NEW r, Within(n, v, r)
    PROVE  /\ Scatter(v) \in Nat /\ SumSeq(v) \in Int
           /\ Scatter(v) <= n * (n * ((n - 1) * (r * r)))
<1> DEFINE vv == [i \in 1 .. n |-> v[i] * v[i]]
           V == SumOf(v, 1 .. n)
           VV == SumOf(vv, 1 .. n)
           q == n * VV - V * V
           t == n * ((n - 1) * (r * r))
<1> USE DEF Within
<1>1. vv \in [1 .. n -> Int]
  <2>1. \A a \in Int : a * a \in Int
    OBVIOUS
  <2> QED
    BY <2>1
<1>2. \A i \in 1 .. n : vv[i] = v[i] * v[i]
  OBVIOUS
<1>3. Len(v) = n /\ vv = [i \in DOMAIN v |-> v[i] * v[i]]
  OBVIOUS
<1>4. SumSeq(v) = V /\ SumSeq(vv) = VV /\ V \in Int /\ VV \in Int
  <2> HIDE DEF vv
  <2> QED
    BY <1>1, PlusIs DEF SumSeq, Plus
<1>5. Scatter(v) = n * q
  BY <1>3, <1>4 DEF Scatter
<1>6. q >= 0
  <2> HIDE DEF vv
  <2> QED
    BY <1>2, SquaresOutweigh
<1>7. q <= t
  <2> HIDE DEF vv
  <2> QED
    BY <1>2, SpreadBounds
<1>8. q \in Int /\ t \in Int
  <2> HIDE DEF V, VV
  <2> QED
    BY <1>4
<1> HIDE DEF q, t, V
<1>9. n * q <= n * t /\ n * q \in Nat
  <2>1. q \in Nat /\ t - q \in Nat
    BY <1>6, <1>7, <1>8
  <2>2. \A x, y \in Nat : x * y \in Nat
    OBVIOUS
  <2>3. n * q \in Nat /\ n * (t - q) \in Nat
    BY <2>1, <2>2
  <2>4. n * (t - q) = n * t - n * q /\ n * t \in Int /\ n * q \in Int
    BY <1>8
  <2> QED
    BY <2>3, <2>4
<1> QED
  BY <1>4, <1>5, <1>9 DEF t

(* The variation of segment results is at most their spread, both against   *)
(* the larger of the mean and one.                                           *)
LEMMA VariationWithinSpread ==
    ASSUME NEW n \in Nat, n >= 2, NEW v \in [1 .. n -> Int], NEW r, Within(n, v, r),
           NEW m, m = Max({Magnitude(SumSeq(v)), n})
    PROVE  /\ m \in Nat \ {0} /\ (r * 100 * n) \in Nat
           /\ CvPct(v) \in Int /\ CvPct(v) <= (r * 100 * n) \div m
<1> DEFINE S == Scatter(v)
           rr == r * r
           mm == m * m
           D == (n - 1) * m * m
           x == (10000 * S) \div D
           c == Isqrt(x)
<1>1. S \in Nat /\ SumSeq(v) \in Int /\ S <= n * (n * ((n - 1) * rr))
  BY ScatterBounds
<1> USE DEF Within
<1>2. m \in Nat \ {0}
  <2> DEFINE a == Magnitude(SumSeq(v))
  <2>1. a \in Nat
    BY <1>1 DEF Magnitude
  <2> HIDE DEF a
  <2>2. Max({a, n}) = IF a >= n THEN a ELSE n
    BY <2>1, MaxOfTwo
  <2>3. m = Max({a, n})
    BY DEF a
  <2> QED
    BY <2>1, <2>2, <2>3
<1>3. Len(v) = n /\ CvPct(v) = c
  <2>1. Len(v) = n
    OBVIOUS
  <2> QED
    BY <2>1 DEF CvPct
<1> HIDE DEF S
<1>4. n - 1 \in Nat \ {0} /\ mm \in Nat \ {0} /\ D = (n - 1) * mm /\ D \in Nat \ {0} /\ rr \in Nat
  <2>1. \A a, b \in Nat \ {0} : a * b \in Nat \ {0}
    OBVIOUS
  <2>2. n - 1 \in Nat \ {0} /\ mm \in Nat \ {0}
    BY <1>2, <2>1, SMTT(30)
  <2>3. D = (n - 1) * mm
    BY <1>2
  <2>4. r * r \in Nat
    OBVIOUS
  <2> QED
    BY <2>1, <2>2, <2>3, <2>4
<1> HIDE DEF mm, rr, D
<1>5. x \in Nat /\ D * x <= 10000 * S
  <2> DEFINE y == 10000 * S
  <2>1. y \in Nat
    BY <1>1
  <2> HIDE DEF y
  <2>2. y \div D \in Nat /\ D * (y \div D) <= y
    BY <1>4, <2>1, Quotient
  <2> QED
    BY <2>2 DEF y
<1> HIDE DEF x
<1>6. c \in Nat /\ c * c <= x
  BY <1>5, IsqrtIs
<1> HIDE DEF c
<1> DEFINE cc == c * c
           nnrr == n * (n * rr)
<1>7. cc \in Nat /\ nnrr \in Nat
  <2>1. \A a, b \in Nat : a * b \in Nat
    OBVIOUS
  <2> QED
    BY <1>4, <1>6, <2>1
<1>8. n * (n * ((n - 1) * rr)) = (n - 1) * nnrr
  BY <1>4
<1>9. D * cc <= D * x
  <2>1. x - cc \in Nat
    BY <1>5, <1>6, <1>7
  <2>2. \A a, b \in Nat : a * b \in Nat
    OBVIOUS
  <2>3. D * (x - cc) \in Nat
    BY <1>4, <2>1, <2>2
  <2> HIDE DEF cc
  <2>4. D * (x - cc) = D * x - D * cc /\ D * x \in Int /\ D * cc \in Int
    BY <1>4, <1>5, <1>7
  <2> QED
    BY <2>3, <2>4
<1> HIDE DEF cc, nnrr
<1>10. D * cc <= 10000 * ((n - 1) * nnrr)
  <2>1. D * cc \in Int /\ D * x \in Int /\ (n - 1) * nnrr \in Int
    BY <1>4, <1>5, <1>7
  <2>2. S <= (n - 1) * nnrr
    BY <1>1, <1>8
  <2> QED
    BY <1>1, <1>5, <1>9, <2>1, <2>2
<1>11. (mm * cc) * (n - 1) <= (10000 * nnrr) * (n - 1)
  <2>1. D * cc = (mm * cc) * (n - 1)
    BY <1>4, <1>7
  <2>2. 10000 * ((n - 1) * nnrr) = (10000 * nnrr) * (n - 1)
    BY <1>4, <1>7
  <2> QED
    BY <1>10, <2>1, <2>2
<1>12. mm * cc <= 10000 * nnrr
  <2> DEFINE a == mm * cc
             b == 10000 * nnrr
             k == n - 1
  <2>1. a \in Int /\ b \in Int /\ k \in Nat \ {0} /\ a * k <= b * k
    BY <1>4, <1>7, <1>11
  <2> HIDE DEF a, b, k
  <2>2. a <= b
    BY <2>1, Cancelled
  <2> QED
    BY <2>2 DEF a, b
<1> DEFINE a == m * c
           b == r * 100 * n
<1>13. a * a = mm * cc
  BY <1>2, <1>6 DEF mm, cc
<1>14. b * b = 10000 * nnrr
  BY DEF nnrr, rr
<1>15. a \in Nat /\ b \in Nat
  <2>1. \A p, q \in Nat : p * q \in Nat
    OBVIOUS
  <2>2. m * c \in Nat
    BY <1>2, <1>6, <2>1
  <2>3. r * 100 \in Nat
    OBVIOUS
  <2>4. (r * 100) * n \in Nat
    BY <2>1, <2>3
  <2> QED
    BY <2>2, <2>4
<1> HIDE DEF b
<1>16. a <= b
  <2>1. a * a <= b * b
    BY <1>12, <1>13, <1>14
  <2> HIDE DEF a
  <2> QED
    BY <1>15, <2>1, RootOrder
<1>17. c <= b \div m
  BY <1>2, <1>6, <1>15, <1>16, Quotient
<1> QED
  BY <1>2, <1>3, <1>6, <1>15, <1>17 DEF b

(* The spread penalty is never milder than the variation penalty             *)
(* (score_regime_sensitivity and score_performance_consistency).             *)
LEMMA SpreadIsStricter ==
    ASSUME NEW n \in Nat, n >= 2, NEW v \in [1 .. n -> Int]
    PROVE  score_regime_sensitivity(v) <= score_performance_consistency(v)
<1> DEFINE values == {v[i] : i \in 1 .. n}
           r == Max(values) - Min(values)
           m == Max({Magnitude(SumSeq(v)), n})
           d == (r * 100 * n) \div m
<1>1. Len(v) = n /\ DOMAIN v = 1 .. n
  OBVIOUS
<1>2. IsFiniteSet(values) /\ values # {} /\ values \subseteq Int
  <2>1. IsFiniteSet(1 .. n) /\ 1 \in 1 .. n
    BY FS_Interval
  <2> QED
    BY <2>1, FiniteImage
<1>3. /\ Max(values) \in values /\ \A y \in values : Max(values) >= y
      /\ Min(values) \in values /\ \A y \in values : Min(values) <= y
  <2> HIDE DEF values
  <2> QED
    BY <1>2, MaxExists, MinExists
<1>4. score_regime_sensitivity(v) = ClampScore(100 - d)
  BY <1>1 DEF score_regime_sensitivity
<1>5. Within(n, v, r)
  <2>1. Max(values) \in Int /\ Min(values) \in Int /\ Max(values) >= Min(values)
    BY <1>2, <1>3
  <2>2. \A i \in 1 .. n : v[i] \in values /\ v[i] \in Int
    OBVIOUS
  <2>3. \A i \in 1 .. n : v[i] <= Max(values) /\ v[i] >= Min(values)
    <3> HIDE DEF values
    <3> QED
      BY <1>3, <2>2
  <2> HIDE DEF values
  <2> QED
    BY <2>1, <2>2, <2>3 DEF Within
<1> HIDE DEF values, r
<1>6. /\ m \in Nat \ {0} /\ (r * 100 * n) \in Nat
      /\ CvPct(v) \in Int /\ CvPct(v) <= d
  BY <1>5, VariationWithinSpread
<1>7. d \in Int
  BY <1>6, Quotient
<1> HIDE DEF d
<1>8. ClampScore(100 - d) <= ClampScore(100 - CvPct(v))
  BY <1>6, <1>7, ClampKeepsOrder
<1> QED
  BY <1>4, <1>8 DEF score_performance_consistency

TradeRecord == [day : Int, pnl : Int]
SegmentRecord == [window : WindowRecord, error : BOOLEAN, selected : {None} \union Configs,
                  sharpe : Int, trades : Seq(TradeRecord)]

(* A segment's trades are of different days of its testing window, and it    *)
(* has selected parameters exactly when it did not fail.                     *)
TestedIn(w, ts) ==
    /\ \A i \in 1 .. Len(ts) : w.testing_start <= ts[i].day /\ ts[i].day <= w.testing_end
    /\ \A i, j \in 1 .. Len(ts) : i # j => ts[i].day # ts[j].day

SegmentOf(w, s) ==
    /\ s \in SegmentRecord
    /\ s.error <=> s.selected = None
    /\ TestedIn(w, s.trades)

SegmentsInv ==
    /\ WfInv
    /\ wf.history \in Histories
    /\ wf.segments \in Seq(SegmentRecord)
    /\ Len(wf.segments) <= Len(wf.windows)
    /\ \A k \in 1 .. Len(wf.segments) : SegmentOf(wf.windows[k], wf.segments[k])
    /\ wf.phase \in {"generate", "rejected"} => wf.segments = << >>
    /\ wf.phase = "done" => Len(wf.segments) = Len(wf.windows)

(* The points of a sweep.                                                    *)
SweepPoint == [name : {Parameters[i] : i \in DOMAIN Parameters}, config : Configs]

(* The four swept parameters.                                                *)
LEMMA FourParameters == DOMAIN Parameters = 1 .. 4
BY DEF Parameters

(* Every configuration of the sweep is one of the parameters' (_build_configs).*)
LEMMA SweepIs ==
    \E n \in Nat : build_sweep_configs \in [1 .. n -> SweepPoint]
<1> DEFINE ss == [i \in DOMAIN Parameters |->
                     [j \in DOMAIN Grid[Parameters[i]] |->
                         [name |-> Parameters[i],
                          config |-> [Base EXCEPT ![Parameters[i]] = Grid[Parameters[i]][j]]]]]
<1>1. ASSUME NEW i \in 1 .. 4 PROVE ss[i] \in Seq(SweepPoint)
  <2> DEFINE g == Grid[Parameters[i]]
             P(j) == [name |-> Parameters[i],
                      config |-> [Base EXCEPT ![Parameters[i]] = g[j]]]
  <2>1. g \in Seq(Int)
    BY FourParameters, GridCoversParameters
  <2>2. ASSUME NEW j \in 1 .. Len(g) PROVE P(j) \in SweepPoint
    <3>1. g[j] \in Int
      BY <2>1
    <3>2. Base \in Configs /\ Parameters[i] \in {Parameters[k] : k \in DOMAIN Parameters}
      BY FourParameters, GridCoversParameters
    <3> HIDE DEF g
    <3>3. [Base EXCEPT ![Parameters[i]] = g[j]] \in Configs
      BY <3>1, <3>2 DEF Configs
    <3> QED
      BY <3>2, <3>3 DEF SweepPoint
  <2>3. ss[i] = [j \in 1 .. Len(g) |-> P(j)]
    <3>1. DOMAIN g = 1 .. Len(g) /\ i \in DOMAIN Parameters
      BY <2>1, FourParameters
    <3>2. ss[i] = [j \in DOMAIN g |-> P(j)]
      BY <3>1
    <3> QED
      BY <3>1, <3>2
  <2> HIDE DEF ss, P
  <2>4. Len(g) \in Nat
    BY <2>1
  <2> HIDE DEF g
  <2> QED
    BY <2>2, <2>3, <2>4
<1>2. ss \in [1 .. 4 -> Seq(SweepPoint)]
  <2>1. ss = [i \in 1 .. 4 |-> ss[i]]
    BY FourParameters
  <2> HIDE DEF ss
  <2> QED
    BY <1>1, <2>1
<1>3. build_sweep_configs = FlattenSeq(ss)
  BY DEF build_sweep_configs
<1> HIDE DEF ss
<1>4. ListsOf(SweepPoint, ss, 4)
  BY <1>2 DEF ListsOf
<1>5. build_sweep_configs \in Seq(SweepPoint)
  BY <1>3, <1>4, FlattenIs
<1> QED
  BY <1>5

(* What a sweep answers: a Sharpe ratio or None, or nothing at all.          *)
LEMMA AnswersAre ==
    ASSUME NEW days, NEW answers \in SweepAnswers(days), NEW c \in Effective, answers[c] # << >>
    PROVE  OrZero(answers[c][1]) \in Int
<1>1. answers[c] = <<None>> \/ \E s \in Sharpes : answers[c] = <<s>>
  BY DEF SweepAnswers
<1>2. answers[c][1] = None \/ answers[c][1] \in Sharpes
  BY <1>1
<1> QED
  BY <1>2, SegmentDataAssumption DEF OrZero

(* The points that were answered, with their Sharpe ratios.                  *)
LEMMA PointsAre ==
    ASSUME NEW days, NEW answers \in SweepAnswers(days)
    PROVE  \E m \in Nat : run_sweep(answers) \in [1 .. m -> [name : {Parameters[i] : i \in DOMAIN Parameters},
                                                             config : Configs, sharpe : Int]]
<1> DEFINE b == build_sweep_configs
           W(p) == [name |-> p.name, config |-> p.config,
                    sharpe |-> OrZero(answers[from_dict(p.config)][1])]
           S == {b[i] : i \in {j \in DOMAIN b : answers[from_dict(b[j].config)] # << >>}}
           points == Members(b, S)
<1>1. run_sweep(answers) = [i \in DOMAIN points |-> W(points[i])]
  BY DEF run_sweep, Filtered
<1>2. PICK n \in Nat : b \in [1 .. n -> SweepPoint]
  BY SweepIs
<1>3. PICK m, at : MembersAt(b, n, S, m, at)
  <2> HIDE DEF b, S
  <2>1. IsList(b, n)
    BY <1>2 DEF IsList
  <2> QED
    BY <2>1, MembersAre
<1>6. /\ m \in Nat /\ Ascends(at, m, PositionsIn(b, n, S))
      /\ points = [i \in 1 .. m |-> b[at[i]]]
  BY <1>3 DEF MembersAt
<1>4. ASSUME NEW i \in 1 .. m
      PROVE  W(points[i]) \in [name : {Parameters[k] : k \in DOMAIN Parameters},
                               config : Configs, sharpe : Int]
  <2>1. points[i] \in S
    BY <1>6, ZenonT(30) DEF Ascends, PositionsIn
  <2>2. PICK j \in 1 .. n : points[i] = b[j] /\ answers[from_dict(b[j].config)] # << >>
    BY <1>2, <2>1
  <2>3. from_dict(b[j].config) \in Effective
    BY <1>2 DEF Effective
  <2>4. OrZero(answers[from_dict(b[j].config)][1]) \in Int
    BY <2>2, <2>3, AnswersAre
  <2>5. b[j] \in SweepPoint
    BY <1>2
  <2> HIDE DEF b, points
  <2> QED
    BY <2>2, <2>4, <2>5 DEF SweepPoint
<1>5. DOMAIN points = 1 .. m
  BY <1>6
<1> DEFINE r == [i \in DOMAIN points |-> W(points[i])]
<1>7. m \in Nat /\ r \in [1 .. m -> [name : {Parameters[i] : i \in DOMAIN Parameters},
                                    config : Configs, sharpe : Int]]
  <2> HIDE DEF points, W
  <2> QED
    BY <1>4, <1>5, <1>6
<1> HIDE DEF r
<1>8. run_sweep(answers) = r
  BY <1>1 DEF r
<1> QED
  BY <1>7, <1>8

(* The selected point is one of them (the optimizer's max).                  *)
LEMMA BestIsAPoint ==
    ASSUME NEW m \in Nat, m # 0, NEW points \in [1 .. m -> [name : {Parameters[i] : i \in DOMAIN Parameters},
                                                             config : Configs, sharpe : Int]]
    PROVE  BestPoint(points).config \in Configs /\ BestPoint(points).sharpe \in Int
<1> DEFINE k == [i \in 1 .. m |-> points[i].sharpe]
           V == {k[i] : i \in 1 .. m}
           top == Max(V)
           T == {i \in 1 .. m : k[i] = top}
<1>1. IsFiniteSet(1 .. m) /\ 1 \in 1 .. m
  BY FS_Interval
<1>2. \A i \in 1 .. m : points[i].sharpe = k[i] /\ k[i] \in Int
  OBVIOUS
<1> HIDE DEF k
<1>3. IsFiniteSet(V) /\ V # {} /\ V \subseteq Int
  BY <1>1, <1>2, FiniteImage
<1>4. top \in V /\ \A x \in V : top >= x
  <2> HIDE DEF V
  <2> QED
    BY <1>3, MaxExists
<1> HIDE DEF top
<1>5. T \in SUBSET Nat /\ IsFiniteSet(T) /\ T # {}
  <2>1. T \in SUBSET (1 .. m) /\ T \in SUBSET Nat
    OBVIOUS
  <2>2. T # {}
    BY <1>4
  <2> HIDE DEF T
  <2> QED
    BY <1>1, <2>1, <2>2, FS_Subset
<1>6. PICK i \in T : \A j \in T : i <= j
  <2> HIDE DEF T
  <2> QED
    BY <1>5, LeastExists
<1>7. \A j \in 1 .. m :
          \/ points[j].sharpe < points[i].sharpe
          \/ points[j].sharpe = points[i].sharpe /\ i <= j
  <2> SUFFICES ASSUME NEW j \in 1 .. m
               PROVE  \/ points[j].sharpe < points[i].sharpe
                      \/ points[j].sharpe = points[i].sharpe /\ i <= j
    OBVIOUS
  <2>1. k[j] \in V /\ k[i] = top /\ points[i].sharpe = k[i] /\ points[j].sharpe = k[j]
        /\ k[j] \in Int /\ k[i] \in Int
    BY <1>2, <1>6
  <2>2. k[j] <= top
    BY <1>4, <2>1
  <2>3. k[j] = top => i <= j
    BY <1>6
  <2> QED
    BY <2>1, <2>2, <2>3
<1>8. DOMAIN points = 1 .. m /\ i \in 1 .. m
  BY <1>6
<1>9. PICK c \in 1 .. m : BestPoint(points) = points[c]
  BY <1>7, <1>8 DEF BestPoint
<1> QED
  BY <1>9

(* The trades of a segment: one on every day that traded.                    *)
TradedOn(w, D, result, order, n, ts) ==
    /\ n \in Nat /\ order \in [1 .. n -> D]
    /\ \A i, j \in 1 .. n : i # j => order[i] # order[j]
    /\ \A d \in D : /\ d \in Int /\ result[d] \in Int
                    /\ w.testing_start <= d /\ d <= w.testing_end
    /\ ts = [i \in 1 .. n |-> [day |-> order[i], pnl |-> result[order[i]]]]

(* They lie in the testing window, on different days.                        *)
LEMMA TradesAre ==
    ASSUME NEW w, NEW D, NEW result, NEW order, NEW n, NEW ts,
           TradedOn(w, D, result, order, n, ts)
    PROVE  ts \in Seq(TradeRecord) /\ TestedIn(w, ts)
<1>1. \A i \in 1 .. n : /\ order[i] \in Int /\ result[order[i]] \in Int
                        /\ w.testing_start <= order[i] /\ order[i] <= w.testing_end
  BY DEF TradedOn
<1>2. \A i \in 1 .. n : ts[i] = [day |-> order[i], pnl |-> result[order[i]]]
  BY DEF TradedOn
<1>3. \A i \in 1 .. n : ts[i].day = order[i] /\ ts[i] \in TradeRecord
  <2> SUFFICES ASSUME NEW i \in 1 .. n PROVE ts[i].day = order[i] /\ ts[i] \in TradeRecord
    OBVIOUS
  <2> DEFINE d == order[i]
             p == result[d]
  <2>1. d \in Int /\ p \in Int /\ ts[i] = [day |-> d, pnl |-> p]
    BY <1>1, <1>2
  <2> HIDE DEF d, p
  <2>2. ts[i].day = d /\ ts[i] \in TradeRecord
    BY <2>1 DEF TradeRecord
  <2> QED
    BY <2>2 DEF d
<1>4. n \in Nat /\ ts = [i \in 1 .. n |-> ts[i]]
  BY DEF TradedOn
<1>5. ts \in Seq(TradeRecord) /\ Len(ts) = n
  <2>1. ts \in [1 .. n -> TradeRecord]
    BY <1>3, <1>4
  <2> QED
    BY <1>4, <2>1
<1>6. \A i, j \in 1 .. n : i # j => order[i] # order[j]
  BY DEF TradedOn
<1> QED
  BY <1>1, <1>3, <1>5, <1>6 DEF TestedIn

(* The days of a segment's trades, in order and each once.                   *)
LEMMA DaysInOrder ==
    ASSUME NEW H, H \subseteq Int, IsFiniteSet(H), NEW D \in SUBSET H
    PROVE  /\ Cardinality(D) \in Nat
           /\ SortedBy(D, [d \in D |-> d]) \in [1 .. Cardinality(D) -> D]
           /\ \A i, j \in 1 .. Cardinality(D) :
                  i # j => SortedBy(D, [d \in D |-> d])[i] # SortedBy(D, [d \in D |-> d])[j]
<1> DEFINE value == [d \in D |-> d]
<1>1. IsFiniteSet(D) /\ Cardinality(D) \in Nat
  BY FS_Subset, FS_CardinalityType
<1>2. \A d \in D : value[d] \in Int
  OBVIOUS
<1> HIDE DEF value
<1>3. Enumerates(SortedBy(D, value), D)
  BY <1>1, <1>2, SortedByIs
<1>4. /\ SortedBy(D, value) \in [1 .. Cardinality(D) -> D]
      /\ \A i, j \in 1 .. Cardinality(D) : i # j => SortedBy(D, value)[i] # SortedBy(D, value)[j]
  BY <1>3 DEF Enumerates
<1> QED
  BY <1>1, <1>4 DEF value

(* A failed segment has no parameters and no trades.                         *)
LEMMA FailedIsSegment ==
    ASSUME NEW w \in WindowRecord PROVE SegmentOf(w, FailedSegment(w))
<1> DEFINE s == FailedSegment(w)
<1>1. s.error = TRUE /\ s.selected = None /\ s.trades = << >>
  BY DEF FailedSegment
<1>2. s \in SegmentRecord
  BY DEF FailedSegment, SegmentRecord
<1>3. TestedIn(w, << >>)
  BY DEF TestedIn
<1> HIDE DEF s
<1>4. SegmentOf(w, s)
  BY <1>1, <1>2, <1>3 DEF SegmentOf
<1> QED
  BY <1>4 DEF s

(* Trades are only on days with candles.                                     *)
LEMMA TradableIs ==
    ASSUME NEW days
    PROVE  TradableDays(days) \subseteq days
BY DEF TradableDays

(* Processing a window appends a segment of it.                              *)
LEMMA SegmentAppended ==
    ASSUME SegmentsInv, ProcessSegment
    PROVE  /\ wf.phase = "segments" /\ Len(wf.segments) < Len(wf.windows)
           /\ \E s : /\ SegmentOf(wf.windows[Len(wf.segments) + 1], s)
                     /\ wf' = [wf EXCEPT !.segments = Append(@, s)]
<1> DEFINE k == Len(wf.segments) + 1
           w == wf.windows[k]
           training == filter_history(w.training_start, w.training_end)
           testing == filter_history(w.testing_start, w.testing_end)
<1>1. wf.phase = "segments" /\ Len(wf.segments) < Len(wf.windows)
  BY DEF ProcessSegment
<1>2. w \in WindowRecord
  <2>1. wf.windows \in Seq(WindowRecord) /\ wf.segments \in Seq(SegmentRecord)
    BY DEF SegmentsInv, WfInv, WfType
  <2>2. k \in 1 .. Len(wf.windows)
    BY <1>1, <2>1
  <2> HIDE DEF k
  <2> QED
    BY <2>1, <2>2
<1>3. CASE wf' = [wf EXCEPT !.segments = Append(@, FailedSegment(w))]
  BY <1>1, <1>2, <1>3, FailedIsSegment
<1>4. CASE ~ wf' = [wf EXCEPT !.segments = Append(@, FailedSegment(w))]
  <2>1. PICK answers \in SweepAnswers(training),
             result \in [TradableDays(testing) -> Pnls \union {None}] :
                LET points == run_sweep(answers)
                    best == BestPoint(points)
                    traded == {d \in DOMAIN result : result[d] # None}
                    order == SortedBy(traded, [d \in traded |-> d])
                IN  wf' = [wf EXCEPT !.segments = Append(@,
                      IF points = << >> THEN FailedSegment(w)
                      ELSE [window |-> w, error |-> FALSE,
                            selected |-> best.config, sharpe |-> best.sharpe,
                            trades |-> [i \in 1 .. Cardinality(traded) |->
                               [day |-> order[i], pnl |-> result[order[i]]]]])]
    BY <1>4 DEF ProcessSegment
  <2> DEFINE points == run_sweep(answers)
             best == BestPoint(points)
             traded == {d \in DOMAIN result : result[d] # None}
             order == SortedBy(traded, [d \in traded |-> d])
             ts == [i \in 1 .. Cardinality(traded) |->
                       [day |-> order[i], pnl |-> result[order[i]]]]
             s == [window |-> w, error |-> FALSE, selected |-> best.config,
                   sharpe |-> best.sharpe, trades |-> ts]
  <2>2. points # << >> /\ wf' = [wf EXCEPT !.segments = Append(@, s)]
    <3> HIDE DEF points, best, traded, order, k, w, testing
    <3>1. wf' = [wf EXCEPT !.segments = Append(@, IF points = << >> THEN FailedSegment(w) ELSE s)]
      BY <2>1 DEF points, best, traded, order
    <3> QED
      BY <1>4, <3>1
  <2>3. best.config \in Configs /\ best.sharpe \in Int
    <3>1. PICK m \in Nat : points \in [1 .. m -> [name : {Parameters[i] : i \in DOMAIN Parameters},
                                                  config : Configs, sharpe : Int]]
      BY PointsAre
    <3>2. m # 0
      <4>1. ASSUME m = 0 PROVE FALSE
        <5>1. points = << >>
          BY <3>1, <4>1
        <5> QED
          BY <2>2, <5>1
      <4> QED
        BY <4>1
    <3> HIDE DEF points
    <3> QED
      BY <3>1, <3>2, BestIsAPoint
  <2>4. ts \in Seq(TradeRecord) /\ TestedIn(w, ts)
    <3>1. testing \subseteq Int /\ IsFiniteSet(testing)
      <4>1. wf.history \subseteq Int /\ IsFiniteSet(wf.history)
        BY SegmentDataAssumption DEF SegmentsInv
      <4>2. testing \in SUBSET wf.history
        BY DEF filter_history
      <4> QED
        BY <4>1, <4>2, FS_Subset
    <3>2. \A d \in testing : w.testing_start <= d /\ d <= w.testing_end
      BY DEF filter_history
    <3>3. DOMAIN result \subseteq testing
      BY TradableIs
    <3>4. \A d \in DOMAIN result : result[d] \in Int \union {None}
      BY SegmentDataAssumption
    <3>5. traded \in SUBSET testing /\ \A d \in traded : result[d] \in Int
      BY <3>3, <3>4
    <3>6. ts = [i \in 1 .. Cardinality(traded) |->
                       [day |-> order[i], pnl |-> result[order[i]]]]
      OBVIOUS
    <3> HIDE DEF w, testing, traded, ts
    <3>7. /\ Cardinality(traded) \in Nat
          /\ order \in [1 .. Cardinality(traded) -> traded]
          /\ \A i, j \in 1 .. Cardinality(traded) : i # j => order[i] # order[j]
      BY <3>1, <3>5, DaysInOrder
    <3> HIDE DEF order
    <3>8. \A d \in traded : /\ d \in Int /\ result[d] \in Int
                            /\ w.testing_start <= d /\ d <= w.testing_end
      BY <3>1, <3>2, <3>5
    <3>9. TradedOn(w, traded, result, order, Cardinality(traded), ts)
      BY <3>6, <3>7, <3>8 DEF TradedOn
    <3> QED
      BY <3>9, TradesAre
  <2>5. SegmentOf(w, s)
    <3> HIDE DEF w, best, ts
    <3>1. s \in SegmentRecord
      BY <1>2, <2>3, <2>4 DEF SegmentRecord
    <3>2. s.error = FALSE /\ s.selected # None /\ s.trades = ts
      BY <2>3, GridCoversParameters
    <3> HIDE DEF s
    <3> QED
      BY <2>4, <3>1, <3>2 DEF SegmentOf
  <2> QED
    BY <1>1, <2>2, <2>5
<1> QED
  BY <1>3, <1>4

(* A run starts without segments ...                                         *)
LEMMA SegmentsInitInv == WfInit => SegmentsInv
<1> SUFFICES ASSUME WfInit PROVE SegmentsInv
  OBVIOUS
<1>1. PICK cfg \in WfConfigs, days \in Histories :
         wf = [cfg |-> cfg, history |-> days, phase |-> "generate",
               training_start |-> cfg.from, windows |-> << >>, segments |-> << >>]
  BY DEF WfInit
<1>2. wf.history = days /\ wf.windows = << >> /\ wf.segments = << >> /\ wf.phase = "generate"
  BY <1>1
<1>3. Len(<< >>) = 0 /\ << >> \in Seq(SegmentRecord)
  OBVIOUS
<1> QED
  BY <1>2, <1>3, WfInitInv DEF SegmentsInv

(* ... the generator adds none ...                                           *)
LEMMA GenerateLeavesSegments ==
    ASSUME SegmentsInv, Generate
    PROVE  /\ wf.phase = "generate"
           /\ wf'.segments = wf.segments /\ wf'.history = wf.history
           /\ wf'.phase \in {"generate", "rejected", "segments"}
           /\ wf'.windows \in Seq(WindowRecord)
<1>1. WfInv'
  BY WfNextInv DEF WfNext, SegmentsInv
<1>2. WfType
  BY DEF SegmentsInv, WfInv
<1>3. wf.phase = "generate" /\ wf'.segments = wf.segments /\ wf'.history = wf.history
      /\ wf'.phase # "done"
  <2>1. \/ \E p \in {"rejected", "segments"} : wf' = [wf EXCEPT !.phase = p]
        \/ \E u : wf' = [wf EXCEPT !.windows = u, !.phase = "segments"]
        \/ \E u, t : wf' = [wf EXCEPT !.windows = u, !.training_start = t]
    <3>1. WfInv
      BY DEF SegmentsInv
    <3> QED
      BY <3>1, GenerateCases
  <2>2. wf.phase = "generate"
    BY DEF Generate
  <2> QED
    BY <1>2, <2>1, <2>2 DEF WfType
<1> QED
  BY <1>1, <1>3 DEF WfInv, WfType

(* ... and every step keeps the segments those of their windows.             *)
LEMMA SegmentsNextInv == SegmentsInv /\ [WfNext]_wf => SegmentsInv'
<1> SUFFICES ASSUME SegmentsInv, [WfNext]_wf PROVE SegmentsInv'
  OBVIOUS
<1>1. WfInv /\ WfInv'
  BY WfNextInv DEF SegmentsInv
<1>2. WfType /\ WfType'
  BY <1>1 DEF WfInv
<1>3. CASE Generate
  <2>1. /\ wf.phase = "generate"
        /\ wf'.segments = wf.segments /\ wf'.history = wf.history
        /\ wf'.phase \in {"generate", "rejected", "segments"}
        /\ wf'.windows \in Seq(WindowRecord)
    BY <1>3, GenerateLeavesSegments
  <2>2. wf.segments = << >>
    BY <2>1 DEF SegmentsInv
  <2>3. Len(wf'.segments) = 0 /\ Len(wf'.windows) \in Nat
    BY <2>1, <2>2
  <2>4. \A k \in 1 .. Len(wf'.segments) : SegmentOf(wf'.windows[k], wf'.segments[k])
    BY <2>3
  <2> QED
    BY <1>1, <2>1, <2>2, <2>3, <2>4 DEF SegmentsInv
<1>4. CASE ProcessSegment
  <2>1. PICK s : /\ SegmentOf(wf.windows[Len(wf.segments) + 1], s)
                 /\ wf' = [wf EXCEPT !.segments = Append(@, s)]
    BY <1>4, SegmentAppended
  <2>2. wf.phase = "segments" /\ Len(wf.segments) < Len(wf.windows)
    BY <1>4, SegmentAppended
  <2>3. /\ wf'.segments = Append(wf.segments, s) /\ wf'.history = wf.history
        /\ wf'.windows = wf.windows /\ wf'.phase = "segments"
    BY <1>2, <2>1, <2>2 DEF WfType
  <2> DEFINE n == Len(wf.segments)
             u == Append(wf.segments, s)
  <2>4. s \in SegmentRecord /\ wf.segments \in Seq(SegmentRecord)
    BY <2>1 DEF SegmentOf, SegmentsInv
  <2>5. /\ u \in Seq(SegmentRecord) /\ Len(u) = n + 1 /\ n \in Nat
        /\ \A k \in 1 .. n : u[k] = wf.segments[k]
        /\ u[n + 1] = s
    BY <2>4
  <2>6. Len(wf.windows) \in Nat
    BY <1>2 DEF WfType
  <2> HIDE DEF u, n
  <2>7. ASSUME NEW k \in 1 .. n + 1 PROVE SegmentOf(wf.windows[k], u[k])
    <3>1. CASE k = n + 1
      BY <2>1, <2>5, <3>1 DEF n
    <3>2. CASE k # n + 1
      <4>1. k \in 1 .. n
        BY <2>5, <3>2
      <4> QED
        BY <2>5, <4>1 DEF SegmentsInv, n
    <3> QED
      BY <3>1, <3>2
  <2>8. n + 1 <= Len(wf.windows)
    BY <2>2, <2>5, <2>6 DEF n
  <2>9. wf'.segments = u
    BY <2>3 DEF u
  <2> QED
    BY <1>1, <2>3, <2>5, <2>7, <2>8, <2>9 DEF SegmentsInv
<1>5. CASE FinishWalk
  <2>1. wf.phase = "segments" /\ Len(wf.segments) = Len(wf.windows)
        /\ wf' = [wf EXCEPT !.phase = "done"]
    BY <1>5 DEF FinishWalk
  <2>2. wf'.segments = wf.segments /\ wf'.history = wf.history /\ wf'.windows = wf.windows
        /\ wf'.phase = "done"
    BY <1>2, <2>1 DEF WfType
  <2> QED
    BY <1>1, <2>1, <2>2 DEF SegmentsInv
<1>6. CASE UNCHANGED wf
  BY <1>6, <1>1 DEF SegmentsInv
<1> QED
  BY <1>3, <1>4, <1>5, <1>6 DEF WfNext

(* For every calendar, request, history, grid and answer of the engine, each *)
(* segment of a run belongs to its window: its trades lie in the testing     *)
(* period, at most one on a day, and parameters are selected exactly when it *)
(* did not fail (WalkForwardEngine._process_segment): inductive invariant.   *)
THEOREM SegmentsInvariant == WfSpec => []SegmentsInv
<1> QED
  BY SegmentsInitInv, SegmentsNextInv, PTL DEF WfSpec

(* The segments that did not fail, in their order.                           *)
SucceededAt(ss, n, m, at) ==
    /\ m \in Nat /\ Ascends(at, m, {i \in 1 .. n : ~ss[i].error})
    /\ Completed(ss) = [i \in 1 .. m |-> ss[at[i]]]

(* Completed takes the segments that succeeded, in their order.              *)
LEMMA FilteredByError ==
    ASSUME NEW n \in Nat, NEW ss, IsList(ss, n)
    PROVE  \E m, at : SucceededAt(ss, n, m, at)
<1> DEFINE S == {ss[i] : i \in {j \in DOMAIN ss : ~ss[j].error}}
<1>1. Completed(ss) = Members(ss, S)
  BY DEF Completed, Filtered
<1>2. PositionsIn(ss, n, S) = {i \in 1 .. n : ~ss[i].error}
  <2>1. DOMAIN ss = 1 .. n
    BY DEF IsList
  <2> QED
    BY <2>1 DEF PositionsIn
<1> HIDE DEF S
<1>3. PICK m, at : MembersAt(ss, n, S, m, at)
  BY MembersAre
<1>4. SucceededAt(ss, n, m, at)
  BY <1>1, <1>2, <1>3 DEF MembersAt, SucceededAt
<1> QED
  BY <1>4

(* An ascending list of all numbers up to n is the numbers up to n.          *)
LEMMA AscentOfAll ==
    ASSUME NEW n \in Nat, NEW m \in Nat, NEW at, Ascends(at, m, 1 .. n)
    PROVE  m = n /\ \A i \in 1 .. n : at[i] = i
<1>1. m = n
  <2>1. 1 .. n \in SUBSET Int
    OBVIOUS
  <2>2. Cardinality(1 .. n) = m
    BY <2>1, AscentIs
  <2>3. Cardinality(1 .. n) = n
    BY FS_Interval
  <2> QED
    BY <2>2, <2>3
<1> DEFINE G == {k \in 0 .. n : \A i \in 1 .. k : at[i] = i}
<1>2. 0 \in G
  OBVIOUS
<1>3. ASSUME NEW k \in 0 .. n, k + 1 <= n, k \in G PROVE k + 1 \in G
  <2>1. /\ at \in [1 .. n -> 1 .. n]
        /\ \A i, j \in 1 .. n : i < j => at[i] < at[j]
        /\ \A w \in 1 .. n : \E i \in 1 .. n : at[i] = w
    BY <1>1 DEF Ascends
  <2>2. k + 1 \in 1 .. n
    BY <1>3
  <2>3. PICK j \in 1 .. n : at[j] = k + 1
    BY <2>1, <2>2
  <2>4. ~(j <= k)
    BY <1>3, <2>3
  <2>5. at[k + 1] = k + 1
    <3>1. CASE j = k + 1
      BY <2>3, <3>1
    <3>2. CASE j # k + 1
      <4>1. k + 1 < j
        BY <2>4, <3>2
      <4>2. at[k + 1] < k + 1 /\ at[k + 1] \in 1 .. n
        BY <2>1, <2>2, <2>3, <4>1
      <4>3. at[k + 1] >= k + 1
        <5>1. CASE k = 0
          BY <4>2, <5>1
        <5>2. CASE k # 0
          <6>1. k \in 1 .. n /\ k \in 1 .. k /\ k < k + 1
            BY <1>3, <5>2
          <6>2. at[k] = k /\ at[k] < at[k + 1]
            BY <1>3, <2>1, <2>2, <6>1
          <6> QED
            BY <4>2, <6>2
        <5> QED
          BY <5>1, <5>2
      <4> QED
        BY <4>2, <4>3
    <3> QED
      BY <3>1, <3>2
  <2>6. \A i \in 1 .. k + 1 : at[i] = i
    <3> SUFFICES ASSUME NEW i \in 1 .. k + 1 PROVE at[i] = i
      OBVIOUS
    <3>1. i = k + 1 \/ i \in 1 .. k
      BY <1>3
    <3> QED
      BY <1>3, <2>5, <3>1
  <2> QED
    BY <1>3, <2>6
<1>4. n \in G
  <2> HIDE DEF G
  <2>1. \A k \in 0 .. n : k + 1 <= n /\ k \in G => k + 1 \in G
    BY <1>3
  <2>2. \A k \in 0 .. n : k \in G
    BY <1>2, <2>1, UpTo
  <2> QED
    BY <2>2
<1> QED
  BY <1>1, <1>4

(* Filtering by success twice changes nothing.                               *)
LEMMA CompletedTwice ==
    ASSUME NEW n \in Nat, NEW ss, IsList(ss, n)
    PROVE  Completed(Completed(ss)) = Completed(ss)
<1>1. PICK m, at : SucceededAt(ss, n, m, at)
  BY FilteredByError
<1> DEFINE done == Completed(ss)
<1>2. m \in Nat /\ IsList(done, m) /\ \A i \in 1 .. m : ~done[i].error
  BY <1>1 DEF IsList, Ascends, SucceededAt
<1> HIDE DEF done
<1>3. {i \in 1 .. m : ~done[i].error} = 1 .. m
  BY <1>2
<1>4. PICK l, to : SucceededAt(done, m, l, to)
  BY <1>2, FilteredByError
<1>5. l = m /\ \A i \in 1 .. m : to[i] = i
  <2>1. l \in Nat /\ Ascends(to, l, 1 .. m)
    BY <1>3, <1>4 DEF SucceededAt
  <2> QED
    BY <1>2, <2>1, AscentOfAll
<1>6. Completed(done) = [i \in 1 .. m |-> done[i]]
  BY <1>4, <1>5 DEF SucceededAt
<1> QED
  BY <1>2, <1>6 DEF IsList, done

(* Results of joined lists of trades.                                        *)
Result(ts) == SumSeq(TradePnls(ts))

(* A list of trades has a result ...                                         *)
LEMMA ResultIs ==
    ASSUME NEW ts \in Seq(TradeRecord)
    PROVE  TradePnls(ts) \in Seq(Int) /\ Len(TradePnls(ts)) = Len(ts) /\ Result(ts) \in Int
<1> DEFINE n == Len(ts)
           p == TradePnls(ts)
<1>1. n \in Nat /\ \A i \in 1 .. n : ts[i].pnl \in Int
  <2>1. \A x \in TradeRecord : x.pnl \in Int
    BY DEF TradeRecord
  <2>2. n \in Nat /\ \A i \in 1 .. n : ts[i] \in TradeRecord
    OBVIOUS
  <2> QED
    BY <2>1, <2>2
<1>2. p = [i \in 1 .. n |-> ts[i].pnl]
  BY DEF TradePnls
<1> HIDE DEF n, p
<1>3. p \in [1 .. n -> Int]
  BY <1>1, <1>2
<1>4. p \in Seq(Int) /\ Len(p) = n
  BY <1>1, <1>3
<1>5. Plus(p) \in Int
  BY <1>1, <1>3, PlusIs
<1> QED
  BY <1>4, <1>5 DEF p, n, Result, SumSeq, Plus

(* ... the results of two lists add up ...                                   *)
LEMMA ResultJoined ==
    ASSUME NEW s \in Seq(TradeRecord), NEW t \in Seq(TradeRecord)
    PROVE  Result(s \o t) = Result(s) + Result(t)
<1> DEFINE n == Len(s)
           m == Len(t)
           u == s \o t
<1>1. u \in Seq(TradeRecord) /\ Len(u) = n + m
      /\ \A i \in 1 .. n + m : u[i] = IF i <= n THEN s[i] ELSE t[i - n]
  BY ConcatProperties
<1>2. n \in Nat /\ m \in Nat
  OBVIOUS
<1> DEFINE p == TradePnls(s)
           q == TradePnls(t)
           r == TradePnls(u)
<1>3. p \in Seq(Int) /\ q \in Seq(Int) /\ r \in Seq(Int) /\ Len(p) = n /\ Len(q) = m /\ Len(r) = n + m
  BY <1>1, ResultIs
<1>4. /\ \A i \in 1 .. n : p[i] = s[i].pnl
      /\ \A i \in 1 .. m : q[i] = t[i].pnl
      /\ \A i \in 1 .. n + m : r[i] = u[i].pnl
  <2> HIDE DEF u
  <2> QED
    BY <1>1 DEF TradePnls
<1> HIDE DEF n, m, u, p, q, r
<1>5. /\ p \o q \in Seq(Int) /\ Len(p \o q) = n + m
      /\ \A i \in 1 .. n + m : (p \o q)[i] = IF i <= n THEN p[i] ELSE q[i - n]
  BY <1>3, ConcatProperties
<1>6. \A i \in 1 .. n + m : r[i] = (p \o q)[i]
  <2> SUFFICES ASSUME NEW i \in 1 .. n + m PROVE r[i] = (p \o q)[i]
    OBVIOUS
  <2>0. r[i] = u[i].pnl
    BY <1>4
  <2>1. CASE i <= n
    <3>1. i \in 1 .. n
      BY <1>2, <2>1
    <3>2. u[i] = s[i] /\ (p \o q)[i] = p[i]
      BY <1>1, <1>5, <2>1
    <3> QED
      BY <1>4, <2>0, <3>1, <3>2
  <2>2. CASE ~(i <= n)
    <3>1. i - n \in 1 .. m
      BY <1>2, <2>2
    <3>2. u[i] = t[i - n] /\ (p \o q)[i] = q[i - n]
      BY <1>1, <1>5, <2>2
    <3> QED
      BY <1>4, <2>0, <3>1, <3>2
  <2> QED
    BY <2>1, <2>2
<1>7. r = p \o q
  <2> DEFINE pq == p \o q
  <2>1. pq \in Seq(Int) /\ Len(pq) = n + m /\ \A i \in 1 .. n + m : r[i] = pq[i]
    BY <1>5, <1>6
  <2> HIDE DEF pq
  <2>2. r = pq
    BY <1>3, <2>1
  <2> QED
    BY <2>2 DEF pq
<1>8. Plus(p \o q) = Plus(p) + Plus(q)
  BY <1>3, PlusJoined
<1> QED
  BY <1>7, <1>8 DEF Result, SumSeq, Plus, p, q, r, u

ResultsAre(p, ss, m) == p = [i \in 1 .. m |-> Result(ss[i])]

(* ... and so do those of a list of lists.                                   *)
LEMMA ResultOfAll ==
    ASSUME NEW m, NEW ss, ListsOf(TradeRecord, ss, m), NEW p, ResultsAre(p, ss, m)
    PROVE  Result(FlattenSeq(ss)) = SumSeq(p) /\ p \in [1 .. m -> Int]
<1>0. PICK f : Flattens(f, TradeRecord, ss, m)
  BY FlattenIs
<1>1. /\ f \in [1 .. m -> Seq(TradeRecord)]
      /\ f[1] = ss[1]
      /\ \A k \in 1 .. m - 1 : f[k + 1] = f[k] \o ss[k + 1]
      /\ FlattenSeq(ss) = f[m]
  BY <1>0 DEF Flattens
<1>2. m \in Nat \ {0} /\ ss \in [1 .. m -> Seq(TradeRecord)]
  BY DEF ListsOf
<1>3. \A i \in 1 .. m : p[i] = Result(ss[i]) /\ p[i] \in Int
  BY <1>2, ResultIs DEF ResultsAre
<1>4. p \in [1 .. m -> Int]
  BY <1>3 DEF ResultsAre
<1> DEFINE G == {k \in 0 .. m : k # 0 => Result(f[k]) = SumOf(p, 1 .. k)}
<1>5. 0 \in G
  BY <1>2
<1>6. ASSUME NEW k \in 0 .. m, k + 1 <= m, k \in G PROVE k + 1 \in G
  <2>1. k \in Nat /\ k + 1 \in 1 .. m /\ \A i \in 1 .. k + 1 : p[i] \in Int
    BY <1>2, <1>3, <1>6
  <2>2. SumOf(p, 1 .. k + 1) = p[k + 1] + SumOf(p, 1 .. k) /\ SumOf(p, 1 .. k) \in Int
    BY <2>1, OneMoreTerm
  <2>3. p[k + 1] = Result(ss[k + 1]) /\ p[k + 1] \in Int
    BY <1>3, <2>1
  <2>4. CASE k = 0
    <3>1. 1 .. 0 = {}
      OBVIOUS
    <3>2. SumOf(p, 1 .. 0) = 0
      BY <3>1, SumOfEmpty
    <3>3. SumOf(p, 1 .. 1) = p[1] /\ p[1] = Result(f[1])
      BY <1>1, <2>2, <2>3, <2>4, <3>2
    <3> QED
      BY <1>6, <2>4, <3>3
  <2>5. CASE k # 0
    <3>1. k \in 1 .. m - 1 /\ k \in 1 .. m
      BY <1>2, <1>6, <2>5
    <3>2. f[k + 1] = f[k] \o ss[k + 1] /\ f[k] \in Seq(TradeRecord)
          /\ ss[k + 1] \in Seq(TradeRecord)
      BY <1>1, <1>2, <2>1, <3>1
    <3>3. Result(f[k + 1]) = Result(f[k]) + Result(ss[k + 1])
      BY <3>2, ResultJoined
    <3>4. Result(f[k]) = SumOf(p, 1 .. k)
      BY <1>6, <2>5
    <3>5. Result(f[k + 1]) = SumOf(p, 1 .. k + 1)
      BY <2>2, <2>3, <3>3, <3>4
    <3> QED
      BY <1>6, <3>5
  <2> QED
    BY <2>4, <2>5
<1>7. \A k \in 0 .. m : k \in G
  <2> HIDE DEF G
  <2>1. \A k \in 0 .. m : k + 1 <= m /\ k \in G => k + 1 \in G
    BY <1>6
  <2> QED
    BY <1>2, <1>5, <2>1, UpTo
<1>8. m \in 0 .. m /\ m # 0
  BY <1>2
<1>9. Result(f[m]) = SumOf(p, 1 .. m)
  BY <1>7, <1>8
<1>10. SumSeq(p) = SumOf(p, 1 .. m)
  BY <1>2, <1>4, PlusIs DEF Plus, SumSeq
<1> QED
  BY <1>1, <1>4, <1>9, <1>10

(* Lists of trades of different days, each list after the one before, join   *)
(* to one of different days.                                                 *)
DifferentDays(ts) == \A i, j \in 1 .. Len(ts) : i # j => ts[i].day # ts[j].day

DaysFollow(ss, m) ==
    /\ \A k \in 1 .. m : DifferentDays(ss[k])
    /\ \A k, l \in 1 .. m : k < l =>
          \A i \in 1 .. Len(ss[k]), j \in 1 .. Len(ss[l]) : ss[k][i].day < ss[l][j].day

\* The trades of ts are trades of the first k lists.
FromFirst(ts, ss, k) ==
    \A i \in 1 .. Len(ts) : \E l \in 1 .. k : \E j \in 1 .. Len(ss[l]) : ts[i] = ss[l][j]

(* Lists that follow each other in time join to a list of different days.    *)
LEMMA DaysOfAll ==
    ASSUME NEW m, NEW ss, ListsOf(TradeRecord, ss, m), DaysFollow(ss, m)
    PROVE  DifferentDays(FlattenSeq(ss))
<1>0. PICK f : Flattens(f, TradeRecord, ss, m)
  BY FlattenIs
<1>1. /\ f \in [1 .. m -> Seq(TradeRecord)]
      /\ f[1] = ss[1]
      /\ \A k \in 1 .. m - 1 : f[k + 1] = f[k] \o ss[k + 1]
      /\ FlattenSeq(ss) = f[m]
  BY <1>0 DEF Flattens
<1>2. m \in Nat \ {0} /\ ss \in [1 .. m -> Seq(TradeRecord)]
  BY DEF ListsOf
<1> DEFINE G == {k \in 0 .. m : k # 0 => DifferentDays(f[k]) /\ FromFirst(f[k], ss, k)}
<1>3. 0 \in G
  BY <1>2
<1>4. ASSUME NEW k \in 0 .. m, k + 1 <= m, k \in G PROVE k + 1 \in G
  <2>1. k \in Nat /\ k + 1 \in 1 .. m /\ k + 1 \in 1 .. k + 1
    BY <1>2, <1>4
  <2>2. DifferentDays(ss[k + 1])
    BY <2>1 DEF DaysFollow
  <2>3. CASE k = 0
    <3>1. f[1] = ss[1]
      BY <1>1
    <3>2. DifferentDays(f[1]) /\ FromFirst(f[1], ss, 1)
      BY <2>2, <2>3, <3>1 DEF FromFirst
    <3> QED
      BY <1>4, <2>3, <3>2
  <2>4. CASE k # 0
    <3> DEFINE s == f[k]
               t == ss[k + 1]
               u == s \o t
               n == Len(s)
               l == Len(t)
    <3>1. k \in 1 .. m - 1 /\ k \in 1 .. m
      BY <1>2, <1>4, <2>4
    <3>2. f[k + 1] = u /\ s \in Seq(TradeRecord) /\ t \in Seq(TradeRecord)
      BY <1>1, <1>2, <2>1, <3>1
    <3>3. DifferentDays(s) /\ FromFirst(s, ss, k)
      BY <1>4, <2>4
    <3>4. ASSUME NEW i \in 1 .. n, NEW j \in 1 .. l PROVE s[i].day < t[j].day
      <4>1. PICK b \in 1 .. k : \E c \in 1 .. Len(ss[b]) : s[i] = ss[b][c]
        BY <3>3 DEF FromFirst
      <4>2. PICK c \in 1 .. Len(ss[b]) : s[i] = ss[b][c]
        BY <4>1
      <4>3. b \in 1 .. m /\ b < k + 1
        BY <1>2, <2>1, <4>1
      <4> QED
        BY <2>1, <4>2, <4>3 DEF DaysFollow
    <3>5. \A i \in 1 .. n, j \in 1 .. l : s[i].day \in Int /\ t[j].day \in Int
      <4> HIDE DEF s, t
      <4>1. \A x \in TradeRecord : x.day \in Int
        BY DEF TradeRecord
      <4>2. (\A i \in 1 .. n : s[i] \in TradeRecord) /\ \A j \in 1 .. l : t[j] \in TradeRecord
        BY <3>2
      <4> QED
        BY <4>1, <4>2
    <3>6. DifferentDays(t)
      BY <2>2
    <3>7. u \in Seq(TradeRecord) /\ Len(u) = n + l /\ n \in Nat /\ l \in Nat
          /\ \A i \in 1 .. n + l : u[i] = IF i <= n THEN s[i] ELSE t[i - n]
      <4> HIDE DEF s, t
      <4> QED
        BY <3>2, ConcatProperties
    <3>8. DifferentDays(u)
      <4> HIDE DEF s, t, u, n, l
      <4> SUFFICES ASSUME NEW i \in 1 .. n + l, NEW j \in 1 .. n + l, i # j
                   PROVE  u[i].day # u[j].day
        BY <3>7 DEF DifferentDays
      <4>1. \A x \in 1 .. n + l : x <= n => x \in 1 .. n /\ u[x] = s[x]
        BY <3>7
      <4>2. \A x \in 1 .. n + l : x > n => x - n \in 1 .. l /\ u[x] = t[x - n]
        BY <3>7
      <4>3. CASE i <= n /\ j <= n
        BY <3>3, <4>1, <4>3 DEF DifferentDays, n
      <4>4. CASE i > n /\ j > n
        <5>1. i - n # j - n
          BY <3>7
        <5> QED
          BY <3>6, <4>2, <4>4, <5>1 DEF DifferentDays, l
      <4>5. CASE i <= n /\ j > n
        BY <3>4, <3>5, <4>1, <4>2, <4>5
      <4>6. CASE i > n /\ j <= n
        BY <3>4, <3>5, <4>1, <4>2, <4>6
      <4> QED
        BY <3>7, <4>3, <4>4, <4>5, <4>6
    <3>9. FromFirst(u, ss, k + 1)
      <4> SUFFICES ASSUME NEW i \in 1 .. n + l
                   PROVE  \E b \in 1 .. k + 1 : \E c \in 1 .. Len(ss[b]) : u[i] = ss[b][c]
        BY <3>7 DEF FromFirst
      <4>1. CASE i <= n
        <5>1. i \in 1 .. n /\ u[i] = s[i]
          BY <3>7, <4>1
        <5>2. PICK b \in 1 .. k : \E c \in 1 .. Len(ss[b]) : s[i] = ss[b][c]
          BY <3>3, <5>1 DEF FromFirst
        <5>3. b \in 1 .. k + 1
          BY <2>1
        <5> QED
          BY <5>1, <5>2, <5>3
      <4>2. CASE i > n
        <5>1. i - n \in 1 .. l /\ u[i] = t[i - n]
          <6> HIDE DEF n, l, s, t, u
          <6>1. i - n \in 1 .. l /\ ~(i <= n)
            BY <3>7, <4>2
          <6> QED
            BY <3>7, <6>1
        <5> QED
          BY <2>1, <5>1
      <4> QED
        BY <3>7, <4>1, <4>2
    <3>10. DifferentDays(f[k + 1]) /\ FromFirst(f[k + 1], ss, k + 1)
      BY <3>2, <3>8, <3>9
    <3> QED
      BY <1>4, <3>10
  <2> QED
    BY <2>3, <2>4
<1>5. \A k \in 0 .. m : k \in G
  <2> HIDE DEF G
  <2>1. \A k \in 0 .. m : k + 1 <= m /\ k \in G => k + 1 \in G
    BY <1>4
  <2> QED
    BY <1>2, <1>3, <2>1, UpTo
<1>6. m \in 0 .. m /\ m # 0
  BY <1>2
<1> QED
  BY <1>1, <1>5, <1>6

(* The completed segments, in the order of their windows.                    *)
CompletedAt(m, at) == SucceededAt(wf.segments, Len(wf.segments), m, at)

(* The stored segments are a list.                                           *)
LEMMA SegmentsAreList ==
    ASSUME SegmentsInv
    PROVE  Len(wf.segments) \in Nat /\ IsList(wf.segments, Len(wf.segments))
<1>1. wf.segments \in Seq(SegmentRecord)
  BY DEF SegmentsInv
<1> QED
  BY <1>1 DEF IsList

(* So are the completed segments of the run.                                 *)
LEMMA CompletedAre ==
    ASSUME SegmentsInv
    PROVE  \E m, at : CompletedAt(m, at)
<1> DEFINE ss == wf.segments
           n == Len(wf.segments)
<1>1. n \in Nat /\ IsList(ss, n)
  BY SegmentsAreList
<1> HIDE DEF ss, n
<1>2. PICK m, at : SucceededAt(ss, n, m, at)
  BY <1>1, FilteredByError
<1>3. CompletedAt(m, at)
  BY <1>2 DEF CompletedAt, ss, n
<1> QED
  BY <1>3

(* Each of them is the segment of its window.                                *)
LEMMA CompletedFrom ==
    ASSUME SegmentsInv, NEW m, NEW at, CompletedAt(m, at), NEW done, done = Completed(wf.segments)
    PROVE  /\ m \in Nat /\ DOMAIN done = 1 .. m /\ Len(done) = m
           /\ \A i \in 1 .. m : /\ at[i] \in 1 .. Len(wf.segments)
                                /\ done[i] \in SegmentRecord
                                /\ done[i].trades \in Seq(TradeRecord)
                                /\ TestedIn(wf.windows[at[i]], done[i].trades)
           /\ \A i, j \in 1 .. m : i < j => at[i] < at[j]
<1>1. m \in Nat /\ done = [i \in 1 .. m |-> wf.segments[at[i]]]
  BY DEF CompletedAt, SucceededAt
<1>2. \A i \in 1 .. m : at[i] \in 1 .. Len(wf.segments)
  BY DEF CompletedAt, SucceededAt, Ascends
<1>3. \A i \in 1 .. m : SegmentOf(wf.windows[at[i]], done[i])
  BY <1>1, <1>2 DEF SegmentsInv
<1>4. \A r \in SegmentRecord : r.trades \in Seq(TradeRecord)
  BY DEF SegmentRecord
<1>5. \A i \in 1 .. m : /\ done[i] \in SegmentRecord
                        /\ TestedIn(wf.windows[at[i]], done[i].trades)
  BY <1>3 DEF SegmentOf
<1>6. \A i, j \in 1 .. m : i < j => at[i] < at[j]
  BY DEF CompletedAt, SucceededAt, Ascends
<1> QED
  BY <1>1, <1>2, <1>4, <1>5, <1>6

AllTrades(done) == [i \in DOMAIN done |-> done[i].trades]
AllPnls(done) == [i \in DOMAIN done |-> SegmentPnl(done[i])]

(* What the aggregate is made of.                                            *)
LEMMA AggregateIs ==
    ASSUME NEW segments, NEW done, done = Completed(segments)
    PROVE  /\ aggregate(segments).trades = FlattenSeq(AllTrades(done))
           /\ aggregate(segments).total_pnl = Result(FlattenSeq(AllTrades(done)))
           /\ aggregate(segments).segment_pnls = AllPnls(done)
           /\ aggregate(segments).completed_segments = Len(done)
           /\ aggregate(segments).failed_segments = Len(segments) - Len(done)
BY DEF aggregate, AllTrades, AllPnls, Result

(* The aggregate's total is the sum of the segments' results.                *)
LEMMA TotalsAgree ==
    ASSUME SegmentsInv, NEW m, NEW at, CompletedAt(m, at), NEW done, done = Completed(wf.segments)
    PROVE  /\ Result(FlattenSeq(AllTrades(done))) = SumSeq(AllPnls(done))
           /\ AllPnls(done) \in [1 .. m -> Int]
           /\ FlattenSeq(AllTrades(done)) \in Seq(TradeRecord)
<1> DEFINE ss == AllTrades(done)
           p == AllPnls(done)
<1>1. /\ m \in Nat /\ DOMAIN done = 1 .. m
      /\ \A i \in 1 .. m : done[i].trades \in Seq(TradeRecord)
  BY CompletedFrom
<1>2. ss = [i \in 1 .. m |-> done[i].trades] /\ p = [i \in 1 .. m |-> Result(ss[i])]
  BY <1>1 DEF AllTrades, AllPnls, SegmentPnl, Result
<1>3. ss \in [1 .. m -> Seq(TradeRecord)]
  BY <1>1, <1>2
<1> HIDE DEF ss, p
<1>4. CASE m = 0
  <2>1. 1 .. 0 = {}
    OBVIOUS
  <2>2. Len(ss) = 0 /\ ss \in Seq(TradeRecord)
    BY <1>2, <1>4, <2>1
  <2>3. FlattenSeq(ss) = ss
    BY <2>2 DEF FlattenSeq
  <2>4. p \in [1 .. 0 -> Int] /\ SumSeq(p) = 0
    <3>1. p \in [1 .. 0 -> Int] /\ 0 \in Nat
      BY <1>2, <1>4, <2>1
    <3>2. Plus(p) = SumOf(p, 1 .. 0)
      BY <3>1, PlusIs
    <3>3. SumOf(p, 1 .. 0) = 0
      BY <2>1, SumOfEmpty
    <3> QED
      BY <3>1, <3>2, <3>3 DEF Plus, SumSeq
  <2>5. Result(ss) = 0
    <3> DEFINE q == TradePnls(ss)
    <3>1. q \in Seq(Int) /\ Len(q) = 0
      BY <2>2, ResultIs
    <3> HIDE DEF q
    <3>2. q \in [1 .. 0 -> Int] /\ 0 \in Nat
      BY <3>1
    <3>3. Plus(q) = SumOf(q, 1 .. 0)
      BY <3>2, PlusIs
    <3>4. SumOf(q, 1 .. 0) = 0
      BY <2>1, SumOfEmpty
    <3> QED
      BY <3>3, <3>4 DEF Plus, SumSeq, Result, q
  <2> QED
    BY <1>4, <2>2, <2>3, <2>4, <2>5 DEF ss, p
<1>5. CASE m # 0
  <2>1. ListsOf(TradeRecord, ss, m)
    BY <1>1, <1>3, <1>5 DEF ListsOf
  <2>2. Result(FlattenSeq(ss)) = SumSeq(p) /\ p \in [1 .. m -> Int]
    <3>1. ResultsAre(p, ss, m)
      BY <1>2 DEF ResultsAre
    <3> QED
      BY <2>1, <3>1, ResultOfAll
  <2>3. FlattenSeq(ss) \in Seq(TradeRecord)
    BY <2>1, FlattenIs
  <2> QED
    BY <2>2, <2>3 DEF ss, p
<1> QED
  BY <1>4, <1>5

(* Windows that do not overlap keep the days of the aggregate apart.         *)
LEMMA DaysCountedOnce ==
    ASSUME SegmentsInv, NoClipping /\ wf.cfg.step >= wf.cfg.testing,
           NEW m, NEW at, CompletedAt(m, at), NEW done, done = Completed(wf.segments),
           NEW all, all = FlattenSeq(AllTrades(done))
    PROVE  Cardinality({all[i].day : i \in DOMAIN all}) = Len(all)
<1> DEFINE ss == AllTrades(done)
<1>1. /\ m \in Nat /\ DOMAIN done = 1 .. m
      /\ \A i \in 1 .. m : /\ at[i] \in 1 .. Len(wf.segments)
                           /\ done[i].trades \in Seq(TradeRecord)
                           /\ TestedIn(wf.windows[at[i]], done[i].trades)
      /\ \A i, j \in 1 .. m : i < j => at[i] < at[j]
  BY CompletedFrom
<1>2. ss = [i \in 1 .. m |-> done[i].trades]
  BY <1>1 DEF AllTrades
<1>3. ss \in [1 .. m -> Seq(TradeRecord)] /\ \A i \in 1 .. m : TestedIn(wf.windows[at[i]], ss[i])
  BY <1>1, <1>2
<1> HIDE DEF ss
<1>4. all \in Seq(TradeRecord)
  BY TotalsAgree
<1>5. DifferentDays(all)
  <2>1. CASE m = 0
    <3>1. 1 .. 0 = {}
      OBVIOUS
    <3>2. Len(ss) = 0 /\ ss = << >>
      BY <1>2, <2>1, <3>1
    <3>3. all = ss
      BY <3>2 DEF FlattenSeq, ss
    <3> QED
      BY <3>1, <3>2, <3>3 DEF DifferentDays
  <2>2. CASE m # 0
    <3>1. ListsOf(TradeRecord, ss, m)
      BY <1>1, <1>3, <2>2 DEF ListsOf
    <3>2. \A k \in 1 .. m : DifferentDays(ss[k])
      BY <1>3 DEF TestedIn, DifferentDays
    <3>3. ASSUME NEW k \in 1 .. m, NEW l \in 1 .. m, k < l,
                 NEW i \in 1 .. Len(ss[k]), NEW j \in 1 .. Len(ss[l])
          PROVE  ss[k][i].day < ss[l][j].day
      <4> DEFINE u == wf.windows[at[k]]
                 v == wf.windows[at[l]]
                 a == ss[k][i].day
                 b == ss[l][j].day
      <4>1. at[k] \in 1 .. Len(wf.windows) /\ at[l] \in 1 .. Len(wf.windows) /\ at[k] < at[l]
        <5>1. /\ Len(wf.segments) \in Nat /\ Len(wf.windows) \in Nat
              /\ Len(wf.segments) <= Len(wf.windows)
          BY SegmentsAreList DEF SegmentsInv, WfInv, WfType
        <5>2. at[k] \in 1 .. Len(wf.segments) /\ at[l] \in 1 .. Len(wf.segments) /\ at[k] < at[l]
          BY <1>1, <3>3
        <5> QED
          BY <5>1, <5>2
      <4>2. u \in WindowRecord /\ v \in WindowRecord
        <5>1. wf.windows \in Seq(WindowRecord)
          BY DEF SegmentsInv, WfInv, WfType
        <5> QED
          BY <4>1, <5>1
      <4>3. u.testing_end < v.testing_start
        <5>1. WindowsOutOfSample
          BY OrderedIsOutOfSample DEF SegmentsInv
        <5> QED
          BY <4>1, <5>1 DEF WindowsOutOfSample, Windows
      <4>4. a <= u.testing_end /\ v.testing_start <= b
        BY <1>3, <3>3 DEF TestedIn
      <4>5. a \in Int /\ b \in Int
        <5>1. \A x \in TradeRecord : x.day \in Int
          BY DEF TradeRecord
        <5>2. ss[k] \in Seq(TradeRecord) /\ ss[l] \in Seq(TradeRecord)
          BY <1>3
        <5>3. ss[k][i] \in TradeRecord /\ ss[l][j] \in TradeRecord
          BY <3>3, <5>2
        <5> QED
          BY <5>1, <5>3
      <4>6. u.testing_end \in Int /\ v.testing_start \in Int
        BY <4>2 DEF WindowRecord
      <4> HIDE DEF u, v, a, b
      <4>7. a < b
        BY <4>3, <4>4, <4>5, <4>6
      <4> QED
        BY <4>7 DEF a, b
    <3>4. DaysFollow(ss, m)
      BY <3>2, <3>3 DEF DaysFollow
    <3> QED
      BY <3>1, <3>4, DaysOfAll DEF ss
  <2> QED
    BY <2>1, <2>2
<1> DEFINE n == Len(all)
           k == [i \in 1 .. n |-> all[i].day]
<1>6. n \in Nat /\ DOMAIN all = 1 .. n
  BY <1>4
<1>7. IsFiniteSet(1 .. n) /\ Cardinality(1 .. n) = n
  <2> HIDE DEF n, k
  <2>1. n \in Int /\ 1 \in Int
    BY <1>6
  <2>2. IsFiniteSet(1 .. n) /\ Cardinality(1 .. n) = IF 1 > n THEN 0 ELSE n - 1 + 1
    BY <2>1, FS_Interval
  <2> QED
    BY <1>6, <2>2
<1>8. \A i, j \in 1 .. n : k[i] = k[j] => i = j
  BY <1>5 DEF DifferentDays
<1>9. {all[i].day : i \in DOMAIN all} = {k[i] : i \in 1 .. n}
  BY <1>6
<1> HIDE DEF n, k
<1>10. Cardinality({k[i] : i \in 1 .. n}) = Cardinality(1 .. n)
  <2> DEFINE S == 1 .. n
  <2>1. IsFiniteSet(S) /\ \A x, y \in S : k[x] = k[y] => x = y
    BY <1>7, <1>8
  <2> HIDE DEF S
  <2>2. Cardinality({k[x] : x \in S}) = Cardinality(S)
    BY <2>1, FiniteImage
  <2> QED
    BY <2>2 DEF S
<1> QED
  BY <1>7, <1>9, <1>10 DEF n

Robustness(done) == 
    LET pnls == AllPnls(done)
        stability == score_parameter_stability(done)
        consistency == score_performance_consistency(pnls)
        regime == score_regime_sensitivity(pnls)
    IN  IF Len(done) < 2
        THEN [stability |-> Neutral, consistency |-> Neutral,
              regime |-> Neutral, robustness |-> Neutral]
        ELSE [stability |-> stability, consistency |-> consistency,
              regime |-> regime,
              robustness |-> (30 * stability + 40 * consistency + 30 * regime)
                                 \div 100]

(* The scores depend on the completed segments alone.                        *)
LEMMA AnalyzeIs ==
    ASSUME NEW segments PROVE analyze(segments) = Robustness(Completed(segments))
BY DEF analyze, Robustness, AllPnls

(* A segment has selected parameters exactly when it completed.              *)
LEMMA SelectedAreCompleted ==
    ASSUME SegmentsInv
    PROVE  Filtered(wf.segments, LAMBDA s : s.selected # None) = Completed(wf.segments)
<1> DEFINE segs == wf.segments
           S == {segs[i] : i \in {j \in DOMAIN segs : ~segs[j].error}}
           R == {segs[i] : i \in {j \in DOMAIN segs : segs[j].selected # None}}
<1>1. DOMAIN segs = 1 .. Len(segs)
  BY SegmentsAreList DEF IsList
<1>2. \A i \in DOMAIN segs : ~segs[i].error <=> segs[i].selected # None
  BY <1>1 DEF SegmentsInv, SegmentOf
<1>3. S = R
  BY <1>2
<1>4. Completed(segs) = Members(segs, S)
  BY DEF Completed, Filtered
<1>5. Filtered(segs, LAMBDA s : s.selected # None) = Members(segs, R)
  BY DEF Filtered
<1> QED
  BY <1>3, <1>4, <1>5

(* The segments of a run make its summary account for them.                  *)
LEMMA SummaryAlways == SegmentsInv => SummaryAccounts
<1> SUFFICES ASSUME SegmentsInv PROVE SummaryAccounts
  OBVIOUS
<1> DEFINE done == Completed(wf.segments)
           agg == aggregate(wf.segments)
           rob == analyze(wf.segments)
<1>1. PICK m, at : CompletedAt(m, at)
  BY CompletedAre
<1>2. /\ m \in Nat /\ DOMAIN done = 1 .. m /\ Len(done) = m
  BY <1>1, CompletedFrom
<1>3. /\ agg.trades = FlattenSeq(AllTrades(done))
      /\ agg.total_pnl = Result(FlattenSeq(AllTrades(done)))
      /\ agg.segment_pnls = AllPnls(done)
      /\ agg.completed_segments = Len(done)
      /\ agg.failed_segments = Len(wf.segments) - Len(done)
  BY AggregateIs
<1>4. NoClipping /\ wf.cfg.step >= wf.cfg.testing =>
          Cardinality({agg.trades[i].day : i \in DOMAIN agg.trades}) = Len(agg.trades)
  <2> HIDE DEF agg, done
  <2>1. done = Completed(wf.segments)
    BY DEF done
  <2> QED
    BY <1>1, <1>3, <2>1, DaysCountedOnce
<1>5. wf.phase = "done" => agg.completed_segments + agg.failed_segments = Len(Windows)
  <2>1. Len(wf.segments) \in Nat /\ (wf.phase = "done" => Len(wf.segments) = Len(wf.windows))
    BY SegmentsAreList DEF SegmentsInv
  <2> HIDE DEF agg, done
  <2> QED
    BY <1>2, <1>3, <2>1 DEF Windows
<1>6. agg.total_pnl = SumSeq(agg.segment_pnls) /\ AllPnls(done) \in [1 .. m -> Int]
  <2> HIDE DEF agg, done
  <2>1. done = Completed(wf.segments)
    BY DEF done
  <2> QED
    BY <1>1, <1>3, <2>1, TotalsAgree
<1>7. rob = analyze(Filtered(wf.segments, LAMBDA s : s.selected # None))
  <2>1. Completed(done) = done
    BY SegmentsAreList, CompletedTwice
  <2>2. analyze(done) = Robustness(done) /\ rob = Robustness(done)
    BY <2>1, AnalyzeIs
  <2> QED
    BY <2>2, SelectedAreCompleted
<1>8. rob.regime <= rob.consistency
  <2>1. rob = Robustness(done)
    BY AnalyzeIs
  <2> HIDE DEF rob, done
  <2>2. CASE Len(done) < 2
    <3>1. rob.regime = 50 /\ rob.consistency = 50
      BY <2>1, <2>2 DEF Robustness, Neutral
    <3> QED
      BY <3>1
  <2>3. CASE ~(Len(done) < 2)
    <3> DEFINE p == AllPnls(done)
    <3>1. rob.regime = score_regime_sensitivity(p) /\ rob.consistency = score_performance_consistency(p)
      BY <2>1, <2>3 DEF Robustness
    <3> HIDE DEF p
    <3>2. m >= 2 /\ p \in [1 .. m -> Int]
      BY <1>2, <1>6, <2>3 DEF p
    <3>3. score_regime_sensitivity(p) <= score_performance_consistency(p)
      BY <1>2, <3>2, SpreadIsStricter
    <3> QED
      BY <3>1, <3>3
  <2> QED
    BY <2>2, <2>3
<1> QED
  BY <1>4, <1>5, <1>6, <1>7, <1>8 DEF SummaryAccounts

(* The windows of every run are out of sample and its summary says what they *)
(* showed: no day's trade is counted twice, the totals are those of the      *)
(* segments, failed ones are left out of the scores, and the spread penalty is*)
(* never milder than the variation one (WalkForwardAggregator,               *)
(* RobustnessAnalyzer).                                                      *)
THEOREM SummariesAccount == WfSpec => []OutOfSample
<1>1. SegmentsInv => OutOfSample
  BY SummaryAlways, OrderedIsOutOfSample DEF SegmentsInv, OutOfSample
<1> QED
  BY <1>1, SegmentsInvariant, PTL

-----------------------------------------------------------------------------
(* Research runs.  What the stored run documents and the answers of the      *)
(* services promise, for any number of jobs, rows, batches, faults, restarts.*)

Certain == {"monte_carlo", "walk_forward"}

(* The results of job j are stored in full. *)
Stored(j) ==
    /\ rows[j] = need[j]
    /\ kind[j] = "backtest" => metrics[j]
    /\ kind[j] \in Certain => need[j] > 0

(* A job has no document before it is created and no rows before it persists; *)
(* while it persists, every row stored is one whose write returned, so a      *)
(* batch is never stored twice.                                               *)
Progress(j) ==
    /\ pc[j] # "idle" => kind[j] \in Kinds
    /\ pc[j] \in {"idle", "create"} => run[j] = None
    /\ pc[j] \in {"idle", "create", "mark", "load", "compute"} => rows[j] = 0 /\ saved[j] = 0
    /\ pc[j] = "persist" => /\ rows[j] = saved[j] /\ saved[j] <= need[j]
                            /\ kind[j] \in Certain => need[j] > 0
    /\ pc[j] = "metrics" => kind[j] = "backtest" /\ rows[j] = need[j]
    /\ pc[j] = "reference" => kind[j] = "research"
    /\ pc[j] = "complete" => Stored(j)

(* The status COMPLETED is written by a coroutine that has stored its        *)
(* results and then ends, by returning or through its exception handler.     *)
RunCompleted(j) == run[j] = "COMPLETED" => pc[j] \in {"fail", "ended"} /\ Stored(j)

(* A coroutine has answered only when it has ended, and the stored status    *)
(* agrees with the answer.                                                   *)
Answered(j) ==
    /\ told[j] # None => pc[j] = "ended"
    /\ told[j] = "ok" => run[j] = "COMPLETED"
    /\ told[j] = "error" /\ ~unsaid[j] => run[j] \in {None, "PENDING", "FAILED"}
    /\ run[j] = "COMPLETED" /\ pc[j] = "ended" /\ restarts = 0
          => told[j] = "ok" \/ unsaid[j]

JobInv(j) == Progress(j) /\ RunCompleted(j) /\ Answered(j)
RunsInv == RunsTypeOK /\ \A j \in Jobs : JobInv(j)

(* What a step of job i leaves alone: everything of another job. *)
Untouched(j) ==
    /\ kind'[j] = kind[j] /\ pc'[j] = pc[j] /\ span'[j] = span[j] /\ need'[j] = need[j]
    /\ told'[j] = told[j] /\ run'[j] = run[j] /\ rows'[j] = rows[j] /\ saved'[j] = saved[j]
    /\ metrics'[j] = metrics[j] /\ unsaid'[j] = unsaid[j]
OnlyOf(i) == restarts' = restarts /\ \A j \in Jobs \ {i} : Untouched(j)
Preserved(i) == RunsTypeOK' /\ JobInv(i)' /\ OnlyOf(i)

(* Where each service goes next (the four run_* methods). *)
LEMMA Continuation ==
    ASSUME NEW j \in Jobs, kind[j] \in Kinds
    PROVE  /\ After(j, "mark") = "load" /\ After(j, "load") = "compute"
           /\ After(j, "compute") = "persist"
           /\ kind[j] \in Certain => After(j, "persist") = "complete"
           /\ kind[j] = "backtest" => /\ After(j, "persist") = "metrics"
                                      /\ After(j, "metrics") = "complete"
           /\ kind[j] = "research" => After(j, "persist") = "reference"
<1>1. CASE kind[j] = "backtest"
  BY <1>1 DEF After, BacktestSteps, Certain
<1>2. CASE kind[j] = "walk_forward"
  BY <1>2 DEF After, WalkForwardSteps, Certain
<1>3. CASE kind[j] = "monte_carlo"
  BY <1>3 DEF After, MonteCarloSteps, Certain
<1>4. CASE kind[j] = "research"
  BY <1>4 DEF After, ResearchSteps, Certain
<1> QED
  BY <1>1, <1>2, <1>3, <1>4 DEF Kinds

(* Submit: the validation answers or the document is to be created. *)
LEMMA SubmitPreserves ==
    ASSUME RunsInv, NEW i \in Jobs, NEW k \in Kinds, Submit(i, k)
    PROVE  Preserved(i)
<1> USE NoneAssumption DEF RunsInv, Kinds
<1>1. /\ kind' = [kind EXCEPT ![i] = k] /\ pc[i] = "idle"
      /\ UNCHANGED <<need, run, rows, saved, metrics, unsaid, faults, restarts>>
      /\ \/ pc' = [pc EXCEPT ![i] = "ended"] /\ told' = [told EXCEPT ![i] = "rejected"]
            /\ UNCHANGED span
         \/ /\ pc' = [pc EXCEPT ![i] = "create"] /\ UNCHANGED told
            /\ \E b \in BOOLEAN : span' = [span EXCEPT ![i] = b]
  <2>1. PICK q \in Requested :
          LET r == Validate(k, q)
          IN  IF r = None
              THEN /\ Goto(i, "ended") /\ told' = [told EXCEPT ![i] = "rejected"]
                   /\ UNCHANGED span
              ELSE /\ Goto(i, "create") /\ UNCHANGED told
                   /\ span' = [span EXCEPT ![i] = r.from <= r.to]
    BY DEF Submit
  <2> DEFINE b == Validate(k, q).from <= Validate(k, q).to
  <2>2. b \in BOOLEAN
    OBVIOUS
  <2>3. CASE Validate(k, q) = None
    BY <2>1, <2>3 DEF Submit, Goto
  <2>4. CASE Validate(k, q) # None
    <3>1. pc' = [pc EXCEPT ![i] = "create"] /\ UNCHANGED told /\ span' = [span EXCEPT ![i] = b]
      BY <2>1, <2>4 DEF Goto
    <3> HIDE DEF b
    <3> QED
      BY <3>1, <2>2 DEF Submit
  <2> QED
    BY <2>3, <2>4
<1>2. RunsTypeOK'
  BY <1>1 DEF RunsTypeOK, Steps
<1>3. OnlyOf(i)
  BY <1>1 DEF OnlyOf, Untouched, RunsTypeOK
<1>4. JobInv(i)'
  BY <1>1 DEF JobInv, Progress, RunCompleted, Answered, Stored, Certain, RunsTypeOK, Steps
<1> QED
  BY <1>2, <1>3, <1>4 DEF Preserved

(* A flag that is raised stays a flag. *)
LEMMA BooleanUpdate ==
    ASSUME NEW f \in [Jobs -> BOOLEAN], NEW i \in Jobs
    PROVE  [f EXCEPT ![i] = TRUE] \in [Jobs -> BOOLEAN]
BY Zenon

(* The insert of the PENDING document, whose failure reaches the caller. *)
LEMMA CreateRunPreserves ==
    ASSUME RunsInv, NEW i \in Jobs, CreateRun(i)
    PROVE  Preserved(i)
<1> USE NoneAssumption, BoundsAssumption DEF RunsInv
<1>1. /\ kind[i] \in Kinds /\ JobInv(i) /\ RunsTypeOK
      /\ pc' \in [Jobs -> Steps]
      /\ \A j \in Jobs \ {i} : pc'[j] = pc[j]
  BY Continuation DEF JobInv, Progress, RunsTypeOK, Steps, Kinds, Certain, Goto,
       Raise, CreateRun, Fault, NoFault
<1>2. RunsTypeOK'
  BY <1>1 DEF RunsTypeOK, Status, Terminal, CreateRun, Fault, NoFault
<1>3. OnlyOf(i)
  BY <1>1 DEF OnlyOf, Untouched, RunsTypeOK, CreateRun, Fault, NoFault
<1>4. JobInv(i)'
  BY <1>1, Continuation DEF JobInv, Progress, RunCompleted, Answered, Stored, Certain,
       RunsTypeOK, Status, Terminal, Kinds, Goto, Raise, CreateRun, Fault, NoFault
<1> QED
  BY <1>2, <1>3, <1>4 DEF Preserved

(* mark_running and its write. *)
LEMMA MarkRunningPreserves ==
    ASSUME RunsInv, NEW i \in Jobs, MarkRunning(i)
    PROVE  Preserved(i)
<1> USE NoneAssumption, BoundsAssumption DEF RunsInv
<1>1. /\ kind[i] \in Kinds /\ JobInv(i) /\ RunsTypeOK
      /\ pc' \in [Jobs -> Steps]
      /\ \A j \in Jobs \ {i} : pc'[j] = pc[j]
  BY Continuation DEF JobInv, Progress, RunsTypeOK, Steps, Kinds, Certain, Goto,
       Raise, MarkRunning, Write, Fault, NoFault
<1>2. RunsTypeOK'
  BY <1>1 DEF RunsTypeOK, Status, Terminal, MarkRunning, Write, Fault, NoFault
<1>3. OnlyOf(i)
  BY <1>1 DEF OnlyOf, Untouched, RunsTypeOK, MarkRunning, Write, Fault, NoFault
<1>4. JobInv(i)'
  BY <1>1, Continuation DEF JobInv, Progress, RunCompleted, Answered, Stored, Certain,
       RunsTypeOK, Status, Terminal, Kinds, Goto, Raise, MarkRunning, Write, Fault,
       NoFault
<1> QED
  BY <1>2, <1>3, <1>4 DEF Preserved

(* Reading the inputs. *)
LEMMA LoadPreserves ==
    ASSUME RunsInv, NEW i \in Jobs, LoadCandles(i) \/ FetchTradePnls(i)
    PROVE  Preserved(i)
<1> USE NoneAssumption, BoundsAssumption DEF RunsInv
<1>1. /\ kind[i] \in Kinds /\ JobInv(i) /\ RunsTypeOK
      /\ pc' \in [Jobs -> Steps]
      /\ \A j \in Jobs \ {i} : pc'[j] = pc[j]
  BY Continuation DEF JobInv, Progress, RunsTypeOK, Steps, Kinds, Certain, Goto,
       Raise, LoadCandles, FetchTradePnls, Fault, NoFault
<1>2. RunsTypeOK'
  BY <1>1 DEF RunsTypeOK, Status, Terminal, LoadCandles, FetchTradePnls, Fault,
       NoFault
<1>3. OnlyOf(i)
  BY <1>1 DEF OnlyOf, Untouched, RunsTypeOK, LoadCandles, FetchTradePnls, Fault,
       NoFault
<1>4. JobInv(i)'
  BY <1>1, Continuation DEF JobInv, Progress, RunCompleted, Answered, Stored, Certain,
       RunsTypeOK, Status, Terminal, Kinds, Goto, Raise, LoadCandles,
       FetchTradePnls, Fault, NoFault
<1> QED
  BY <1>2, <1>3, <1>4 DEF Preserved

(* The engine. *)
LEMMA ComputePreserves ==
    ASSUME RunsInv, NEW i \in Jobs, Compute(i)
    PROVE  Preserved(i)
<1> USE NoneAssumption, BoundsAssumption DEF RunsInv
<1>1. /\ kind[i] \in Kinds /\ JobInv(i) /\ RunsTypeOK
      /\ pc' \in [Jobs -> Steps]
      /\ \A j \in Jobs \ {i} : pc'[j] = pc[j]
  BY Continuation DEF JobInv, Progress, RunsTypeOK, Steps, Kinds, Certain, Goto,
       Raise, Compute, Fault, NoFault
<1>2. RunsTypeOK'
  BY <1>1 DEF RunsTypeOK, Status, Terminal, Compute, Fault, NoFault
<1>3. OnlyOf(i)
  BY <1>1 DEF OnlyOf, Untouched, RunsTypeOK, Compute, Fault, NoFault
<1>4. JobInv(i)'
  BY <1>1, Continuation DEF JobInv, Progress, RunCompleted, Answered, Stored, Certain,
       RunsTypeOK, Status, Terminal, Kinds, Goto, Raise, Compute, Fault, NoFault
<1> QED
  BY <1>2, <1>3, <1>4 DEF Preserved

(* One bulk write: the batch is within what remains, so the rows stored never *)
(* exceed those computed, whatever part of it a failure leaves behind.        *)
LEMMA PersistPreserves ==
    ASSUME RunsInv, NEW i \in Jobs, NEW n \in 1 .. Remaining(i), Persist(i, n)
    PROVE  Preserved(i)
<1> USE NoneAssumption, BoundsAssumption DEF RunsInv
<1>1. /\ kind[i] \in Kinds /\ JobInv(i) /\ RunsTypeOK
      /\ pc' \in [Jobs -> Steps]
      /\ \A j \in Jobs \ {i} : pc'[j] = pc[j]
  BY DEF JobInv, Progress, RunsTypeOK, Steps, Goto, Raise, Persist, BulkInsert
<1>2. /\ rows[i] = saved[i] /\ saved[i] + n <= need[i] /\ n \in Nat
      /\ rows[i] \in Nat /\ need[i] \in 0 .. MaxRows
  BY <1>1 DEF JobInv, Progress, RunsTypeOK, Persist, Remaining
<1>3. RunsTypeOK'
  BY <1>1, <1>2 DEF RunsTypeOK, Persist, BulkInsert, Fault, NoFault
<1>4. OnlyOf(i)
  BY <1>1 DEF OnlyOf, Untouched, RunsTypeOK, Persist, BulkInsert, Fault, NoFault
<1>5. JobInv(i)'
  <2>1. CASE pc' = pc
    BY <1>1, <1>2, <2>1 DEF JobInv, Progress, RunCompleted, Answered, Stored, Certain,
       RunsTypeOK, Persist, BulkInsert, Goto, Raise
  <2>2. CASE pc' = [pc EXCEPT ![i] = "fail"]
    BY <1>1, <1>2, <2>2 DEF JobInv, Progress, RunCompleted, Answered, Stored, Certain,
       RunsTypeOK, Persist
  <2> QED
    BY <2>1, <2>2 DEF Persist, BulkInsert, Goto, Raise
<1> QED
  BY <1>3, <1>4, <1>5 DEF Preserved

(* The four ways of persisting: in batches, or all rows in one write. *)
LEMMA SavePreserves ==
    ASSUME RunsInv, NEW i \in Jobs,
           SaveTrades(i) \/ InsertSegments(i) \/ InsertResults(i)
               \/ SaveOptimizationResults(i)
    PROVE  Preserved(i)
<1>1. Remaining(i) \in Int
  BY DEF RunsInv, RunsTypeOK, Remaining
<1>2. \E n \in 1 .. Remaining(i) : Persist(i, n)
  BY <1>1, BoundsAssumption DEF SaveTrades, InsertSegments, InsertResults,
     SaveOptimizationResults, Persist
<1> QED
  BY <1>2, PersistPreserves

(* The last bulk write has returned. *)
LEMMA PersistedPreserves ==
    ASSUME RunsInv, NEW i \in Jobs, Persisted(i)
    PROVE  Preserved(i)
<1> USE NoneAssumption, BoundsAssumption DEF RunsInv
<1>1. /\ kind[i] \in Kinds /\ JobInv(i) /\ RunsTypeOK
      /\ pc' \in [Jobs -> Steps]
      /\ \A j \in Jobs \ {i} : pc'[j] = pc[j]
  BY Continuation DEF JobInv, Progress, RunsTypeOK, Steps, Kinds, Certain, Goto,
       Raise, Persisted, Remaining
<1>2. RunsTypeOK'
  BY <1>1 DEF RunsTypeOK, Status, Terminal, Persisted, Remaining
<1>3. OnlyOf(i)
  BY <1>1 DEF OnlyOf, Untouched, RunsTypeOK, Persisted, Remaining
<1>4. JobInv(i)'
  BY <1>1, Continuation DEF JobInv, Progress, RunCompleted, Answered, Stored, Certain,
       RunsTypeOK, Status, Terminal, Kinds, Goto, Raise, Persisted, Remaining
<1> QED
  BY <1>2, <1>3, <1>4 DEF Preserved

(* The metrics document of a backtest. *)
LEMMA UpsertMetricsPreserves ==
    ASSUME RunsInv, NEW i \in Jobs, UpsertMetrics(i)
    PROVE  Preserved(i)
<1> USE NoneAssumption, BoundsAssumption DEF RunsInv
<1>1. /\ kind[i] \in Kinds /\ JobInv(i) /\ RunsTypeOK
      /\ pc' \in [Jobs -> Steps]
      /\ \A j \in Jobs \ {i} : pc'[j] = pc[j]
  BY Continuation DEF JobInv, Progress, RunsTypeOK, Steps, Kinds, Certain, Goto,
       Raise, UpsertMetrics, Fault, NoFault
<1>5. metrics' \in [Jobs -> BOOLEAN]
  BY <1>1, BooleanUpdate DEF RunsTypeOK, UpsertMetrics
<1>2. RunsTypeOK'
  BY <1>1, <1>5 DEF RunsTypeOK, Status, Terminal, UpsertMetrics, Fault, NoFault
<1>3. OnlyOf(i)
  BY <1>1 DEF OnlyOf, Untouched, RunsTypeOK, UpsertMetrics, Fault, NoFault
<1>4. JobInv(i)'
  BY <1>1, Continuation DEF JobInv, Progress, RunCompleted, Answered, Stored, Certain,
       RunsTypeOK, Status, Terminal, Kinds, Goto, Raise, UpsertMetrics, Fault,
       NoFault
<1> QED
  BY <1>2, <1>3, <1>4 DEF Preserved

(* Parameter research ends in its handler. *)
LEMMA LoadReferenceTradesPreserves ==
    ASSUME RunsInv, NEW i \in Jobs, LoadReferenceTrades(i)
    PROVE  Preserved(i)
<1> USE NoneAssumption, BoundsAssumption DEF RunsInv
<1>1. /\ kind[i] \in Kinds /\ JobInv(i) /\ RunsTypeOK
      /\ pc' \in [Jobs -> Steps]
      /\ \A j \in Jobs \ {i} : pc'[j] = pc[j]
  BY Continuation DEF JobInv, Progress, RunsTypeOK, Steps, Kinds, Certain, Goto,
       Raise, LoadReferenceTrades
<1>2. RunsTypeOK'
  BY <1>1 DEF RunsTypeOK, Status, Terminal, LoadReferenceTrades
<1>3. OnlyOf(i)
  BY <1>1 DEF OnlyOf, Untouched, RunsTypeOK, LoadReferenceTrades
<1>4. JobInv(i)'
  BY <1>1, Continuation DEF JobInv, Progress, RunCompleted, Answered, Stored, Certain,
       RunsTypeOK, Status, Terminal, Kinds, Goto, Raise, LoadReferenceTrades
<1> QED
  BY <1>2, <1>3, <1>4 DEF Preserved

(* mark_completed and its write. *)
LEMMA CompletePreserves ==
    ASSUME RunsInv, NEW i \in Jobs, Complete(i)
    PROVE  Preserved(i)
<1> USE NoneAssumption, BoundsAssumption DEF RunsInv
<1>1. /\ kind[i] \in Kinds /\ JobInv(i) /\ RunsTypeOK
      /\ pc' \in [Jobs -> Steps]
      /\ \A j \in Jobs \ {i} : pc'[j] = pc[j]
  BY Continuation DEF JobInv, Progress, RunsTypeOK, Steps, Kinds, Certain, Goto,
       Raise, Complete, Write, Fault, NoFault
<1>2. RunsTypeOK'
  BY <1>1 DEF RunsTypeOK, Status, Terminal, Complete, Write, Fault, NoFault
<1>3. OnlyOf(i)
  BY <1>1 DEF OnlyOf, Untouched, RunsTypeOK, Complete, Write, Fault, NoFault
<1>4. JobInv(i)'
  BY <1>1, Continuation DEF JobInv, Progress, RunCompleted, Answered, Stored, Certain,
       RunsTypeOK, Status, Terminal, Kinds, Goto, Raise, Complete, Write, Fault,
       NoFault
<1> QED
  BY <1>2, <1>3, <1>4 DEF Preserved

(* The exception handler. *)
LEMMA FailPreserves ==
    ASSUME RunsInv, NEW i \in Jobs, Fail(i)
    PROVE  Preserved(i)
<1> USE NoneAssumption, BoundsAssumption DEF RunsInv
<1>1. /\ kind[i] \in Kinds /\ JobInv(i) /\ RunsTypeOK
      /\ pc' \in [Jobs -> Steps]
      /\ \A j \in Jobs \ {i} : pc'[j] = pc[j]
  BY Continuation DEF JobInv, Progress, RunsTypeOK, Steps, Kinds, Certain, Goto,
       Raise, Fail, Fault, NoFault
<1>5. unsaid' \in [Jobs -> BOOLEAN]
  BY <1>1, BooleanUpdate DEF RunsTypeOK, Fail
<1>2. RunsTypeOK'
  BY <1>1, <1>5 DEF RunsTypeOK, Status, Terminal, Fail, Fault, NoFault
<1>3. OnlyOf(i)
  BY <1>1 DEF OnlyOf, Untouched, RunsTypeOK, Fail, Fault, NoFault
<1>4. JobInv(i)'
  BY <1>1, Continuation DEF JobInv, Progress, RunCompleted, Answered, Stored, Certain,
       RunsTypeOK, Status, Terminal, Kinds, Goto, Raise, Fail, Fault, NoFault
<1> QED
  BY <1>2, <1>3, <1>4 DEF Preserved

(* A step of one job keeps the invariant of every job: what it needs of the *)
(* others is not touched.                                                   *)
LEMMA FramePreserves ==
    ASSUME RunsInv, NEW i \in Jobs, Preserved(i)
    PROVE  RunsInv'
<1>1. ASSUME NEW j \in Jobs \ {i} PROVE JobInv(j)'
  <2>1. JobInv(j) /\ Untouched(j) /\ restarts' = restarts
    BY DEF RunsInv, Preserved, OnlyOf
  <2> QED
    BY <2>1 DEF JobInv, Progress, RunCompleted, Answered, Stored, Untouched
<1> QED
  BY <1>1 DEF Preserved, RunsInv

(* A restart ends every coroutine and touches no document. *)
LEMMA RestartPreserves ==
    ASSUME RunsInv, Restart
    PROVE  RunsInv'
<1> USE NoneAssumption, BoundsAssumption DEF RunsInv, Restart
<1>1. RunsTypeOK'
  BY DEF RunsTypeOK, Steps
<1>2. ASSUME NEW j \in Jobs PROVE JobInv(j)'
  <2>1. JobInv(j) /\ pc'[j] = (IF pc[j] = "idle" THEN "idle" ELSE "ended")
        /\ restarts' # 0
    BY DEF RunsTypeOK
  <2> QED
    BY <2>1 DEF JobInv, Progress, RunCompleted, Answered, Stored
<1> QED
  BY <1>1, <1>2

LEMMA RunsInvInit == RunsInit => RunsInv
BY NoneAssumption, BoundsAssumption
   DEF RunsInit, RunsInv, JobInv, Progress, RunCompleted, Answered, Stored, RunsTypeOK,
       Steps, Status, Terminal

LEMMA RunsInvStep == RunsInv /\ [RunsNext]_runsVars => RunsInv'
<1> SUFFICES ASSUME RunsInv, [RunsNext]_runsVars PROVE RunsInv'
  OBVIOUS
<1>1. ASSUME NEW i \in Jobs, JobStep(i) PROVE RunsInv'
  <2>1. Preserved(i)
    BY <1>1, CreateRunPreserves, MarkRunningPreserves, LoadPreserves, ComputePreserves,
       SavePreserves, PersistedPreserves, UpsertMetricsPreserves,
       LoadReferenceTradesPreserves, CompletePreserves, FailPreserves DEF JobStep
  <2> QED
    BY <2>1, FramePreserves
<1>2. ASSUME NEW i \in Jobs, NEW k \in Kinds, Submit(i, k) PROVE RunsInv'
  BY <1>2, SubmitPreserves, FramePreserves
<1>3. CASE Restart
  BY <1>3, RestartPreserves
<1>4. CASE UNCHANGED runsVars
  BY <1>4 DEF runsVars, RunsInv, JobInv, Progress, RunCompleted, Answered, Stored,
     RunsTypeOK
<1> QED
  BY <1>1, <1>2, <1>3, <1>4 DEF RunsNext

(* How many results are stored at each place of a run's coroutine.           *)
THEOREM RunsInvariant == RunsSpec => []RunsInv
BY RunsInvInit, RunsInvStep, PTL DEF RunsSpec

(* The stored documents keep their types: no status, row count or flag a job *)
(* never had, whatever failed (the run models and repositories).             *)
THEOREM RunsTypeCorrect == RunsSpec => []RunsTypeOK
<1>1. RunsInv => RunsTypeOK
  BY DEF RunsInv
<1> QED
  BY <1>1, RunsInvariant, PTL

(* A run stored as COMPLETED has all its results, for any number of jobs,    *)
(* rows, batches, database faults and restarts (the four run_* methods).     *)
THEOREM CompletedRunsHaveResults == RunsSpec => []CompletedHasResults
<1>1. RunsInv => CompletedHasResults
  BY DEF RunsInv, JobInv, RunCompleted, Stored, Certain, CompletedHasResults, get_reports
<1> QED
  BY <1>1, RunsInvariant, PTL

(* An answer agrees with the stored status, unless the write of FAILED       *)
(* itself raised (the except branches of the four run_* methods).            *)
THEOREM AnswersMatchRecords == RunsSpec => []AnswerMatchesRecord
<1>1. RunsInv => AnswerMatchesRecord
  BY DEF RunsInv, JobInv, Answered, AnswerMatchesRecord
<1> QED
  BY <1>1, RunsInvariant, PTL
-----------------------------------------------------------------------------
(* The strategy lab.  A strategy is LIVE only after every gate, for any      *)
(* number of requests that overlap, save documents they read long ago and    *)
(* fail half way.                                                            *)

Catalogs == [status : StrategyStatus, version : Versions]
Ops == {None, "register", "add_version", "promote", "retire", "experiment"}
Places == {"idle", "insert", "version", "save", "gate", "deploy", "status", "finish"}

LabTypeOK ==
    /\ catalog \in {None} \union Catalogs
    /\ experiments \in [Experiments -> {None, "PENDING", "RUNNING", "COMPLETED"}]
    /\ scorecards \in Seq(Nat)
    /\ req \in [Requests -> [op : Ops, at : Places, doc : {None} \union Catalogs,
                             to : {None} \union Versions \union StrategyStatus
                                  \union Experiments]]

(* The gates a request that will store status s has passed. *)
Passed(s) == (s = "PAPER" => Tested) /\ (s = "LIVE" => Scored)

(* The document a request holds may be outdated, and is as well earned as    *)
(* the one it was read from: what earns a status is never taken back.        *)
DocumentInv(q) == q.doc # None => Earned(q.doc.status)

(* A promotion leads one step on from the status it has read.                *)
RequestInv(q) ==
    /\ q.at = "insert" /\ q.op = "add_version" => q.doc # None /\ q.to \in Versions
    /\ q.at = "save" => q.doc # None /\ q.to \in Versions
    /\ q.at \in {"gate", "deploy", "status"} =>
          /\ q.doc # None
          /\ \/ q.op = "retire" /\ q.at # "gate" /\ q.to = "RETIRED"
             \/ q.op = "promote" /\ q.to = NextStatus(q.doc.status) /\ q.to # None
    /\ q.at \in {"deploy", "status"} => Passed(q.to)
    /\ q.at = "status" => <<q.doc.status, q.to>> \in deployments

LabInv ==
    /\ LabTypeOK
    /\ LiveIsEarned
    /\ \A r \in Requests : RequestInv(req[r]) /\ DocumentInv(req[r])

LEMMA LabInvInit == LabInit => LabInv
<1> SUFFICES ASSUME LabInit PROVE LabInv
  OBVIOUS
<1>1. LabTypeOK
  BY DEF LabInit, LabTypeOK, NoRequest, Ops, Places
<1>2. catalog = None /\ \A r \in Requests : req[r].at = "idle" /\ req[r].doc = None
  BY DEF LabInit, NoRequest
<1> QED
  BY <1>1, <1>2 DEF LabInv, LiveIsEarned, RequestInv, DocumentInv

(* The statuses a promotion leads to. *)
LEMMA Promotions ==
    ASSUME NEW s \in StrategyStatus, NextStatus(s) # None
    PROVE  \/ s = "DEVELOPMENT" /\ NextStatus(s) = "TESTING"
           \/ s = "TESTING" /\ NextStatus(s) = "PAPER"
           \/ s = "PAPER" /\ NextStatus(s) = "LIVE"
<1>1. s \in {"DEVELOPMENT", "TESTING", "PAPER"}
  BY DEF NextStatus, StrategyStatus
<1>2. NextStatus(s) = VALID_TRANSITIONS[s][1]
  BY <1>1 DEF NextStatus
<1>3. CASE s = "DEVELOPMENT"
  BY <1>2, <1>3 DEF VALID_TRANSITIONS, StrategyStatus
<1>4. CASE s = "TESTING"
  BY <1>2, <1>4 DEF VALID_TRANSITIONS, StrategyStatus
<1>5. CASE s = "PAPER"
  BY <1>2, <1>5 DEF VALID_TRANSITIONS, StrategyStatus
<1> QED
  BY <1>1, <1>3, <1>4, <1>5

(* Nothing that earns a status is taken back. *)
Kept ==
    /\ deployments \subseteq deployments'
    /\ Tested => Tested'
    /\ Scored => Scored'

LEMMA EarnedIsKept ==
    ASSUME Kept
    PROVE  /\ \A s : Earned(s) => Earned(s)'
           /\ \A s : Passed(s) => Passed(s)'
BY DEF Kept, Earned, Reached, Passed

LEMMA EvidenceIsKept ==
    ASSUME LabInv, [LabNext]_labVars
    PROVE  Kept
<1>1. deployments \subseteq deployments'
  BY DEF LabNext, labVars, RequestStep, RegisterRead, RegisterInsert, RegisterVersion,
     AddVersionRead, AddVersionInsert, AddVersionSave, PromoteRead, PromoteGate, RetireRead,
     CreateDeployment, SaveStatus, RunExperiment, FinishExperiment, CallFails,
     CreateExperiment, LinkExperimentResults, ComputeScorecard
<1>2. Tested => Tested'
  <2> SUFFICES ASSUME NEW e \in Experiments, experiments[e] \in {"RUNNING", "COMPLETED"}
               PROVE  experiments'[e] \in {"RUNNING", "COMPLETED"}
    BY DEF Tested
  <2>1. CASE UNCHANGED experiments
    BY <2>1
  <2>2. CASE \E f \in Experiments : CreateExperiment(f)
    BY <2>2, LabAssumption DEF CreateExperiment, LabInv, LabTypeOK
  <2>3. CASE \E f \in Experiments : LinkExperimentResults(f)
    BY <2>3 DEF LinkExperimentResults, LabInv, LabTypeOK
  <2>4. CASE \E r \in Requests, f \in Experiments : RunExperiment(r, f)
    BY <2>4 DEF RunExperiment, LabInv, LabTypeOK
  <2>5. CASE \E r \in Requests : FinishExperiment(r)
    BY <2>5 DEF FinishExperiment, LabInv, LabTypeOK
  <2> QED
    BY <2>1, <2>2, <2>3, <2>4, <2>5 DEF LabNext, labVars, RequestStep, RegisterRead,
       RegisterInsert, RegisterVersion, AddVersionRead, AddVersionInsert, AddVersionSave,
       PromoteRead, PromoteGate, RetireRead, CreateDeployment, SaveStatus, CallFails,
       ComputeScorecard
<1>3. Scored => Scored'
  <2>1. CASE UNCHANGED scorecards
    BY <2>1 DEF Scored
  <2>2. CASE ComputeScorecard
    <3> SUFFICES ASSUME NEW i \in 1 .. Len(scorecards), scorecards[i] >= PassMark
                 PROVE  i \in 1 .. Len(scorecards') /\ scorecards'[i] = scorecards[i]
      BY DEF Scored
    <3>1. PICK s \in Scores : scorecards' = Append(scorecards, s)
      BY <2>2 DEF ComputeScorecard
    <3> QED
      BY <3>1, LabAssumption DEF LabInv, LabTypeOK
  <2> QED
    BY <2>1, <2>2 DEF LabNext, labVars, RequestStep, RegisterRead, RegisterInsert,
       RegisterVersion, AddVersionRead, AddVersionInsert, AddVersionSave, PromoteRead,
       PromoteGate, RetireRead, CreateDeployment, SaveStatus, RunExperiment,
       FinishExperiment, CallFails, CreateExperiment, LinkExperimentResults
<1> QED
  BY <1>1, <1>2, <1>3 DEF Kept

(* A step that leaves the catalog alone and gives its request r a record     *)
(* that is well formed preserves the invariant.                              *)
LEMMA OtherRequests ==
    ASSUME LabInv, Kept, NEW r \in Requests,
           \A u \in Requests \ {r} : req'[u] = req[u]
    PROVE  \A u \in Requests \ {r} : (RequestInv(req[u]) /\ DocumentInv(req[u]))'
<1> SUFFICES ASSUME NEW u \in Requests \ {r}
             PROVE  (RequestInv(req[u]) /\ DocumentInv(req[u]))'
  OBVIOUS
<1>1. req'[u] = req[u] /\ RequestInv(req[u]) /\ DocumentInv(req[u])
  BY DEF LabInv
<1>2. RequestInv(req[u])'
  BY <1>1, EarnedIsKept DEF RequestInv, Kept
<1>3. DocumentInv(req[u])'
  BY <1>1, EarnedIsKept DEF DocumentInv
<1> QED
  BY <1>2, <1>3

LEMMA RequestPreserves ==
    ASSUME LabInv, Kept, LabTypeOK', NEW r \in Requests,
           \A u \in Requests \ {r} : req'[u] = req[u],
           UNCHANGED catalog,
           (RequestInv(req[r]) /\ DocumentInv(req[r]))'
    PROVE  LabInv'
<1>1. LiveIsEarned'
  BY EarnedIsKept DEF LabInv, LiveIsEarned
<1> QED
  BY <1>1, OtherRequests DEF LabInv

LEMMA TypesPreserved ==
    ASSUME LabInv, [LabNext]_labVars
    PROVE  LabTypeOK'
<1> USE DEF LabInv, LabTypeOK, Ops, Places, Done, Begin, At, Step, NoRequest, labVars
<1>1. CASE UNCHANGED labVars
  BY <1>1
<1>2. CASE \E e \in Experiments : CreateExperiment(e) \/ LinkExperimentResults(e)
  BY <1>2 DEF CreateExperiment, LinkExperimentResults
<1>3. CASE ComputeScorecard
  BY <1>3, LabAssumption DEF ComputeScorecard
<1>4. ASSUME NEW r \in Requests, RequestStep(r)
      PROVE  LabTypeOK'
  <2>1. CASE RegisterRead(r) \/ RegisterVersion(r) \/ CallFails(r) \/ PromoteGate(r)
    <3>1. CASE RegisterRead(r)
      BY <3>1 DEF RegisterRead
    <3>2. CASE RegisterVersion(r)
      BY <3>2 DEF RegisterVersion
    <3>3. CASE CallFails(r)
      BY <3>3 DEF CallFails
    <3>4. CASE PromoteGate(r)
      <4>1. UNCHANGED <<catalog, experiments, scorecards>>
        BY <3>4 DEF PromoteGate
      <4>2. \/ req' = [req EXCEPT ![r].at = "deploy"]
            \/ req' = [req EXCEPT ![r] = NoRequest]
        BY <3>4 DEF PromoteGate
      <4>3. CASE req' = [req EXCEPT ![r].at = "deploy"]
        BY <4>1, <4>3
      <4>4. CASE req' = [req EXCEPT ![r] = NoRequest]
        BY <4>1, <4>4
      <4> QED
        BY <4>2, <4>3, <4>4
    <3> QED
      BY <2>1, <3>1, <3>2, <3>3, <3>4
  <2>2. CASE RegisterInsert(r)
    BY <2>2, LabAssumption DEF RegisterInsert, StrategyCatalog, Catalogs, StrategyStatus
  <2>3. CASE \E v \in Versions : AddVersionRead(r, v)
    BY <2>3 DEF AddVersionRead
  <2>4. CASE AddVersionInsert(r)
    BY <2>4 DEF AddVersionInsert
  <2>5. CASE AddVersionSave(r)
    <3>1. req[r].doc \in Catalogs /\ req[r].to \in Versions
      BY <2>5 DEF AddVersionSave, RequestInv
    <3>2. catalog' \in Catalogs
      BY <2>5, <3>1 DEF AddVersionSave, Catalogs
    <3> QED
      BY <2>5, <3>2 DEF AddVersionSave
  <2>6. CASE PromoteRead(r)
    <3>1. catalog \in Catalogs /\ NextStatus(catalog.status) # None
      BY <2>6 DEF PromoteRead
    <3>2. NextStatus(catalog.status) \in StrategyStatus
      BY <3>1, Promotions DEF Catalogs, StrategyStatus
    <3> QED
      BY <2>6, <3>2 DEF PromoteRead
  <2>7. CASE RetireRead(r)
    BY <2>7 DEF RetireRead, StrategyStatus
  <2>8. CASE CreateDeployment(r)
    BY <2>8 DEF CreateDeployment
  <2>9. CASE SaveStatus(r)
    <3>1. req[r].doc \in Catalogs /\ req[r].to \in StrategyStatus
      BY <2>9, Promotions DEF SaveStatus, RequestInv, Catalogs, StrategyStatus
    <3>2. catalog' \in Catalogs
      BY <2>9, <3>1 DEF SaveStatus, Catalogs
    <3> QED
      BY <2>9, <3>2 DEF SaveStatus
  <2>10. CASE \E e \in Experiments : RunExperiment(r, e)
    BY <2>10 DEF RunExperiment
  <2>11. CASE FinishExperiment(r)
    BY <2>11 DEF FinishExperiment
  <2> QED
    BY <1>4, <2>1, <2>2, <2>3, <2>4, <2>5, <2>6, <2>7, <2>8, <2>9, <2>10, <2>11
       DEF RequestStep
<1> QED
  BY <1>1, <1>2, <1>3, <1>4 DEF LabNext

(* A request that ends, or that takes a first step with the current document *)
(* before any gate.                                                          *)
LEMMA RequestEnds ==
    ASSUME LabInv, Kept, LabTypeOK', NEW r \in Requests, Done(r)
    PROVE  /\ (RequestInv(req[r]) /\ DocumentInv(req[r]))'
           /\ \A u \in Requests \ {r} : req'[u] = req[u]
<1>1. req'[r] = NoRequest /\ \A u \in Requests \ {r} : req'[u] = req[u]
  BY DEF Done, LabInv, LabTypeOK
<1> QED
  BY <1>1 DEF NoRequest, RequestInv, DocumentInv

LEMMA RequestBegins ==
    ASSUME LabInv, Kept, NEW r \in Requests, UNCHANGED catalog,
           NEW op, NEW at, NEW to, Begin(r, op, at, to)
    PROVE  /\ req'[r] = [op |-> op, at |-> at, doc |-> catalog, to |-> to]
           /\ DocumentInv(req[r])'
           /\ \A u \in Requests \ {r} : req'[u] = req[u]
<1>1. /\ req'[r] = [op |-> op, at |-> at, doc |-> catalog, to |-> to]
      /\ \A u \in Requests \ {r} : req'[u] = req[u]
  BY DEF Begin, LabInv, LabTypeOK
<1>2. DocumentInv(req[r])'
  BY <1>1, EarnedIsKept DEF DocumentInv, LabInv, LiveIsEarned
<1> QED
  BY <1>1, <1>2

LEMMA RequestAdvances ==
    ASSUME LabInv, Kept, NEW r \in Requests, NEW at, Step(r, at)
    PROVE  /\ req'[r] = [req[r] EXCEPT !.at = at]
           /\ DocumentInv(req[r])'
           /\ \A u \in Requests \ {r} : req'[u] = req[u]
<1>1. /\ req'[r] = [req[r] EXCEPT !.at = at]
      /\ \A u \in Requests \ {r} : req'[u] = req[u]
  BY DEF Step, LabInv, LabTypeOK
<1>2. req'[r].doc = req[r].doc
  BY <1>1 DEF LabInv, LabTypeOK
<1>3. DocumentInv(req[r])'
  BY <1>2, EarnedIsKept DEF DocumentInv, LabInv
<1> QED
  BY <1>1, <1>3

LEMMA CatalogSaved ==
    ASSUME LabInv, Kept, LabTypeOK', NEW r \in Requests,
           \A u \in Requests \ {r} : req'[u] = req[u],
           Earned(catalog.status)',
           (RequestInv(req[r]) /\ DocumentInv(req[r]))'
    PROVE  LabInv'
BY OtherRequests DEF LabInv, LiveIsEarned

(* The status a promotion or a retirement saves is earned: the log shows     *)
(* the step from the status it read, which was earned before.                *)
LEMMA PromotionEarns ==
    ASSUME NEW s \in StrategyStatus, NEW to,
           Earned(s), Passed(to), <<s, to>> \in deployments,
           to = "RETIRED" \/ (to = NextStatus(s) /\ to # None)
    PROVE  Earned(to)
<1>1. CASE to = "RETIRED"
  BY <1>1 DEF Earned
<1>2. CASE s = "DEVELOPMENT" /\ to = "TESTING"
  BY <1>2 DEF Earned, Reached, Requires
<1>3. CASE s = "TESTING" /\ to = "PAPER"
  BY <1>3 DEF Earned, Reached, Requires, Passed
<1>4. CASE s = "PAPER" /\ to = "LIVE"
  BY <1>4 DEF Earned, Reached, Requires, Passed
<1> QED
  BY <1>1, <1>2, <1>3, <1>4, Promotions

LEMMA SavedStatusIsEarned ==
    ASSUME LabInv, NEW r \in Requests, req[r].at = "status"
    PROVE  Earned(req[r].to)
<1>1. RequestInv(req[r]) /\ DocumentInv(req[r])
  BY DEF LabInv
<1>2. req[r].doc \in {None} \union Catalogs
  BY DEF LabInv, LabTypeOK
<1>3. req[r].doc # None /\ Passed(req[r].to)
  BY <1>1 DEF RequestInv
<1>4. <<req[r].doc.status, req[r].to>> \in deployments
  BY <1>1 DEF RequestInv
<1>5. \/ req[r].to = "RETIRED"
      \/ req[r].to = NextStatus(req[r].doc.status) /\ req[r].to # None
  BY <1>1 DEF RequestInv
<1>6. Earned(req[r].doc.status)
  BY <1>1, <1>3 DEF DocumentInv
<1>7. req[r].doc.status \in StrategyStatus
  BY <1>2, <1>3 DEF Catalogs
<1> QED
  BY <1>3, <1>4, <1>5, <1>6, <1>7, PromotionEarns

(* One lemma for the steps of requests, one step per action.                 *)
LEMMA RequestStepPreserves ==
    ASSUME LabInv, Kept, LabTypeOK', NEW r \in Requests, RequestStep(r)
    PROVE  LabInv'
<1>1. ASSUME Done(r), UNCHANGED catalog
      PROVE  LabInv'
  BY <1>1, RequestEnds, RequestPreserves
<1>2. ASSUME NEW op, NEW at, NEW to, Begin(r, op, at, to), UNCHANGED catalog,
             RequestInv([op |-> op, at |-> at, doc |-> catalog, to |-> to])'
      PROVE  LabInv'
  BY <1>2, RequestBegins, RequestPreserves
<1>3. CASE RegisterVersion(r) \/ CallFails(r) \/ FinishExperiment(r)
  BY <1>1, <1>3 DEF RegisterVersion, CallFails, FinishExperiment
<1>4. CASE RegisterRead(r)
  BY <1>2, <1>4 DEF RegisterRead, RequestInv
<1>5. CASE \E v \in Versions : AddVersionRead(r, v)
  BY <1>2, <1>5 DEF AddVersionRead, RequestInv
<1>6. CASE PromoteRead(r)
  BY <1>2, <1>6 DEF PromoteRead, RequestInv
<1>7. CASE RetireRead(r)
  <2>1. Passed("RETIRED")'
    BY DEF Passed
  <2> QED
    BY <1>2, <1>7, <2>1 DEF RetireRead, RequestInv
<1>8. CASE \E e \in Experiments : RunExperiment(r, e)
  BY <1>2, <1>8 DEF RunExperiment, RequestInv
<1>9. CASE RegisterInsert(r)
  <2>1. catalog'.status = "DEVELOPMENT"
    BY <1>9 DEF RegisterInsert, StrategyCatalog
  <2>2. Earned(catalog.status)'
    BY <2>1 DEF Earned
  <2>3. req'[r].at = "version"
    BY <1>9, RequestAdvances DEF RegisterInsert, LabInv, LabTypeOK
  <2>4. RequestInv(req[r])'
    BY <2>3 DEF RequestInv
  <2> QED
    BY <1>9, <2>2, <2>4, RequestAdvances, CatalogSaved DEF RegisterInsert
<1>10. CASE AddVersionInsert(r)
  <2>1. /\ RequestInv(req[r])
        /\ req[r].op = "add_version" /\ req[r].at = "insert" /\ Step(r, "save")
    BY <1>10 DEF AddVersionInsert, At, LabInv
  <2>2. req[r].doc # None /\ req[r].to \in Versions
    BY <2>1 DEF RequestInv
  <2>3. req'[r].at = "save" /\ req'[r].doc = req[r].doc /\ req'[r].to = req[r].to
    BY <2>1, RequestAdvances DEF LabInv, LabTypeOK
  <2>4. RequestInv(req[r])'
    BY <2>2, <2>3 DEF RequestInv
  <2> QED
    BY <1>10, <2>1, <2>4, RequestAdvances, RequestPreserves DEF AddVersionInsert
<1>11. CASE AddVersionSave(r)
  <2>1. req[r].doc \in Catalogs /\ Earned(req[r].doc.status)
    BY <1>11 DEF AddVersionSave, At, LabInv, LabTypeOK, RequestInv, DocumentInv
  <2>2. catalog'.status = req[r].doc.status
    BY <1>11, <2>1 DEF AddVersionSave, Catalogs
  <2>3. Earned(catalog.status)'
    BY <2>1, <2>2, EarnedIsKept
  <2> QED
    BY <1>11, <2>3, RequestEnds, CatalogSaved DEF AddVersionSave
<1>12. CASE PromoteGate(r) /\ GateOpen(req[r].to)
  <2>1. /\ Step(r, "deploy") /\ req[r].at = "gate"
    BY <1>12 DEF PromoteGate, At
  <2>2. /\ req'[r].at = "deploy" /\ req'[r].op = req[r].op
        /\ req'[r].doc = req[r].doc /\ req'[r].to = req[r].to
    BY <2>1, RequestAdvances DEF LabInv, LabTypeOK
  <2>3. Passed(req[r].to)
    <3>1. req[r].to = "LIVE" => Len(scorecards) \in 1 .. Len(scorecards)
      BY <1>12 DEF GateOpen, LabInv, LabTypeOK
    <3> QED
      BY <1>12, <3>1 DEF GateOpen, Passed, Tested, Scored
  <2>4. Passed(req[r].to)'
    BY <2>2, <2>3, EarnedIsKept DEF Passed
  <2>5. RequestInv(req[r])'
    BY <2>1, <2>2, <2>4 DEF RequestInv, LabInv
  <2> QED
    BY <1>12, <2>1, <2>5, RequestAdvances, RequestPreserves DEF PromoteGate
<1>13. CASE PromoteGate(r) /\ ~GateOpen(req[r].to)
  BY <1>1, <1>13 DEF PromoteGate
<1>14. CASE CreateDeployment(r)
  <2>1. /\ req'[r].at = "status" /\ req'[r].op = req[r].op
        /\ req'[r].doc = req[r].doc /\ req'[r].to = req[r].to
    BY <1>14, RequestAdvances DEF CreateDeployment, LabInv, LabTypeOK
  <2>2. <<req[r].doc.status, req[r].to>> \in deployments'
    BY <1>14 DEF CreateDeployment
  <2>3. Passed(req[r].to)'
    <3>1. Passed(req[r].to)
      BY <1>14 DEF CreateDeployment, LabInv, RequestInv
    <3> QED
      BY <2>1, <3>1, EarnedIsKept DEF Passed
  <2>4. RequestInv(req[r])'
    BY <1>14, <2>1, <2>2, <2>3 DEF CreateDeployment, RequestInv, LabInv
  <2> QED
    BY <1>14, <2>4, RequestAdvances, RequestPreserves DEF CreateDeployment
<1>15. CASE SaveStatus(r)
  <2>1. req[r].doc \in Catalogs /\ Earned(req[r].to)
    BY <1>15, SavedStatusIsEarned DEF SaveStatus, LabInv, LabTypeOK, RequestInv
  <2>2. catalog'.status = req[r].to
    BY <1>15, <2>1 DEF SaveStatus, Catalogs
  <2>3. Earned(catalog.status)'
    BY <2>1, <2>2, EarnedIsKept
  <2> QED
    BY <1>15, <2>3, RequestEnds, CatalogSaved DEF SaveStatus
<1> QED
  BY <1>3, <1>4, <1>5, <1>6, <1>7, <1>8, <1>9, <1>10, <1>11, <1>12, <1>13, <1>14, <1>15
     DEF RequestStep

LEMMA LabInvNext == LabInv /\ [LabNext]_labVars => LabInv'
<1> SUFFICES ASSUME LabInv, [LabNext]_labVars
             PROVE  LabInv'
  OBVIOUS
<1>1. Kept /\ LabTypeOK'
  BY EvidenceIsKept, TypesPreserved
<1>2. CASE \E r \in Requests : RequestStep(r)
  BY <1>1, <1>2, RequestStepPreserves
<1>3. CASE UNCHANGED <<catalog, req>>
  <2>1. LiveIsEarned'
    BY <1>1, <1>3, EarnedIsKept DEF LabInv, LiveIsEarned
  <2>2. \A r \in Requests : (RequestInv(req[r]) /\ DocumentInv(req[r]))'
    <3> SUFFICES ASSUME NEW r \in Requests
                 PROVE  (RequestInv(req[r]) /\ DocumentInv(req[r]))'
      OBVIOUS
    <3>1. req'[r] = req[r] /\ RequestInv(req[r]) /\ DocumentInv(req[r])
      BY <1>3 DEF LabInv
    <3> QED
      BY <1>1, <3>1, EarnedIsKept DEF RequestInv, DocumentInv, Kept
  <2> QED
    BY <1>1, <2>1, <2>2 DEF LabInv
<1> QED
  BY <1>2, <1>3 DEF LabNext, labVars, CreateExperiment, LinkExperimentResults,
     ComputeScorecard

(* The inductive invariant holds in every reachable state. *)
THEOREM LabInvariant == LabSpec => []LabInv
BY LabInvInit, LabInvNext, PTL DEF LabSpec

(* The status of the catalog entry is always backed by the deployment log,   *)
(* an experiment and a scorecard (promote_strategy and its gates), whatever  *)
(* requests overlap with it and wherever they fail.                          *)
THEOREM LiveIsEarnedAlways == LabSpec => []LiveIsEarned
<1>1. LabInv => LiveIsEarned
  BY DEF LabInv
<1> QED
  BY <1>1, LabInvariant, PTL

(* What earned a status is never taken back: deployment rows stay, an        *)
(* experiment that ran stays run, a scorecard of 50 or more stays computed.  *)
THEOREM EvidenceStays == LabSpec => [][Kept]_labVars
<1>1. LabInv /\ [LabNext]_labVars => [Kept]_labVars
  BY EvidenceIsKept
<1> QED
  BY <1>1, LabInvariant, PTL DEF LabSpec
=============================================================================
