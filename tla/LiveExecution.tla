---------------------------- MODULE LiveExecution ----------------------------
(***************************************************************************)
(* The real-money execution pipeline: LiveExecutionService with the        *)
(* LiveExecutionEngine, LivePositionManager, LiveRiskManager and the       *)
(* FailsafeCoordinator it drives, the live_orders and live_positions       *)
(* collections it writes, and the broker it talks to.                      *)
(*                                                                         *)
(* All of it runs on one asyncio event loop.  A task gives up the loop     *)
(* only where it awaits the database, the broker, a WebSocket or a held    *)
(* lock, so one action below is what a task does between two such points,  *)
(* and any other task may step in between.                                 *)
(*                                                                         *)
(*   d \in Deliveries      a run of _handle_generated_signal; it names the *)
(*                         position it may create and its entry order      *)
(*   c \in CandleHandlers  a run of _handle_built_candle                   *)
(*   c \in Sweepers        a run of close_all_open (EOD job, operator,     *)
(*                         emergency stop)                                 *)
(*   r \in Pollers         a run of reconcile_orders (30 s job, operator)  *)
(***************************************************************************)
EXTENDS OrderStateMachine, Naturals, FiniteSets

CONSTANTS
    Deliveries, CandleHandlers, Sweepers, Pollers,
    SignalOf,            \* _signal_key: symbol|date|side of a delivery
    SymbolOf,            \* the symbol of a delivery
    MaxOpen,             \* LIVE_EXEC_MAX_OPEN_POSITIONS
    MaxTrades,           \* LIVE_EXEC_MAX_TRADES_PER_DAY
    MaxRetries,          \* LIVE_EXEC_ORDER_MAX_RETRIES
    SignalBrokerUnique,  \* does live_orders carry the index signal_broker_unique?
                         \* TRUE as the model declares it, FALSE as the fake
                         \* repositories of the test suite behave
    DbFaults,            \* may a database call raise?
    Warm,                \* did live_session_warmup run ensure_ready before the
                         \* first signal of the day?
    MaxRuns,             \* bound: handler runs that may place exit orders
    MaxCrashes,          \* bound: process restarts
    Nobody               \* the holder of a free lock; "no value"

Closers == CandleHandlers \cup Sweepers
Tasks == Deliveries \cup Closers \cup Pollers

ASSUME TasksAssumption ==
    /\ Deliveries \cap Closers = {} /\ Deliveries \cap Pollers = {}
    /\ CandleHandlers \cap Sweepers = {} /\ Closers \cap Pollers = {}
    /\ Nobody \notin Tasks
    /\ IsFiniteSet(Deliveries)

ASSUME SignalAssumption ==
    /\ DOMAIN SignalOf = Deliveries /\ DOMAIN SymbolOf = Deliveries
    /\ \A d, e \in Deliveries : SignalOf[d] = SignalOf[e] => SymbolOf[d] = SymbolOf[e]

ASSUME BoundAssumption ==
    /\ {MaxOpen, MaxTrades, MaxRetries, MaxRuns, MaxCrashes} \subseteq Nat
    /\ {SignalBrokerUnique, DbFaults, Warm} \subseteq BOOLEAN

\* An order row: <<d, 0>> is d's entry order, <<d, k>> the exit order that the
\* k-th handler run placed for d's position.
OrderIds == Deliveries \X (0..MaxRuns)
EntryOrder(d) == <<d, 0>>

VARIABLES
    pc,         \* where each task is
    lock,       \* holder of LiveExecutionService._mutation_lock
    hydrated,   \* _hydrated
    snap,       \* ensure_ready: the open positions a task has read
    book,       \* LivePositionManager._book: positions held in memory
    objClosed,  \* positions whose in-memory object already says CLOSED
    kill,       \* KillSwitch.engaged
    paused,     \* _is_paused
    trades,     \* _trades_today
    booked,     \* how often a position's P&L is in _realized_pnl_today
    riskOk,     \* verdict of LiveRiskManager.evaluate on the context d built
    todo,       \* exit decisions a closer has still to execute
    cur,        \* the position a closer is closing
    run,        \* the run number of a closer
    dump,       \* documents of a price update on their way to the database
    polled,     \* rows a poller has still to look up: copies read earlier
    found,      \* the transition a poller is about to write
    row,        \* live_orders: order_status, or "ABSENT"
    acked,      \* live_orders: is broker_order_id set?
    pos,        \* live_positions: status, or "ABSENT"
    bstat,      \* broker: status of the order behind broker_order_id
    ghosts,     \* broker: accepted orders whose id the engine never learnt
    runs,       \* handler runs so far
    crashes     \* restarts so far

taskVars   == <<pc, snap, riskOk>>
memVars    == <<hydrated, book, objClosed, kill, paused, trades, booked>>
exitVars   == <<todo, cur, run, dump, runs>>
pollVars   == <<polled, found>>
orderVars  == <<row, acked>>
brokerVars == <<bstat, ghosts>>
vars == <<taskVars, lock, memVars, exitVars, pollVars, orderVars, pos,
          brokerVars, crashes>>

BootPC  == {"idle", "boot", "hydrate", "tally"}
EntryPC == BootPC \cup {"lock", "context", "gate", "insert", "submit", "open",
                        "reject", "position", "book", "done"}
ClosePC == BootPC \cup {"collect", "prices", "next", "exitInsert", "exitSubmit",
                        "exitOpen", "exitReject", "closePosition", "unbook",
                        "halt"}
PollPC  == BootPC \cup {"poll", "polling", "pollWrite"}

RowStatus == OrderStatus \cup {"ABSENT"}
PosStatus == {"ABSENT", "OPEN", "CLOSED"}

PcOK ==
    /\ pc \in [Tasks -> EntryPC \cup ClosePC \cup PollPC]
    /\ \A d \in Deliveries : pc[d] \in EntryPC
    /\ \A c \in Closers : pc[c] \in ClosePC
    /\ \A r \in Pollers : pc[r] \in PollPC
EntryOK ==
    /\ lock \in Deliveries \cup Closers \cup {Nobody}
    /\ snap \in [Tasks -> SUBSET Deliveries]
    /\ riskOk \in [Deliveries -> BOOLEAN]
MemOK ==
    /\ hydrated \in BOOLEAN /\ kill \in BOOLEAN /\ paused \in BOOLEAN
    /\ book \subseteq Deliveries /\ objClosed \subseteq Deliveries
    /\ trades \in Nat /\ booked \in [Deliveries -> Nat]
ExitOK ==
    /\ todo \in [Closers -> SUBSET Deliveries]
    /\ cur \in [Closers -> Deliveries \cup {Nobody}]
    /\ run \in [Closers -> 0..MaxRuns] /\ runs \in 0..MaxRuns
    /\ dump \in [Closers -> [Deliveries -> PosStatus]]
PollOK ==
    /\ polled \in [Pollers -> SUBSET (OrderIds \X OrderStatus)]
    /\ found \in [Pollers -> (OrderIds \X OrderStatus) \cup {Nobody}]
StoreOK ==
    /\ row \in [OrderIds -> RowStatus] /\ acked \in [OrderIds -> BOOLEAN]
    /\ pos \in [Deliveries -> PosStatus]
    /\ bstat \in [OrderIds -> BrokerStatus \cup {"NONE"}]
    /\ ghosts \in [OrderIds -> Nat]
    /\ crashes \in 0..MaxCrashes

TypeOK == PcOK /\ EntryOK /\ MemOK /\ ExitOK /\ PollOK /\ StoreOK

\* What a process start finds in memory, whatever the database holds.
NoDump == [d \in Deliveries |-> "ABSENT"]

Init ==
    /\ pc = [t \in Tasks |-> "idle"]
    /\ lock = Nobody
    /\ snap = [t \in Tasks |-> {}]
    /\ riskOk = [d \in Deliveries |-> FALSE]
    /\ hydrated = Warm /\ kill = FALSE /\ paused = FALSE
    /\ book = {} /\ objClosed = {}
    /\ trades = 0 /\ booked = [d \in Deliveries |-> 0]
    /\ todo = [c \in Closers |-> {}]
    /\ cur = [c \in Closers |-> Nobody]
    /\ run = [c \in Closers |-> 0] /\ runs = 0
    /\ dump = [c \in Closers |-> NoDump]
    /\ polled = [r \in Pollers |-> {}]
    /\ found = [r \in Pollers |-> Nobody]
    /\ row = [o \in OrderIds |-> "ABSENT"]
    /\ acked = [o \in OrderIds |-> FALSE]
    /\ pos = [d \in Deliveries |-> "ABSENT"]
    /\ bstat = [o \in OrderIds |-> "NONE"]
    /\ ghosts = [o \in OrderIds |-> 0]
    /\ crashes = 0

Goto(t, label) == pc' = [pc EXCEPT ![t] = label]

\* A handler starts with `await self.ensure_ready()`.
ReadyLabel(t) == IF t \in Deliveries THEN "lock"
                 ELSE IF t \in Closers THEN "collect" ELSE "poll"
Start(t) == Goto(t, IF hydrated THEN ReadyLabel(t) ELSE "boot")

-----------------------------------------------------------------------------
(* ensure_ready: no lock, three database round trips.                      *)

\* Mutant of EnsureReadyRead: _hydrated is set first, to keep others out.
EnsureReadyReadFlagged(t) ==
    /\ pc[t] = "boot"
    /\ hydrated' = TRUE
    /\ snap' = [snap EXCEPT ![t] = {d \in Deliveries : pos[d] = "OPEN"}]
    /\ Goto(t, "hydrate")
    /\ UNCHANGED <<riskOk, lock, book, objClosed, kill, paused, trades, booked,
                   exitVars, pollVars, orderVars, pos, brokerVars, crashes>>

\* open_positions = await self._position_repo.get_open_positions()
EnsureReadyRead(t) ==
    /\ pc[t] = "boot"
    /\ snap' = [snap EXCEPT ![t] = {d \in Deliveries : pos[d] = "OPEN"}]
    /\ Goto(t, "hydrate")
    /\ UNCHANGED <<riskOk, lock, memVars, exitVars, pollVars, orderVars, pos,
                   brokerVars, crashes>>

\* await self._pm.hydrate(open_positions): replaces the whole book.
EnsureReadyHydrate(t) ==
    /\ pc[t] = "hydrate"
    /\ book' = snap[t]
    /\ objClosed' = {}
    /\ Goto(t, "tally")
    /\ UNCHANGED <<snap, riskOk, lock, hydrated, kill, paused, trades, booked,
                   exitVars, pollVars, orderVars, pos, brokerVars, crashes>>

\* todays = await get_for_date(...): rebuilds the day's tallies.
EnsureReadyTally(t) ==
    /\ pc[t] = "tally"
    /\ LET closed == {d \in Deliveries : pos[d] = "CLOSED"}
       IN  /\ booked' = [d \in Deliveries |-> IF d \in closed THEN 1 ELSE 0]
           /\ trades' = Cardinality(closed) + Cardinality(snap[t])
    /\ hydrated' = TRUE
    /\ snap' = [snap EXCEPT ![t] = {}]
    /\ Goto(t, ReadyLabel(t))
    /\ UNCHANGED <<riskOk, lock, book, objClosed, kill, paused, exitVars,
                   pollVars, orderVars, pos, brokerVars, crashes>>

-----------------------------------------------------------------------------
(* Entry pipeline.                                                         *)

\* SignalEngine delivers a GeneratedSignal to the subscribed handler.
HandleGeneratedSignal(d) ==
    /\ pc[d] = "idle"
    /\ Start(d)
    /\ UNCHANGED <<snap, riskOk, lock, memVars, exitVars, pollVars, orderVars,
                   pos, brokerVars, crashes>>

\* _open_from_signal: async with self._mutation_lock, then the context awaits
\* broker.is_connected().
OpenFromSignal(d) ==
    /\ pc[d] = "lock" /\ lock = Nobody
    /\ lock' = d
    /\ Goto(d, "context")
    /\ UNCHANGED <<snap, riskOk, memVars, exitVars, pollVars, orderVars, pos,
                   brokerVars, crashes>>

\* Mutant of Refuse: an early return that keeps the lock.
RefuseHoldingLock(d) == UNCHANGED lock /\ Goto(d, "done")

\* An outcome with accepted=False ends the handler and frees the lock.
Refuse(d) == lock' = Nobody /\ Goto(d, "done")

\* LiveRiskManager.evaluate on the context built at this moment.  `money`
\* stands for the rules on amounts: position size, exposure, daily loss and
\* drawdown.
RiskAccepts(d, healthy, money) ==
    /\ ~kill /\ ~paused /\ healthy
    /\ \A e \in book : SymbolOf[e] # SymbolOf[d]
    /\ Cardinality(book) < MaxOpen
    /\ trades < MaxTrades
    /\ money

\* _build_risk_context returns; LIVE_EXEC_ENABLED and the synchronous failsafe
\* guards run without giving up the loop: kill switch, market hours, feed age.
BuildRiskContext(d) ==
    /\ pc[d] = "context"
    /\ \E healthy, money, guards \in BOOLEAN :
         IF kill \/ ~guards
         THEN Refuse(d) /\ UNCHANGED riskOk
         ELSE /\ riskOk' = [riskOk EXCEPT ![d] = RiskAccepts(d, healthy, money)]
              /\ Goto(d, "gate")
              /\ UNCHANGED lock
    /\ UNCHANGED <<snap, memVars, exitVars, pollVars, orderVars, pos,
                   brokerVars, crashes>>

\* Mutant of RowsOfSignal: every delivery makes a signal id of its own.
RowsOfDelivery(o) == {q \in OrderIds : row[q] # "ABSENT" /\ q[1] = o[1]}

\* Rows that carry the signal id of order o: an exit order is stored with the
\* signal id of its position, which is the id of the entry order.
RowsOfSignal(o) ==
    {q \in OrderIds : row[q] # "ABSENT" /\ SignalOf[q[1]] = SignalOf[o[1]]}

\* ensure_no_duplicate_for_signal: find_one returns some row of the signal.
NoDuplicateForSignal(d) ==
    \/ RowsOfSignal(EntryOrder(d)) = {}
    \/ \E q \in RowsOfSignal(EntryOrder(d)) : row[q] = "REJECTED"

\* The duplicate read returns; then the risk verdict, the instrument token and
\* the quantity (resolved: token known and quantity at least one).
Gate(d) ==
    /\ pc[d] = "gate"
    /\ \/ /\ NoDuplicateForSignal(d) /\ riskOk[d]
          /\ Goto(d, "insert") /\ UNCHANGED lock
       \/ Refuse(d)   \* duplicate, refused by a rule, or not resolved
    /\ UNCHANGED <<snap, riskOk, memVars, exitVars, pollVars, orderVars, pos,
                   brokerVars, crashes>>

\* The unique index refuses a second document with the same signal and broker.
DuplicateKey(o) == SignalBrokerUnique /\ RowsOfSignal(o) \ {o} # {}

\* Mutant of InsertRow: the order is sent before its row is written.
RowNotInserted(o) == UNCHANGED orderVars

InsertRow(o) == row' = [row EXCEPT ![o] = "PENDING"] /\ UNCHANGED acked

\* insert_idempotent: the idempotency boundary.
InsertIdempotent(d) ==
    /\ pc[d] = "insert"
    /\ IF DuplicateKey(EntryOrder(d))
       THEN Refuse(d) /\ UNCHANGED orderVars
       ELSE InsertRow(EntryOrder(d)) /\ Goto(d, "submit") /\ UNCHANGED lock
    /\ UNCHANGED <<snap, riskOk, memVars, exitVars, pollVars, pos, brokerVars,
                   crashes>>

\* _submit_to_broker and AngelOneExecutionClient._request.  A placeOrder that
\* times out is sent again, up to MaxRetries times, whether or not the broker
\* had accepted it: n attempts were accepted and never acknowledged.
BrokerAcks(o) ==
    \E n \in 0..MaxRetries :
        /\ bstat' = [bstat EXCEPT ![o] = "PENDING"]
        /\ ghosts' = [ghosts EXCEPT ![o] = @ + n]

\* The call raises.  OrderException: the broker refused the order (or took it
\* and returned no id); any other broker exception: session, rate limit, or
\* retries exhausted.
BrokerRaises(o) ==
    \E n \in 0..MaxRetries + 1 :
        /\ ghosts' = [ghosts EXCEPT ![o] = @ + n]
        /\ UNCHANGED bstat

\* Every broker exception is caught around the entry order.
SubmitToBroker(d) ==
    /\ pc[d] = "submit"
    /\ \/ BrokerAcks(EntryOrder(d)) /\ Goto(d, "open")
       \/ BrokerRaises(EntryOrder(d)) /\ Goto(d, "reject")
    /\ UNCHANGED <<snap, riskOk, lock, memVars, exitVars, pollVars, orderVars,
                   pos, crashes>>

\* Mutant of Transition: the broker's id is not written with the status.
TransitionWithoutId(o, to) ==
    /\ IsValidTransition("PENDING", to)
    /\ row' = [row EXCEPT ![o] = to]
    /\ UNCHANGED acked

\* OrderStateMachine.transition on the task's own PENDING object, persisted
\* with upsert_by_order_id; only a broker acceptance carries an id.
Transition(o, to) ==
    /\ IsValidTransition("PENDING", to)
    /\ row' = [row EXCEPT ![o] = to]
    /\ acked' = [acked EXCEPT ![o] = (to = "OPEN")]

\* Mutant of EntryAccepted: the trade is not counted.
EntryAcceptedUncounted(d) ==
    /\ pc[d] = "open"
    /\ Transition(EntryOrder(d), "OPEN")
    /\ lock' = Nobody
    /\ Goto(d, "position")
    /\ UNCHANGED <<snap, riskOk, memVars, exitVars, pollVars, pos, brokerVars,
                   crashes>>

\* Transition to OPEN, _trades_today += 1, release of the lock.
EntryAccepted(d) ==
    /\ pc[d] = "open"
    /\ Transition(EntryOrder(d), "OPEN")
    /\ trades' = trades + 1
    /\ lock' = Nobody
    /\ Goto(d, "position")
    /\ UNCHANGED <<snap, riskOk, hydrated, book, objClosed, kill, paused,
                   booked, exitVars, pollVars, pos, brokerVars, crashes>>

\* Mutant of EntryRejected: outcome.accepted is not tested.
EntryRejectedIgnored(d) ==
    /\ pc[d] = "reject"
    /\ Transition(EntryOrder(d), "REJECTED")
    /\ lock' = Nobody
    /\ Goto(d, "position")
    /\ UNCHANGED <<snap, riskOk, memVars, exitVars, pollVars, pos, brokerVars,
                   crashes>>

EntryRejected(d) ==
    /\ pc[d] = "reject"
    /\ Transition(EntryOrder(d), "REJECTED")
    /\ Refuse(d)
    /\ UNCHANGED <<snap, riskOk, memVars, exitVars, pollVars, pos, brokerVars,
                   crashes>>

\* _create_position_from_filled_order, after the lock was released and the
\* order event broadcast: insert the document, then add it to the book.
InsertPosition(d) ==
    /\ pc[d] = "position"
    /\ pos' = [pos EXCEPT ![d] = "OPEN"]
    /\ Goto(d, "book")
    /\ UNCHANGED <<snap, riskOk, lock, memVars, exitVars, pollVars, orderVars,
                   brokerVars, crashes>>

AddPosition(d) ==
    /\ pc[d] = "book"
    /\ book' = book \cup {d}
    /\ objClosed' = objClosed \ {d}
    /\ Goto(d, "done")
    /\ UNCHANGED <<snap, riskOk, lock, hydrated, kill, paused, trades, booked,
                   exitVars, pollVars, orderVars, pos, brokerVars, crashes>>

-----------------------------------------------------------------------------
(* Exit pipeline.                                                          *)

StartRun(c) ==
    /\ pc[c] = "idle" /\ runs < MaxRuns
    /\ runs' = runs + 1
    /\ run' = [run EXCEPT ![c] = runs + 1]
    /\ Start(c)
    /\ UNCHANGED <<snap, riskOk, lock, hydrated, book, objClosed, paused,
                   trades, booked, todo, cur, dump, pollVars, orderVars, pos,
                   brokerVars, crashes>>

\* _handle_built_candle, or close_all_open from the EOD job or an operator.
HandleBuiltCandle(c) == c \in CandleHandlers /\ StartRun(c) /\ UNCHANGED kill
CloseAllOpen(c) == c \in Sweepers /\ StartRun(c) /\ UNCHANGED kill

\* emergency_stop: engage the kill switch, then close_all_open(RISK_HALT).
EmergencyStop(c) == c \in Sweepers /\ StartRun(c) /\ kill' = TRUE

\* The documents a price update writes: whole positions as the objects stand.
DumpOf(ids) ==
    [d \in Deliveries |->
        IF d \notin ids THEN "ABSENT"
        ELSE IF d \in objClosed THEN "CLOSED" ELSE "OPEN"]

\* LivePositionManager.on_candle: mark every position of the symbol to market;
\* those whose stop is hit, or all of them at the end of the day, exit.
OnCandle(c) ==
    /\ c \in CandleHandlers /\ pc[c] = "collect"
    /\ \E ids \in {{d \in book : SymbolOf[d] = SymbolOf[e]} : e \in Deliveries} :
       \E exits \in SUBSET ids :
          /\ todo' = [todo EXCEPT ![c] = exits]
          /\ dump' = [dump EXCEPT ![c] = DumpOf(ids)]
          /\ Goto(c, IF ids = {} THEN "idle" ELSE "prices")
    /\ UNCHANGED <<snap, riskOk, lock, memVars, cur, run, runs, pollVars,
                   orderVars, pos, brokerVars, crashes>>

\* collect_eod_exits / collect_halt_exits: one decision per position held.
CollectExits(c) ==
    /\ c \in Sweepers /\ pc[c] = "collect"
    /\ todo' = [todo EXCEPT ![c] = book]
    /\ Goto(c, "next")
    /\ UNCHANGED <<snap, riskOk, lock, memVars, cur, run, dump, runs, pollVars,
                   orderVars, pos, brokerVars, crashes>>

\* _persist_price_updates: bulk ReplaceOne of the dumped documents, no lock.
PersistPriceUpdates(c) ==
    /\ pc[c] = "prices"
    /\ pos' = [d \in Deliveries |->
                 IF dump[c][d] = "ABSENT" THEN pos[d] ELSE dump[c][d]]
    /\ dump' = [dump EXCEPT ![c] = NoDump]
    /\ Goto(c, "next")
    /\ UNCHANGED <<snap, riskOk, lock, memVars, todo, cur, run, runs, pollVars,
                   orderVars, brokerVars, crashes>>

\* _close_position: async with self._mutation_lock, then the stock look-up; a
\* missing token returns at once.
CloseBegin(c) ==
    /\ pc[c] = "next" /\ lock = Nobody
    /\ \E d \in todo[c] :
         /\ todo' = [todo EXCEPT ![c] = @ \ {d}]
         /\ \/ /\ lock' = c
               /\ cur' = [cur EXCEPT ![c] = d]
               /\ Goto(c, "exitInsert")
            \/ UNCHANGED <<pc, lock, cur>>
    /\ UNCHANGED <<snap, riskOk, memVars, run, dump, runs, pollVars, orderVars,
                   pos, brokerVars, crashes>>

ExitOrder(c) == <<cur[c], run[c]>>

\* Leave _close_position: normally, or by an exception its caller logs.
LeaveClose(c) ==
    /\ lock' = Nobody
    /\ cur' = [cur EXCEPT ![c] = Nobody]
    /\ Goto(c, "next")

\* place_exit_order: upsert_by_order_id of the PENDING exit row.  The unique
\* index makes it raise DatabaseException, which nothing here catches.
ExitInsert(c) ==
    /\ pc[c] = "exitInsert"
    /\ IF DuplicateKey(ExitOrder(c))
       THEN LeaveClose(c) /\ UNCHANGED orderVars
       ELSE /\ InsertRow(ExitOrder(c))
            /\ Goto(c, "exitSubmit")
            /\ UNCHANGED <<lock, cur>>
    /\ UNCHANGED <<snap, riskOk, memVars, todo, run, dump, runs, pollVars, pos,
                   brokerVars, crashes>>

\* Mutant of ExitSubmit: a broker error is swallowed and the close goes on.
ExitSubmitSwallowed(c) ==
    /\ pc[c] = "exitSubmit"
    /\ \/ BrokerAcks(ExitOrder(c)) /\ Goto(c, "exitOpen")
       \/ BrokerRaises(ExitOrder(c)) /\ Goto(c, "exitReject")
       \/ BrokerRaises(ExitOrder(c)) /\ Goto(c, "closePosition")
    /\ UNCHANGED <<snap, riskOk, lock, memVars, exitVars, pollVars, orderVars,
                   pos, crashes>>

\* Only OrderException is caught around an exit order: any other broker
\* exception leaves the row PENDING and the position as it was.
ExitSubmit(c) ==
    /\ pc[c] = "exitSubmit"
    /\ \/ BrokerAcks(ExitOrder(c)) /\ Goto(c, "exitOpen") /\ UNCHANGED <<lock, cur>>
       \/ BrokerRaises(ExitOrder(c)) /\ Goto(c, "exitReject") /\ UNCHANGED <<lock, cur>>
       \/ BrokerRaises(ExitOrder(c)) /\ LeaveClose(c)
    /\ UNCHANGED <<snap, riskOk, memVars, todo, run, dump, runs, pollVars,
                   orderVars, pos, crashes>>

\* The exit order's transition; then, accepted or not, the position object is
\* marked CLOSED.
ExitTransition(c) ==
    /\ \/ pc[c] = "exitOpen" /\ Transition(ExitOrder(c), "OPEN")
       \/ pc[c] = "exitReject" /\ Transition(ExitOrder(c), "REJECTED")
    /\ objClosed' = objClosed \cup ({cur[c]} \cap book)
    /\ Goto(c, "closePosition")
    /\ UNCHANGED <<snap, riskOk, lock, hydrated, book, kill, paused, trades,
                   booked, exitVars, pollVars, pos, brokerVars, crashes>>

\* upsert_by_position_id of the CLOSED position.
ClosePosition(c) ==
    /\ pc[c] = "closePosition"
    /\ pos' = [pos EXCEPT ![cur[c]] = "CLOSED"]
    /\ Goto(c, "unbook")
    /\ UNCHANGED <<snap, riskOk, lock, memVars, exitVars, pollVars, orderVars,
                   brokerVars, crashes>>

\* remove_position and the realized P&L of the day.
RemovePosition(c) ==
    /\ pc[c] = "unbook"
    /\ book' = book \ {cur[c]}
    /\ objClosed' = objClosed \ {cur[c]}
    /\ booked' = [booked EXCEPT ![cur[c]] = @ + 1]
    /\ LeaveClose(c)
    /\ UNCHANGED <<snap, riskOk, hydrated, kill, paused, trades, todo, run, dump,
                   runs, pollVars, orderVars, pos, brokerVars, crashes>>

\* All decisions handled.  A candle handler then runs _check_post_trade_halts,
\* which may find a limit breached and pause the engine.
FinishRun(c) ==
    /\ pc[c] = "next" /\ todo[c] = {}
    /\ \/ Goto(c, "idle")
       \/ c \in CandleHandlers /\ Goto(c, "halt")
    /\ UNCHANGED <<snap, riskOk, lock, memVars, exitVars, pollVars, orderVars,
                   pos, brokerVars, crashes>>

PauseForHalt(c) ==
    /\ pc[c] = "halt" /\ lock = Nobody
    /\ paused' = TRUE
    /\ Goto(c, "idle")
    /\ UNCHANGED <<snap, riskOk, lock, hydrated, book, objClosed, kill, trades,
                   booked, exitVars, pollVars, orderVars, pos, brokerVars,
                   crashes>>

-----------------------------------------------------------------------------
(* Operator controls.                                                      *)

\* pause() and resume() take the mutation lock.
PauseResume ==
    /\ lock = Nobody
    /\ paused' \in BOOLEAN
    /\ UNCHANGED <<taskVars, lock, hydrated, book, objClosed, kill, trades,
                   booked, exitVars, pollVars, orderVars, pos, brokerVars,
                   crashes>>

\* engage_kill_switch() and disengage_kill_switch() do not.
SetKillSwitch ==
    /\ kill' \in BOOLEAN
    /\ UNCHANGED <<taskVars, lock, hydrated, book, objClosed, paused, trades,
                   booked, exitVars, pollVars, orderVars, pos, brokerVars,
                   crashes>>

-----------------------------------------------------------------------------
(* reconcile_orders.                                                       *)

ReconcileOrders(r) ==
    /\ pc[r] = "idle"
    /\ Start(r)
    /\ UNCHANGED <<snap, riskOk, lock, memVars, exitVars, pollVars, orderVars,
                   pos, brokerVars, crashes>>

\* Mutant of GetNonTerminal: only orders still PENDING are looked up.
GetPendingOnly(r) ==
    /\ pc[r] = "poll"
    /\ polled' = [polled EXCEPT ![r] =
                    {<<o, row[o]>> : o \in {q \in OrderIds :
                        acked[q] /\ row[q] = "PENDING"}}]
    /\ Goto(r, "polling")
    /\ UNCHANGED <<snap, riskOk, lock, memVars, exitVars, found, orderVars,
                   pos, brokerVars, crashes>>

\* get_non_terminal; rows without a broker_order_id are skipped.
GetNonTerminal(r) ==
    /\ pc[r] = "poll"
    /\ polled' = [polled EXCEPT ![r] =
                    {<<o, row[o]>> : o \in {q \in OrderIds :
                        acked[q] /\ row[q] \in OrderStatus \ Terminal}}]
    /\ Goto(r, "polling")
    /\ UNCHANGED <<snap, riskOk, lock, memVars, exitVars, found, orderVars,
                   pos, brokerVars, crashes>>

\* Mutant of ReportedStatus: an unknown status string counts as rejected.
UnknownIsRejected(o) == {bstat[o], "REJECTED"} \cap BrokerStatus

\* broker.get_order_status: an order the adapter cannot find, or whose status
\* string it does not know, is PENDING.
ReportedStatus(o) == {bstat[o], "PENDING"} \cap BrokerStatus

\* The broker answers, or raises, for one copied row.  A target that equals the
\* copy's status or is not reachable from it is skipped.
GetOrderStatus(r) ==
    /\ pc[r] = "polling"
    /\ \E q \in polled[r] :
         /\ polled' = [polled EXCEPT ![r] = @ \ {q}]
         /\ \/ \E s \in ReportedStatus(q[1]) :
                 LET to == BrokerStatusToModel(s) IN
                 /\ to # q[2] /\ IsValidTransition(q[2], to)
                 /\ found' = [found EXCEPT ![r] = <<q[1], to>>]
                 /\ Goto(r, "pollWrite")
            \/ UNCHANGED <<found, pc>>
    /\ UNCHANGED <<snap, riskOk, lock, memVars, exitVars, orderVars, pos,
                   brokerVars, crashes>>

\* transition() on the copy, whose whole document replaces the row.
WriteReconciled(r) ==
    /\ pc[r] = "pollWrite"
    /\ row' = [row EXCEPT ![found[r][1]] = found[r][2]]
    /\ acked' = [acked EXCEPT ![found[r][1]] = TRUE]
    /\ found' = [found EXCEPT ![r] = Nobody]
    /\ Goto(r, "polling")
    /\ UNCHANGED <<snap, riskOk, lock, memVars, exitVars, polled, pos,
                   brokerVars, crashes>>

FinishPoll(r) ==
    /\ pc[r] = "polling" /\ polled[r] = {}
    /\ Goto(r, "idle")
    /\ UNCHANGED <<snap, riskOk, lock, memVars, exitVars, pollVars, orderVars,
                   pos, brokerVars, crashes>>

-----------------------------------------------------------------------------
(* Environment: the broker's order book, database errors, restarts.        *)

\* An accepted order moves towards a terminal status and stays there.
BrokerAdvances(o) ==
    /\ bstat[o] \in {"PENDING", "OPEN"}
    /\ \E s \in {"OPEN"} \cup BrokerTerminal :
          s # bstat[o] /\ bstat' = [bstat EXCEPT ![o] = s]
    /\ UNCHANGED <<taskVars, lock, memVars, exitVars, pollVars, orderVars, pos,
                   ghosts, crashes>>

\* A database call of an entry handler raises: the handler logs and ends.
EntryDbFault(d) ==
    /\ DbFaults
    /\ pc[d] \in {"boot", "tally", "gate", "insert", "open", "reject", "position"}
    /\ lock' = IF lock = d THEN Nobody ELSE lock
    /\ snap' = [snap EXCEPT ![d] = {}]
    /\ Goto(d, "done")
    /\ UNCHANGED <<riskOk, memVars, exitVars, pollVars, orderVars, pos,
                   brokerVars, crashes>>

\* ... of an exit handler: inside _close_position the decision is dropped and
\* the next one tried; before it, the whole run is lost.
ExitDbFault(c) ==
    /\ DbFaults
    /\ \/ /\ pc[c] \in {"exitInsert", "exitOpen", "exitReject", "closePosition"}
          /\ LeaveClose(c)
          /\ UNCHANGED <<snap, todo, dump>>
       \/ /\ pc[c] \in {"boot", "tally", "prices"}
          /\ todo' = [todo EXCEPT ![c] = {}]
          /\ dump' = [dump EXCEPT ![c] = NoDump]
          /\ snap' = [snap EXCEPT ![c] = {}]
          /\ Goto(c, "idle")
          /\ UNCHANGED <<lock, cur>>
    /\ UNCHANGED <<riskOk, memVars, run, runs, pollVars, orderVars, pos,
                   brokerVars, crashes>>

\* ... of a poller: one order is skipped, or the poll ends.
PollDbFault(r) ==
    /\ DbFaults
    /\ \/ pc[r] = "pollWrite" /\ Goto(r, "polling")
       \/ pc[r] \in {"boot", "tally", "poll"} /\ Goto(r, "idle")
    /\ found' = [found EXCEPT ![r] = Nobody]
    /\ snap' = [snap EXCEPT ![r] = {}]
    /\ UNCHANGED <<riskOk, lock, memVars, exitVars, polled, orderVars, pos,
                   brokerVars, crashes>>

\* The process dies and starts again: tasks, locks, the book, the tallies, the
\* pause flag and the kill switch are gone; database and broker are not.
Restart ==
    /\ crashes < MaxCrashes
    /\ crashes' = crashes + 1
    /\ pc' = [t \in Tasks |->
                IF t \in Deliveries /\ pc[t] # "idle" THEN "done" ELSE "idle"]
    /\ lock' = Nobody
    /\ snap' = [t \in Tasks |-> {}]
    /\ riskOk' = [d \in Deliveries |-> FALSE]
    /\ hydrated' = FALSE /\ kill' = FALSE /\ paused' = FALSE
    /\ book' = {} /\ objClosed' = {}
    /\ trades' = 0 /\ booked' = [d \in Deliveries |-> 0]
    /\ todo' = [c \in Closers |-> {}]
    /\ cur' = [c \in Closers |-> Nobody]
    /\ run' = [c \in Closers |-> 0]
    /\ dump' = [c \in Closers |-> NoDump]
    /\ polled' = [r \in Pollers |-> {}]
    /\ found' = [r \in Pollers |-> Nobody]
    /\ UNCHANGED <<runs, orderVars, pos, brokerVars>>

-----------------------------------------------------------------------------
EnsureReady(t) == EnsureReadyRead(t) \/ EnsureReadyHydrate(t) \/ EnsureReadyTally(t)

EntryStep(d) ==
    \/ OpenFromSignal(d) \/ BuildRiskContext(d) \/ Gate(d) \/ InsertIdempotent(d)
    \/ SubmitToBroker(d) \/ EntryAccepted(d) \/ EntryRejected(d)
    \/ InsertPosition(d) \/ AddPosition(d)

CloseStep(c) ==
    \/ OnCandle(c) \/ CollectExits(c) \/ PersistPriceUpdates(c) \/ CloseBegin(c)
    \/ ExitInsert(c) \/ ExitSubmit(c) \/ ExitTransition(c) \/ ClosePosition(c)
    \/ RemovePosition(c) \/ FinishRun(c) \/ PauseForHalt(c)

PollStep(r) ==
    \/ GetNonTerminal(r) \/ GetOrderStatus(r) \/ WriteReconciled(r) \/ FinishPoll(r)

Next ==
    \/ \E t \in Tasks : EnsureReady(t)
    \/ \E d \in Deliveries : HandleGeneratedSignal(d) \/ EntryStep(d) \/ EntryDbFault(d)
    \/ \E c \in Closers : \/ HandleBuiltCandle(c) \/ CloseAllOpen(c)
                          \/ EmergencyStop(c) \/ CloseStep(c) \/ ExitDbFault(c)
    \/ \E r \in Pollers : ReconcileOrders(r) \/ PollStep(r) \/ PollDbFault(r)
    \/ \E o \in OrderIds : BrokerAdvances(o)
    \/ PauseResume \/ SetKillSwitch \/ Restart

Spec == Init /\ [][Next]_vars

-----------------------------------------------------------------------------
(* Properties.                                                             *)

\* Does the broker have an order of this delivery, known or not?
Sent(d) == bstat[EntryOrder(d)] # "NONE" \/ ghosts[EntryOrder(d)] > 0

\* Of all deliveries of one signal, concurrent or repeated after a restart, two
\* have an order at the broker only if one of them is recorded as REJECTED: the
\* key of the signal, the duplicate guard, the lock and the index of live_orders
\* together (execute_signal).  A placement after a rejection is left open: the
\* guard lets it pass and the index refuses its row.
OneDeliveryReachesBroker ==
    \A d, e \in Deliveries :
        d # e /\ SignalOf[d] = SignalOf[e] /\ Sent(d) /\ Sent(e) =>
            "REJECTED" \in {row[EntryOrder(d)], row[EntryOrder(e)]}

\* A row with a broker id is terminal only if the broker's order is, and says
\* the same: pollers that work on copies read earlier never record an outcome
\* the broker does not have (reconcile_orders).
RowTracksBroker ==
    \A o \in OrderIds :
        acked[o] /\ row[o] \in Terminal => row[o] = BrokerStatusToModel(bstat[o])

\* A terminal status is never left, and a recorded broker id never lost, though
\* the engine and several pollers replace whole documents without a common lock
\* (order_state_machine.transition, upsert_by_order_id).
TerminalIsFinal ==
    [][\A o \in OrderIds :
         /\ row[o] \in Terminal => row'[o] = row[o]
         /\ acked[o] => acked'[o]]_vars

\* A position document exists only for an entry order the broker acknowledged
\* and whose acknowledgement is recorded (_create_position_from_filled_order).
PositionHasBrokerId ==
    \A d \in Deliveries : pos[d] # "ABSENT" => acked[EntryOrder(d)]

\* A position is CLOSED only after the broker has answered an exit order for
\* it: never on a decision alone, on an unanswered submission, or because a
\* price update replaced its document (_close_position).
ClosedHasAnsweredExit ==
    \A d \in Deliveries : pos[d] = "CLOSED" =>
        \E k \in 1..MaxRuns : row[<<d, k>>] \in OrderStatus \ {"PENDING"}

\* d, if OPEN in the database, is where candles and sweeps can reach its
\* stop-loss, or its own handler is about to put it there, and nobody is about
\* to take it out.
Watched(d) ==
    hydrated /\ pos[d] = "OPEN" =>
        /\ d \in book \/ pc[d] = "book"
        /\ \A c \in Closers : pc[c] = "unbook" => cur[c] # d

\* A boot that ends after another one did, with a list read before d was OPEN.
LateBoot(d) ==
    hydrated /\ \E t \in Tasks : pc[t] = "hydrate" /\ pc'[t] = "tally" /\ d \notin snap[t]

\* A price update dumped before d was closed.
Reopened(d) == pos[d] = "CLOSED" /\ pos'[d] = "OPEN"

\* Entries, candles, sweeps, failed database calls and a restart with its cold
\* boot, in whatever order, never leave a position OPEN in the database that the
\* book does not have (ensure_ready, add_position, remove_position), but for two
\* steps the code does take: a boot overtaken by another one, which replaces the
\* book, and a price update that reopens what was closed meanwhile.
OpenStaysWatched ==
    [][\A d \in Deliveries :
         Watched(d) => Watched(d)' \/ LateBoot(d) \/ Reopened(d)]_vars

\* "Hard cap on the number of live entries per trading day", until the process
\* restarts and counts anew.
TradeCap ==
    crashes = 0 => Cardinality({d \in Deliveries : acked[EntryOrder(d)]}) <= MaxTrades

\* "prevents duplicate orders under all concurrency conditions": a signal puts
\* at most one order on the broker's book.
NoDuplicateBrokerOrder ==
    \A d \in Deliveries :
        (IF bstat[EntryOrder(d)] = "NONE" THEN 0 ELSE 1) + ghosts[EntryOrder(d)] <= 1

\* "exit / close-all flows are NOT blocked": an exit decision that reaches the
\* engine is recorded and goes on to the broker.
ExitNotBlocked ==
    [][\A c \in Closers :
         pc[c] = "exitInsert" /\ pc'[c] # "exitInsert" => pc'[c] = "exitSubmit"]_vars

-----------------------------------------------------------------------------
(* Refinement.  Whatever the tasks interleave, an order sees the lifecycle  *)
(* of OrderLifecycle: the rows and the broker's statuses are its variables. *)
Lifecycle == INSTANCE OrderLifecycle WITH Orders <- OrderIds

\* The pipeline, with its concurrent deliveries, exits, polls on stale copies,
\* failed writes and restarts, implements the order lifecycle
\* (execute_signal, place_exit_order, reconcile_orders).
ImplementsLifecycle == Lifecycle!Spec

-----------------------------------------------------------------------------
(* Liveness.  The event loop runs every task that can run; asyncio.Lock is  *)
(* first come first served, so a waiting task gets it; the scheduler starts *)
(* reconcile_orders again and again; the broker decides every order it has  *)
(* taken and does not fail every status request.                            *)

Answered(r) == GetOrderStatus(r) /\ pc'[r] = "pollWrite"

Fairness ==
    /\ \A t \in Tasks : WF_vars(EnsureReady(t))
    /\ \A d \in Deliveries : WF_vars(EntryStep(d)) /\ SF_vars(OpenFromSignal(d))
    /\ \A c \in Closers : /\ WF_vars(CloseStep(c))
                          /\ SF_vars(CloseBegin(c)) /\ SF_vars(PauseForHalt(c))
    /\ \A r \in Pollers : /\ WF_vars(ReconcileOrders(r)) /\ WF_vars(PollStep(r))
                          /\ SF_vars(Answered(r))
    /\ \A o \in OrderIds : WF_vars(BrokerAdvances(o))

FairSpec == Spec /\ Fairness

\* A signal handler that waits for the mutation lock ends, with an order or
\* without: no exit, poll or other entry can hold it up for ever.
SignalSettles == \A d \in Deliveries : pc[d] = "lock" ~> pc[d] = "done"

\* An order whose broker id is recorded reaches a terminal status in the
\* database, across restarts (reconcile_orders).
AckedOrderSettles == \A o \in OrderIds : acked[o] ~> row[o] \in Terminal

=============================================================================
