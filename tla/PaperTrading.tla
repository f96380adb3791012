---------------------------- MODULE PaperTrading ----------------------------
(***************************************************************************)
(* Paper trading behind the portfolio layer: PaperTradingService with its  *)
(* position book, risk rules and account, on the collections               *)
(* paper_positions, paper_trades and paper_accounts of one day.            *)
(*                                                                         *)
(* An approved delivery of PortfolioRisk continues here.  Opening and      *)
(* closing take the mutation lock; marking prices, the account's           *)
(* unrealized P&L, pause, resume and the resets do not.  Prices are left   *)
(* out: whether a candle hits a stop, and the P&L of a close, are choices.  *)
(* The account document exists from an earlier boot.                       *)
(***************************************************************************)
EXTENDS PortfolioRisk, Sequences

CONSTANTS
    Candles,          \* candle callbacks that may run at the same time
    Pids,             \* position ids
    Pnls,             \* P&L of a closed trade
    StartingCapital, CapitalPerTrade, EntryPrice, MaxPaperOpen, MaxPosition, MaxDailyLoss,
    Limits,           \* daily trade caps and loss cooldowns a process may be configured with
    MaxMarks          \* bound on candles

ASSUME PaperAssumption ==
    /\ Candles \cap Tasks = {}
    /\ Pids \subseteq Nat /\ IsFiniteSet(Pids)
    /\ Pnls \subseteq Int
    /\ {StartingCapital, CapitalPerTrade, EntryPrice, MaxPaperOpen, MaxPosition, MaxDailyLoss,
        MaxMarks} \subseteq Nat
    /\ Limits \subseteq [trades : Nat, losses : Nat]
    /\ EntryPrice > 0

VARIABLES
    limits,     \* the settings PAPER_MAX_TRADES_PER_DAY and PAPER_CONSECUTIVE_LOSS_COOLDOWN
    account,    \* paper_accounts: the account document
    positions,  \* paper_positions: the status of each document
    ledger,     \* paper_trades, in the order of insertion
    info,       \* symbol and entry capital of each position opened so far
    book,       \* PaperPositionManager._book: the status of each object
    hydrated,   \* PaperTradingService._hydrated
    mlock,      \* PaperTradingService._mutation_lock
    acopy,      \* the account a task has read
    todo,       \* positions a task still has to close, the current one included
    cur,        \* the position a task is opening or closing
    docs,       \* documents a task is about to write, or has read
    writes,     \* history: number of writes of the account
    abase,      \* history: the number a task has read the account at
    mark,       \* history: ledger length at the last hard reset and daily reset
    cold,       \* history: a position was opened during a losing streak
    marks       \* counter of MaxMarks

acctVars  == <<account, writes>>
paperVars == <<acctVars, positions, ledger, info, book, hydrated, mlock, acopy, todo, cur,
               docs, abase, mark, cold, marks>>
vars == <<limits, portfolioVars, paperVars, pc, call, troubles>>

Agents == Tasks \cup Candles
Status == {"OPEN", "CLOSED"}
Info == [sym : Symbols, cost : Nat]

ASSUME DocumentAssumption == None \notin Candles \cup Status \cup Info

\* PaperAccount without the tallies nothing reads.
FreshAccount == [avail |-> StartingCapital, used |-> 0, realized |-> 0, daily |-> 0,
                 unreal |-> 0, losses |-> 0, paused |-> FALSE]
Trade(p, x) == [pos |-> p, pnl |-> x]

Init ==
    /\ PortfolioInit
    /\ limits \in Limits
    /\ pc = [a \in Agents |-> "idle"]
    /\ troubles = 0
    /\ account = FreshAccount
    /\ positions = [p \in Pids |-> None]
    /\ ledger = <<>>
    /\ info = [p \in Pids |-> None]
    /\ book = [p \in Pids |-> None]
    /\ hydrated = FALSE
    /\ mlock = None
    /\ acopy = [a \in Agents |-> None]
    /\ todo = [a \in Agents |-> {}]
    /\ cur = [a \in Agents |-> None]
    /\ docs = [a \in Agents |-> None]
    /\ writes = 0
    /\ abase = [a \in Agents |-> 0]
    /\ mark = [hard |-> 0, daily |-> 0]
    /\ cold = FALSE
    /\ marks = 0

-----------------------------------------------------------------------------
(* Repositories                                                             *)

ReadAccountRow(a) ==
    /\ acopy' = [acopy EXCEPT ![a] = account]
    /\ abase' = [abase EXCEPT ![a] = writes]

\* PaperAccountRepository.upsert replaces the document.
WriteAccountRow(a, doc) ==
    /\ account' = doc
    /\ writes' = writes + 1
    /\ lost' = IF abase[a] = writes THEN lost ELSE lost \cup {"account"}
    /\ acopy' = [acopy EXCEPT ![a] = None]
    /\ abase' = [abase EXCEPT ![a] = 0]

GetOpenPositions == {p \in Pids : positions[p] = "OPEN"}
CountForDate == Len(ledger)

(* PaperPositionManager                                                     *)
OpenCount == Cardinality({p \in Pids : book[p] # None})
OpenForSymbol(s) == {p \in Pids : book[p] # None /\ info[p].sym = s}
AddPosition(p) == book' = [book EXCEPT ![p] = "OPEN"]
RemovePosition(p) == book' = [book EXCEPT ![p] = None]
HydrateBook(S) == book' = [p \in Pids |-> IF p \in S THEN "OPEN" ELSE None]

(* pnl_engine on the account                                                *)
CostOf(p) == info[p].cost

\* Mutant of ApplyEntry: the entry capital is not reserved.
ApplyEntryUnreserved(acc, cost) == [acc EXCEPT !.avail = @ - cost]

ApplyEntry(acc, cost) == [acc EXCEPT !.avail = @ - cost, !.used = @ + cost]

ApplyRealized(acc, cost, pnl) ==
    [acc EXCEPT !.avail = @ + cost + pnl, !.used = Max({0, @ - cost}),
                !.realized = @ + pnl, !.daily = @ + pnl,
                !.losses = IF pnl > 0 THEN 0 ELSE @ + 1]
RefreshUnrealized(acc, x) == [acc EXCEPT !.unreal = x]

(* PaperRiskManager                                                         *)
DailyLossBreached(acc) == acc.daily + acc.unreal <= -MaxDailyLoss
CoolingDown(acc) == acc.losses >= limits.losses

CheckPaused(acc) == ~acc.paused
CheckDuplicateSymbol(s) == OpenForSymbol(s) = {}
CheckOpenCount == OpenCount < MaxPaperOpen

\* Mutant of CheckDailyTrades: positions still open are not counted.
CheckDailyTradesClosed == CountForDate < limits.trades

CheckDailyTrades == CountForDate + OpenCount < limits.trades
CheckPositionSize == CapitalPerTrade <= MaxPosition
CheckCapital(acc) == CapitalPerTrade <= acc.avail

\* Mutant of CheckConsecutiveLosses: one loss too late.
CheckConsecutiveLossesLate(acc) == acc.losses <= limits.losses

CheckDailyLoss(acc) == ~DailyLossBreached(acc)
CheckConsecutiveLosses(acc) == ~CoolingDown(acc)

EvaluatePaper(acc, s) ==
    /\ CheckPaused(acc)
    /\ CheckDuplicateSymbol(s)
    /\ CheckOpenCount
    /\ CheckDailyTrades
    /\ CheckPositionSize
    /\ CheckCapital(acc)
    /\ CheckDailyLoss(acc)
    /\ CheckConsecutiveLosses(acc)

(* PaperExecutionEngine                                                     *)
SizeQuantity(budget) ==
    IF budget >= EntryPrice THEN Max({1, budget \div EntryPrice}) ELSE 0
SimulateFill(avail) == EntryPrice * SizeQuantity(Min({CapitalPerTrade, avail}))

-----------------------------------------------------------------------------
(* ensure_ready, first thing in both callbacks                              *)

Handler(a) == IF a \in Deliveries THEN "open" ELSE "mark"
Finish(a)  == IF a \in Deliveries THEN "done" ELSE "idle"

EnsureReady(a) ==
    /\ pc[a] = IF a \in Deliveries THEN "approved" ELSE "candle"
    /\ IF hydrated
       THEN Goto(a, Handler(a)) /\ UNCHANGED docs
       ELSE Goto(a, "hydrate") /\ docs' = [docs EXCEPT ![a] = GetOpenPositions]
    /\ UNCHANGED <<portfolioVars, acctVars, positions, ledger, info, book, hydrated, mlock,
                   acopy, todo, cur, abase, mark, cold, marks, call, troubles>>

\* The account or the open positions cannot be read: the call is dropped.
NotReady(a) ==
    /\ pc[a] = IF a \in Deliveries THEN "approved" ELSE "candle"
    /\ Trouble
    /\ Goto(a, Finish(a))
    /\ cur' = [cur EXCEPT ![a] = None]
    /\ UNCHANGED <<portfolioVars, acctVars, positions, ledger, info, book, hydrated, mlock,
                   acopy, todo, docs, abase, mark, cold, marks, call>>

\* The book is replaced by the positions read; "book": it was read too early.
Hydrate(a) ==
    /\ pc[a] = "hydrate"
    /\ HydrateBook(docs[a])
    /\ lost' = IF docs[a] = GetOpenPositions THEN lost ELSE lost \cup {"book"}
    /\ hydrated' = TRUE
    /\ docs' = [docs EXCEPT ![a] = None]
    /\ Goto(a, Handler(a))
    /\ UNCHANGED <<risk, allocs, plock, sig, copy, cap, base, history, acctVars, positions,
                   ledger, info, mlock, acopy, todo, cur, abase, mark, cold, marks, call,
                   troubles>>

-----------------------------------------------------------------------------
(* _open_from_signal                                                        *)

OpenRead(d) ==
    /\ pc[d] = "open" /\ mlock = None
    /\ mlock' = d
    /\ ReadAccountRow(d)
    /\ Goto(d, "gate")
    /\ UNCHANGED <<portfolioVars, acctVars, positions, ledger, info, book, hydrated, todo, cur,
                   docs, mark, cold, marks, call, troubles>>

\* Losses in a row at the end of the ledger since the last reset.
Streak == LET n == Len(ledger)
              runs == {k \in 0..n - mark.daily : \A i \in n - k + 1..n : ledger[i].pnl <= 0}
          IN  Max(runs)

\* The budget: the account's capital, capped by a positive allocation.
EffectiveCapital(acc, allocated) ==
    IF allocated > 0 THEN Min({acc.avail, allocated}) ELSE acc.avail

\* Risk rules, simulated fill and the insertion of the position.
OpenPosition(d) ==
    LET acc == acopy[d]
        cost == SimulateFill(EffectiveCapital(acc, cap[d]))
        accepted == EvaluatePaper(acc, sig[d].sym) /\ cost > 0
    IN  /\ pc[d] = "gate"
        /\ IF accepted
           THEN /\ \E p \in Pids :
                     /\ info[p] = None /\ \A q \in Pids : q < p => info[q] # None
                     /\ info' = [info EXCEPT ![p] = [sym |-> sig[d].sym, cost |-> cost]]
                     /\ positions' = [positions EXCEPT ![p] = "OPEN"]
                     /\ AddPosition(p)
                     /\ cur' = [cur EXCEPT ![d] = p]
                /\ cold' = (cold \/ Streak >= limits.losses)
                /\ Goto(d, "debit")
                /\ UNCHANGED <<mlock, acopy, abase>>
           ELSE /\ Goto(d, "done")
                /\ mlock' = None
                /\ acopy' = [acopy EXCEPT ![d] = None]
                /\ abase' = [abase EXCEPT ![d] = 0]
                /\ UNCHANGED <<info, positions, book, cur, cold>>
        /\ UNCHANGED <<portfolioVars, acctVars, ledger, hydrated, todo, docs, mark, marks,
                       call, troubles>>

DebitAccount(d) ==
    /\ pc[d] = "debit"
    /\ WriteAccountRow(d, ApplyEntry(acopy[d], CostOf(cur[d])))
    /\ mlock' = None
    /\ cur' = [cur EXCEPT ![d] = None]
    /\ Goto(d, "done")
    /\ UNCHANGED <<risk, allocs, plock, sig, copy, cap, base, history, positions, ledger, info,
                   book, hydrated, todo, docs, mark, cold, marks, call, troubles>>

\* A database call of the handler raises; a position already inserted stays.
OpenError(d) ==
    /\ pc[d] \in {"gate", "debit"}
    /\ Trouble
    /\ lost' = IF pc[d] = "debit" THEN lost \cup {"account"} ELSE lost
    /\ mlock' = None
    /\ acopy' = [acopy EXCEPT ![d] = None]
    /\ abase' = [abase EXCEPT ![d] = 0]
    /\ cur' = [cur EXCEPT ![d] = None]
    /\ Goto(d, "done")
    /\ UNCHANGED <<risk, allocs, plock, sig, copy, cap, base, history, acctVars, positions,
                   ledger, info, book, hydrated, todo, docs, mark, cold, marks, call>>

-----------------------------------------------------------------------------
(* _handle_built_candle                                                     *)

HandleCandle(c, s) ==
    /\ pc[c] = "idle" /\ marks < MaxMarks
    /\ marks' = marks + 1
    /\ cur' = [cur EXCEPT ![c] = s]
    /\ Goto(c, "candle")
    /\ UNCHANGED <<portfolioVars, acctVars, positions, ledger, info, book, hydrated, mlock,
                   acopy, todo, docs, abase, mark, cold, call, troubles>>

\* on_candle: every position of the symbol is marked, some are to be closed.
OnCandle(c) ==
    LET S == OpenForSymbol(cur[c])
    IN  /\ pc[c] = "mark"
        /\ cur' = [cur EXCEPT ![c] = None]
        /\ IF S = {}
           THEN Goto(c, "idle") /\ UNCHANGED <<todo, docs>>
           ELSE /\ \E exits \in SUBSET S : todo' = [todo EXCEPT ![c] = exits]
                /\ docs' = [docs EXCEPT ![c] = [p \in S |-> book[p]]]
                /\ Goto(c, "persist")
        /\ UNCHANGED <<portfolioVars, acctVars, positions, ledger, info, book, hydrated, mlock,
                       acopy, abase, mark, cold, marks, call, troubles>>

\* bulk_upsert of whole documents; "closed": one was closed meanwhile.  An
\* error leaves the handler, exits included.
PersistPriceUpdates(c) ==
    /\ pc[c] = "persist"
    /\ \/ LET D == docs[c]
              reopened == {p \in DOMAIN D : D[p] = "OPEN" /\ positions[p] # "OPEN"}
          IN  /\ positions' = [p \in Pids |-> IF p \in DOMAIN D THEN D[p] ELSE positions[p]]
              /\ lost' = IF reopened = {} THEN lost ELSE lost \cup {"closed"}
              /\ Goto(c, "close")
              /\ UNCHANGED <<todo, troubles>>
       \/ /\ Trouble
          /\ todo' = [todo EXCEPT ![c] = {}]
          /\ Goto(c, "idle")
          /\ UNCHANGED <<positions, lost>>
    /\ docs' = [docs EXCEPT ![c] = None]
    /\ UNCHANGED <<risk, allocs, plock, sig, copy, cap, base, history, acctVars, ledger, info,
                   book, hydrated, mlock, acopy, cur, abase, mark, cold, marks, call>>

-----------------------------------------------------------------------------
(* _close_position, for every decision of a candle or of close_all_open     *)

\* All decisions are done: a candle refreshes the account, hard_reset goes on.
AllClosed(a) ==
    /\ pc[a] = "close" /\ todo[a] = {}
    /\ Goto(a, IF a \in Candles THEN "refresh"
               ELSE IF call[a] = "hard_reset" THEN "wipe" ELSE "idle")
    /\ call' = IF a \in Operators /\ call[a] # "hard_reset"
               THEN [call EXCEPT ![a] = None] ELSE call
    /\ UNCHANGED <<portfolioVars, paperVars, troubles>>

\* The object and its document become CLOSED, whatever their status was;
\* "twice": the position had been closed before.
ClosePosition(a) ==
    /\ pc[a] = "close" /\ mlock = None
    /\ \E p \in todo[a] :
         /\ p = Min(todo[a])
         /\ cur' = [cur EXCEPT ![a] = p]
         /\ book' = [book EXCEPT ![p] = IF @ = None THEN None ELSE "CLOSED"]
         /\ positions' = [positions EXCEPT ![p] = "CLOSED"]
         /\ lost' = IF \E i \in DOMAIN ledger : ledger[i].pos = p
                    THEN lost \cup {"twice"} ELSE lost
    /\ mlock' = a
    /\ Goto(a, "ledger")
    /\ UNCHANGED <<risk, allocs, plock, sig, copy, cap, base, history, acctVars, ledger, info,
                   hydrated, acopy, todo, docs, abase, mark, cold, marks, call, troubles>>

\* The ledger row.
InsertTrade(a) ==
    /\ pc[a] = "ledger"
    /\ \E x \in Pnls : ledger' = Append(ledger, Trade(cur[a], x))
    /\ Goto(a, "balance")
    /\ UNCHANGED <<portfolioVars, acctVars, positions, info, book, hydrated, mlock, acopy,
                   todo, cur, docs, abase, mark, cold, marks, call, troubles>>

ReadBalance(a) ==
    /\ pc[a] = "balance"
    /\ ReadAccountRow(a)
    /\ Goto(a, "credit")
    /\ UNCHANGED <<portfolioVars, acctVars, positions, ledger, info, book, hydrated, mlock,
                   todo, cur, docs, mark, cold, marks, call, troubles>>

\* The trade a closing task has just written.
OwnTrade(a) == ledger[Max({i \in DOMAIN ledger : ledger[i].pos = cur[a]})]

\* Account and book; the lock is released, and a breached limit pauses.
CreditAccount(a) ==
    LET acc == ApplyRealized(acopy[a], CostOf(cur[a]), OwnTrade(a).pnl)
    IN  /\ pc[a] = "credit"
        /\ WriteAccountRow(a, acc)
        /\ RemovePosition(cur[a])
        /\ mlock' = None
        /\ todo' = [todo EXCEPT ![a] = @ \ {cur[a]}]
        /\ cur' = [cur EXCEPT ![a] = None]
        /\ Goto(a, IF DailyLossBreached(acc) \/ CoolingDown(acc) THEN "pause" ELSE "close")
        /\ UNCHANGED <<risk, allocs, plock, sig, copy, cap, base, history, positions, ledger,
                       info, hydrated, docs, mark, cold, marks, call, troubles>>

\* A write of the close raises: "ledger", the position is closed without a row,
\* "account", the row is not in the account.  The next decision goes on.
CloseError(a) ==
    /\ pc[a] \in {"ledger", "balance", "credit"}
    /\ Trouble
    /\ lost' = lost \cup {IF pc[a] = "ledger" THEN "ledger" ELSE "account"}
    /\ mlock' = None
    /\ todo' = [todo EXCEPT ![a] = @ \ {cur[a]}]
    /\ cur' = [cur EXCEPT ![a] = None]
    /\ acopy' = [acopy EXCEPT ![a] = None]
    /\ abase' = [abase EXCEPT ![a] = 0]
    /\ Goto(a, "close")
    /\ UNCHANGED <<risk, allocs, plock, sig, copy, cap, base, history, acctVars, positions,
                   ledger, info, book, hydrated, docs, mark, cold, marks, call>>

-----------------------------------------------------------------------------
(* Changes of the account outside the lock                                  *)

Changes == {"pause", "resume", "reset", "refresh"}
WriteOf == [pause |-> "pause_w", resume |-> "resume_w", reset |-> "reset_w",
            refresh |-> "refresh_w"]

ReadForChange(a) ==
    /\ pc[a] \in Changes
    /\ ReadAccountRow(a)
    /\ Goto(a, WriteOf[pc[a]])
    /\ UNCHANGED <<portfolioVars, acctVars, positions, ledger, info, book, hydrated, mlock,
                   todo, cur, docs, mark, cold, marks, call, troubles>>

Pause(acc)  == [acc EXCEPT !.paused = TRUE]
Resume(acc) == [acc EXCEPT !.paused = FALSE]
ResetDailyState(acc) ==
    [acc EXCEPT !.daily = 0, !.unreal = 0, !.losses = 0, !.paused = FALSE]

\* An automatic pause returns to the next decision, everything else ends the call.
WriteChange(a) ==
    /\ \/ /\ pc[a] = "pause_w"
          /\ WriteAccountRow(a, Pause(acopy[a]))
          /\ UNCHANGED mark
       \/ /\ pc[a] = "resume_w"
          /\ WriteAccountRow(a, Resume(acopy[a]))
          /\ UNCHANGED mark
       \/ /\ pc[a] = "reset_w"
          /\ WriteAccountRow(a, ResetDailyState(acopy[a]))
          /\ mark' = [mark EXCEPT !.daily = Len(ledger)]
       \/ /\ pc[a] = "refresh_w"
          /\ \E x \in (IF OpenCount = 0 THEN {0} ELSE Pnls) :
               WriteAccountRow(a, RefreshUnrealized(acopy[a], x))
          /\ UNCHANGED mark
    /\ Goto(a, IF pc[a] = "pause_w" /\ (a \in Candles \/ call[a] # "pause")
               THEN "close" ELSE "idle")
    /\ call' = IF a \in Operators /\ call[a] \in Changes
               THEN [call EXCEPT ![a] = None] ELSE call
    /\ UNCHANGED <<risk, allocs, plock, sig, copy, cap, base, history, positions, ledger, info,
                   book, hydrated, mlock, todo, cur, docs, cold, marks, troubles>>

\* An operator's pause or resume, the daily reset job, the EOD job (close_all)
\* and hard_reset, the last two with the positions they collect.
CallPaper(o, what) ==
    /\ pc[o] = "idle" /\ Trouble
    /\ call' = [call EXCEPT ![o] = what]
    /\ IF what \in Changes
       THEN Goto(o, what) /\ UNCHANGED todo
       ELSE /\ Goto(o, "close")
            /\ todo' = [todo EXCEPT ![o] = {p \in Pids : book[p] # None}]
    /\ UNCHANGED <<portfolioVars, acctVars, positions, ledger, info, book, hydrated, mlock,
                   acopy, cur, docs, abase, mark, cold, marks>>

\* hard_reset after the closes: rows and book are dropped, then the account.
WipePositions(o) ==
    /\ pc[o] = "wipe"
    /\ positions' = [p \in Pids |-> None]
    /\ lost' = IF GetOpenPositions = {} /\ mlock = None THEN lost ELSE lost \cup {"book"}
    /\ HydrateBook({})
    /\ Goto(o, "fresh")
    /\ UNCHANGED <<risk, allocs, plock, sig, copy, cap, base, history, acctVars, ledger, info,
                   hydrated, mlock, acopy, todo, cur, docs, abase, mark, cold, marks, call,
                   troubles>>

HardReset(o) ==
    /\ pc[o] = "fresh"
    /\ account' = FreshAccount
    /\ writes' = writes + 1
    /\ lost' = IF GetOpenPositions = {} /\ mlock = None THEN lost ELSE lost \cup {"account"}
    /\ mark' = [hard |-> Len(ledger), daily |-> Len(ledger)]
    /\ call' = [call EXCEPT ![o] = None]
    /\ Goto(o, "idle")
    /\ UNCHANGED <<risk, allocs, plock, sig, copy, cap, base, history, positions, ledger, info,
                   book, hydrated, mlock, acopy, todo, cur, docs, abase, cold, marks, troubles>>

\* The process is restarted: documents stay, tasks, locks and book are gone.
Restart ==
    /\ Trouble
    /\ lost' = lost \cup {IF pc[a] = "ledger" THEN "ledger" ELSE "account" :
                            a \in {b \in Agents : pc[b] \in {"debit", "ledger", "balance", "credit"}}}
    /\ plock' = None /\ mlock' = None
    /\ pc' = [a \in Agents |-> IF a \in Deliveries /\ pc[a] # "idle" THEN "done" ELSE "idle"]
    /\ call' = [o \in Operators |-> None]
    /\ copy' = [t \in Tasks |-> None]
    /\ base' = [t \in Tasks |-> 0]
    /\ cap' = [d \in Deliveries |-> 0]
    /\ hydrated' = FALSE
    /\ HydrateBook({})
    /\ acopy' = [a \in Agents |-> None]
    /\ abase' = [a \in Agents |-> 0]
    /\ todo' = [a \in Agents |-> {}]
    /\ cur' = [a \in Agents |-> None]
    /\ docs' = [a \in Agents |-> None]
    /\ UNCHANGED <<risk, allocs, sig, history, acctVars, positions, ledger, info, mark, cold, marks>>

Step ==
    \/ PortfolioNext /\ UNCHANGED paperVars
    \/ \E a \in Deliveries \cup Candles : EnsureReady(a) \/ NotReady(a) \/ Hydrate(a)
    \/ \E d \in Deliveries : OpenRead(d) \/ OpenPosition(d) \/ DebitAccount(d) \/ OpenError(d)
    \/ \E c \in Candles :
         (\E s \in Symbols : HandleCandle(c, s)) \/ OnCandle(c) \/ PersistPriceUpdates(c)
    \/ \E a \in Candles \cup Operators :
         \/ AllClosed(a) \/ ClosePosition(a) \/ InsertTrade(a) \/ ReadBalance(a)
         \/ CreditAccount(a) \/ CloseError(a) \/ ReadForChange(a) \/ WriteChange(a)
    \/ \E o \in Operators :
         \/ \E what \in {"pause", "resume", "reset", "close_all", "hard_reset"} : CallPaper(o, what)
         \/ WipePositions(o) \/ HardReset(o)
    \/ Restart

Next == Step /\ UNCHANGED limits

Spec == Init /\ [][Next]_vars

-----------------------------------------------------------------------------

SumAll(f) == MapThenSumSet(LAMBDA x : f[x], DOMAIN f)

(* The account agrees with positions and ledger whenever no opening or      *)
(* closing is under way: used capital is what the open positions cost,      *)
(* realized P&L is the sum of the trades since the last hard reset, and     *)
(* cash adds up.  Excused are the named races and failures of the code:     *)
(* a write of the account from an outdated copy or a failed write after its *)
(* trade or position ("account", "ledger"), a position closed by two        *)
(* decisions ("twice"), dropped from the book by a late hydration or by a   *)
(* hard reset ("book"), or reopened by a late price update ("closed").      *)
AccountMatchesLedger ==
    (mlock = None /\ lost \subseteq {"capital", "halt"}) =>
        /\ account.used = SumAll([p \in GetOpenPositions |-> CostOf(p)])
        /\ account.realized = SumAll([i \in mark.hard + 1..Len(ledger) |-> ledger[i].pnl])
        /\ account.avail + account.used = StartingCapital + account.realized

(* At most limits.trades positions are opened in a day, restarts, resets   *)
(* and concurrent signals included: an open position counts through the     *)
(* book, a closed one through its ledger row.  A late hydration and a       *)
(* missing ledger row are excused; outdated writes of the account are not.  *)
TradesWithinCap ==
    lost \cap {"book", "ledger"} = {} =>
        Cardinality({p \in Pids : info[p] # None}) <= limits.trades

(* No position is opened while the trades since the last reset end in       *)
(* limits.losses losses, although the automatic pause is written after the   *)
(* lock is released and resume clears it.                                   *)
CooldownHolds == lost \cap {"account", "ledger"} = {} => ~cold
=============================================================================
