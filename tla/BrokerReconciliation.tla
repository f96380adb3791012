------------------------ MODULE BrokerReconciliation -------------------------
(***************************************************************************)
(* BrokerReconciliationService: one run compares the orders and positions  *)
(* of the database with the broker's, persists what differs, corrects      *)
(* quantities, opens incidents and alerts.  Runs are serial (the service's *)
(* lock); the live execution service, the order sync job and traders at    *)
(* the broker go on meanwhile, and take no notice of that lock.            *)
(*                                                                         *)
(* A run that is given no broker makes one with _resolve_broker.  That one *)
(* has the session where the execution client belongs (client.py:116), so  *)
(* each of its calls raises.  One action is the code between two awaits.   *)
(***************************************************************************)
EXTENDS Incidents

CONSTANTS
    Orders, Positions,
    Bid,              \* broker order id of each order
    Qty,              \* quantities
    Brokers,          \* what callers pass: "given", or None, which becomes "resolved" or, with
                      \* live execution disabled, "off"
    MaxMoves,         \* bound on changes at the broker and in the live execution
    MaxFaults       \* bound on failed calls and restarts

ASSUME ReconciliationAssumption ==
    /\ Brokers \subseteq {"given", "resolved", "off"}
    /\ Qty \subseteq Nat \ {0}
    /\ {MaxMoves, MaxFaults} \subseteq Nat

VARIABLES
    order,      \* live_orders and the broker's status of each order
    position,   \* live_positions and the broker's position book
    old,        \* orders older than the thresholds
    rlock,      \* BrokerReconciliationService._lock: the client that runs
    phase,      \* where the run is
    broker,     \* the broker of the run
    listed,     \* orders the run has listed and not compared yet
    held,       \* open positions the run has listed
    found,      \* discrepancies of the run, in memory
    todo,       \* discrepancies the phase has still to treat
    pcopy,      \* the position document the resolution has read
    rows,       \* broker_discrepancies: the rows of the last run
    run,        \* broker_reconciliation_runs: the status of the last run
    raced,      \* history: a resolution has written a document that had changed since its read
    moves, faults

worldVars == <<order, position, old, moves>>
runVars == <<rlock, phase, broker, listed, held, found, todo, pcopy>>
dbVars == <<rows, run>>
reconVars == <<incidentVars, worldVars, runVars, dbVars, raced, faults>>

\* LiveOrder and OrderStatus; a PENDING order has no broker id.
NonTerminal == {"PENDING", "OPEN"}
OrderStatus == NonTerminal \cup {"FILLED", "CANCELLED", "REJECTED"}
BrokerStatus == {"PENDING", "OPEN", "COMPLETE", "CANCELLED", "REJECTED"}
BrokerTerminal == {"COMPLETE", "CANCELLED", "REJECTED"}
Internal(b) == IF b = "COMPLETE" THEN "FILLED" ELSE b

\* DiscrepancyType: the critical ones and the warnings that get an incident; the others
\* are duplicate_order, price_mismatch and stale_order.  ORPHAN_ORDER and PARTIAL_FILL
\* are produced nowhere.
Critical == {"missing_stop_loss", "orphan_position"}
Warning  == {"rejected_order", "missing_position", "quantity_mismatch", "status_mismatch",
             "missing_order"}
Discrepancy(type, x, val, st) == [type |-> type, x |-> x, val |-> val, st |-> st]
Found(type, x, val) == Discrepancy(type, x, val, "DETECTED")

ReconInit ==
    /\ IncidentsInit
    /\ order = [o \in Orders |-> [st |-> "PENDING", book |-> "PENDING"]]
    /\ \E kept \in SUBSET Positions : \E q \in Qty :
         position = [p \in Positions |->
                        IF p \in kept THEN [st |-> "OPEN", qty |-> q, stop |-> TRUE, book |-> q]
                        ELSE [st |-> "NONE", qty |-> q, stop |-> TRUE, book |-> None]]
    /\ old = {}
    /\ rlock = None
    /\ phase = "idle"
    /\ broker = None
    /\ listed = {}
    /\ held = {}
    /\ found = {}
    /\ todo = {}
    /\ pcopy = None
    /\ rows = {}
    /\ run = None
    /\ raced = FALSE
    /\ moves = 0 /\ faults = 0

Fault == faults < MaxFaults /\ faults' = faults + 1
\* A call goes well, or fails.
Calls(ok) == IF ok THEN UNCHANGED faults ELSE Fault
Answers(ok) == broker = "given" /\ ok

-----------------------------------------------------------------------------
(* The comparisons                                                          *)

\* _reconcile_orders on one listed order, l.st its status when it was listed.
\* A PENDING order is not asked for; an error of the broker counts as missing.
CompareOrder(l, ok) ==
    LET stale == IF l.o \in old THEN {Found("stale_order", l.o, None)} ELSE {}
        said == order[l.o].book
    IN  stale \cup
        (IF l.st = "PENDING" \/ broker = "off" THEN {}
         ELSE IF ~Answers(ok)      THEN {Found("missing_order", l.o, None)}
         ELSE IF said = "REJECTED" THEN {Found("rejected_order", l.o, None)}
         ELSE IF said # "OPEN"     THEN {Found("status_mismatch", l.o, said)}
         ELSE {})

Duplicates(S) ==
    {Found("duplicate_order", Bid[l.o], None) :
        l \in {a \in S : a.st = "OPEN" /\ \E b \in S : b # a /\ b.st = "OPEN" /\ Bid[b.o] = Bid[a.o]}}

\* _reconcile_positions: the positions listed before against the book as it is now.
MissingPositions == {Found("missing_position", h.p, None) : h \in {h \in held : position[h.p].book = None}}
QuantityMismatches ==
    {Found("quantity_mismatch", h.p, position[h.p].book) :
        h \in {h \in held : position[h.p].book \notin {None, h.qty}}}
PriceMismatches(drift) ==
    {Found("price_mismatch", h.p, None) : h \in {h \in held : h.p \in drift /\ position[h.p].book # None}}
OrphanPositions ==
    {Found("orphan_position", p, None) :
        p \in {p \in Positions : position[p].book \notin {None, 0} /\ \A h \in held : h.p # p}}
ComparePositions(drift) ==
    MissingPositions \cup QuantityMismatches \cup PriceMismatches(drift) \cup OrphanPositions

\* _reconcile_stop_losses.
MissingStopLosses ==
    {Found("missing_stop_loss", p, None) :
        p \in {p \in Positions : position[p].st = "OPEN" /\ ~position[p].stop}}

-----------------------------------------------------------------------------
(* The phases of a run                                                      *)

\* run_full_reconciliation takes the lock; when the first write fails the
\* exception leaves the service.
StartRun(t, b) ==
    /\ rlock = None
    /\ \/ /\ rlock' = t /\ broker' = b /\ phase' = "orders" /\ run' = "RUNNING" /\ rows' = {}
          /\ UNCHANGED faults
       \/ Fault /\ UNCHANGED <<rlock, broker, phase, run, rows>>
    /\ UNCHANGED <<incidentVars, worldVars, listed, held, found, todo, pcopy, raced>>

\* Phase 1.  A failed read is logged and lists nothing.
ListOrders ==
    /\ phase = "orders"
    /\ \E ok \in BOOLEAN :
         /\ Calls(ok)
         /\ listed' = IF ok THEN {[o |-> o, st |-> order[o].st] :
                                     o \in {o \in Orders : order[o].st \in NonTerminal}} ELSE {}
    /\ found' = Duplicates(listed')
    /\ phase' = "compare"
    /\ UNCHANGED <<incidentVars, worldVars, rlock, broker, held, todo, pcopy, dbVars, raced>>

ReconcileOrder ==
    /\ phase = "compare" /\ listed # {}
    /\ \E l \in listed, ok \in BOOLEAN :
         /\ Calls(ok)
         /\ ok \/ (broker = "given" /\ l.st # "PENDING")
         /\ found' = found \cup CompareOrder(l, ok)
         /\ listed' = listed \ {l}
    /\ UNCHANGED <<incidentVars, worldVars, rlock, phase, broker, held, todo, pcopy, dbVars, raced>>

\* Phase 2: the open positions of the database, then the broker's book.
ListPositions ==
    /\ phase = "compare" /\ listed = {}
    /\ \E ok \in BOOLEAN :
         /\ Calls(ok)
         /\ held' = IF ok THEN {[p |-> p, qty |-> position[p].qty] :
                                   p \in {p \in Positions : position[p].st = "OPEN"}} ELSE {}
         /\ phase' = IF ok /\ broker # "off" THEN "book" ELSE "stops"
    /\ UNCHANGED <<incidentVars, worldVars, rlock, broker, listed, found, todo, pcopy, dbVars, raced>>

\* A failed call skips the comparison.
ReconcilePositions ==
    /\ phase = "book"
    /\ \E ok \in BOOLEAN, drift \in SUBSET Positions :
         /\ Calls(ok)
         /\ Answers(ok) \/ drift = {}
         /\ found' = IF Answers(ok) THEN found \cup ComparePositions(drift) ELSE found
    /\ held' = {}
    /\ phase' = "stops"
    /\ UNCHANGED <<incidentVars, worldVars, rlock, broker, listed, todo, pcopy, dbVars, raced>>

\* Phase 3 reads the open positions again.
ReconcileStopLosses ==
    /\ phase = "stops"
    /\ \E ok \in BOOLEAN :
         /\ Calls(ok)
         /\ found' = IF ok THEN found \cup MissingStopLosses ELSE found
    /\ held' = {}
    /\ todo' = found'
    /\ phase' = "persist"
    /\ UNCHANGED <<incidentVars, worldVars, rlock, broker, listed, pcopy, dbVars, raced>>

\* Mutant of PersistDiscrepancy: a failed write is logged and the run goes on.
PersistDiscrepancyLogged ==
    /\ phase = "persist" /\ todo # {}
    /\ LET d == CHOOSE d \in todo : TRUE
       IN  \E ok \in BOOLEAN :
             /\ Calls(ok)
             /\ rows' = IF ok THEN rows \cup {d} ELSE rows
             /\ todo' = todo \ {d}
             /\ UNCHANGED phase
    /\ UNCHANGED <<incidentVars, worldVars, rlock, broker, listed, held, found, pcopy, run, raced>>

\* A failed write of a discrepancy fails the run.
PersistDiscrepancy ==
    /\ phase = "persist" /\ todo # {}
    /\ LET d == CHOOSE d \in todo : TRUE
       IN  \E ok \in BOOLEAN :
             /\ Calls(ok)
             /\ rows' = IF ok THEN rows \cup {d} ELSE rows
             /\ todo' = IF ok THEN todo \ {d} ELSE {}
             /\ phase' = IF ok THEN phase ELSE "failed"
    /\ UNCHANGED <<incidentVars, worldVars, rlock, broker, listed, held, found, pcopy, run, raced>>

\* Phase 4.  A status mismatch is never resolved: the coroutine of
\* OrderStateMachine.transition is not awaited, and writing it raises.
BeginResolution ==
    /\ phase = "persist" /\ todo = {}
    /\ phase' = "resolve"
    /\ todo' = IF broker = "off" THEN {} ELSE {d \in found : d.type = "quantity_mismatch"}
    /\ UNCHANGED <<incidentVars, worldVars, rlock, broker, listed, held, found, pcopy, dbVars,
                   raced, faults>>

\* Mutant of ReadPosition: the position is corrected whatever its status is now.
ReadPositionAnyStatus ==
    /\ phase = "resolve" /\ todo # {} /\ pcopy = None
    /\ LET d == CHOOSE d \in todo : TRUE
       IN  \E ok \in BOOLEAN :
             /\ Calls(ok)
             /\ IF ok /\ d.val # 0 /\ position[d.x].st # "NONE"
                THEN /\ pcopy' = [p |-> d.x, st |-> position[d.x].st, qty |-> position[d.x].qty]
                     /\ UNCHANGED todo
                ELSE UNCHANGED pcopy /\ todo' = todo \ {d}
    /\ UNCHANGED <<incidentVars, worldVars, rlock, phase, broker, listed, held, found, dbVars, raced>>

\* _resolve_quantity_mismatch reads the position again and goes on only when
\* it is open and the broker's quantity was positive.
ReadPosition ==
    /\ phase = "resolve" /\ todo # {} /\ pcopy = None
    /\ LET d == CHOOSE d \in todo : TRUE
       IN  \E ok \in BOOLEAN :
             /\ Calls(ok)
             /\ IF ok /\ d.val # 0 /\ position[d.x].st = "OPEN"
                THEN /\ pcopy' = [p |-> d.x, st |-> position[d.x].st, qty |-> position[d.x].qty]
                     /\ UNCHANGED todo
                ELSE UNCHANGED pcopy /\ todo' = todo \ {d}
    /\ UNCHANGED <<incidentVars, worldVars, rlock, phase, broker, listed, held, found, dbVars, raced>>

Corrected(d) == d.val

\* It writes the whole document back, without the mutation lock of the live
\* execution service.
WritePosition ==
    /\ phase = "resolve" /\ pcopy # None
    /\ LET d == CHOOSE d \in todo : TRUE
       IN  \E ok \in BOOLEAN :
             /\ Calls(ok)
             /\ IF ok
                THEN /\ position' = [position EXCEPT ![d.x].st = pcopy.st, ![d.x].qty = Corrected(d)]
                     /\ raced' = (raced \/ position[d.x].st # pcopy.st
                                        \/ position[d.x].qty # pcopy.qty)
                     /\ phase' = "mark"
                     /\ UNCHANGED todo
                ELSE todo' = todo \ {d} /\ UNCHANGED <<position, raced, phase>>
    /\ pcopy' = None
    /\ UNCHANGED <<incidentVars, order, old, moves, rlock, broker, listed, held, found, dbVars>>

\* The discrepancy is resolved in memory, then in its row.
MarkResolved ==
    /\ phase = "mark"
    /\ LET d == CHOOSE d \in todo : TRUE
           e == [d EXCEPT !.st = "AUTO_RESOLVED"]
       IN  \E ok \in BOOLEAN :
             /\ Calls(ok)
             /\ found' = (found \ {d}) \cup {e}
             /\ rows' = IF ok THEN (rows \ {d}) \cup {e} ELSE rows
             /\ todo' = todo \ {d}
    /\ phase' = "resolve"
    /\ UNCHANGED <<incidentVars, worldVars, rlock, broker, listed, held, pcopy, run, raced>>

\* Mutant of Reportable: the critical ones are left to the alerts.
ReportableWarnings(d) == d.st # "AUTO_RESOLVED" /\ d.type \in Warning

\* Phase 5: an incident per type, for those of a class that opens incidents.
Reportable(d) == d.st # "AUTO_RESOLVED" /\ d.type \in Critical \cup Warning

BeginIncidents ==
    /\ phase = "resolve" /\ todo = {}
    /\ phase' = "incidents"
    /\ todo' = {d \in found : Reportable(d)}
    /\ UNCHANGED <<incidentVars, worldVars, rlock, broker, listed, held, found, pcopy, dbVars,
                   raced, faults>>

FindRunIncident ==
    /\ phase = "incidents" /\ todo # {}
    /\ LET d == CHOOSE d \in todo : TRUE
       IN  \E ok \in BOOLEAN :
             /\ Calls(ok)
             /\ CreateFind(rlock, d.type, IF d.type \in Critical THEN "CRITICAL" ELSE "WARNING", ok)
    /\ phase' = "write"
    /\ UNCHANGED <<worldVars, rlock, broker, listed, held, found, todo, pcopy, dbVars, raced>>

WriteRunIncident ==
    /\ phase = "write"
    /\ \E ok \in BOOLEAN : Calls(ok) /\ Upsert(rlock, [sev |-> doc[rlock].sev, st |-> "OPEN"], ok)
    /\ ilock' = None
    /\ Release(rlock)
    /\ todo' = todo \ {CHOOSE d \in todo : TRUE}
    /\ phase' = "incidents"
    /\ UNCHANGED <<worldVars, rlock, broker, listed, held, found, pcopy, dbVars, raced>>

\* Phase 6, whose alerts never raise, and the end of the run.  When the last
\* write fails the exception leaves the service and the run stays RUNNING.
FinishRun ==
    /\ phase = "failed" \/ (phase = "incidents" /\ todo = {})
    /\ \E ok \in BOOLEAN :
         /\ Calls(ok)
         /\ run' = IF ~ok THEN run ELSE IF phase = "failed" THEN "FAILED" ELSE "COMPLETED"
    /\ phase' = "idle"
    /\ rlock' = None
    /\ broker' = None
    /\ found' = {}
    /\ UNCHANGED <<incidentVars, worldVars, listed, held, todo, pcopy, rows, raced>>

-----------------------------------------------------------------------------
(* The rest of the system                                                   *)

Move == moves < MaxMoves /\ moves' = moves + 1
Elsewhere == UNCHANGED <<incidentVars, runVars, dbVars, raced, faults>>

\* The broker changes the status of an order it has.
BrokerSettles(o, b) ==
    /\ Move
    /\ order[o].st = "OPEN" /\ order[o].book = "OPEN" /\ b \in BrokerTerminal
    /\ order' = [order EXCEPT ![o].book = b]
    /\ UNCHANGED <<position, old>> /\ Elsewhere

\* The execution engine's acknowledged order, and the order sync job.
AcknowledgeOrder(o) ==
    /\ order[o].st = "PENDING"
    /\ order' = [order EXCEPT ![o] = [st |-> "OPEN", book |-> "OPEN"]]
    /\ UNCHANGED <<position, old, moves>> /\ Elsewhere

SyncOrder(o) ==
    /\ order[o].st = "OPEN" /\ order[o].book \in BrokerTerminal
    /\ order' = [order EXCEPT ![o].st = Internal(order[o].book)]
    /\ UNCHANGED <<position, old, moves>> /\ Elsewhere

Ages(o) ==
    /\ o \notin old /\ order[o].st \in NonTerminal
    /\ old' = old \cup {o}
    /\ UNCHANGED <<order, position, moves>> /\ Elsewhere

\* A fill, an exit or a manual trade changes the broker's book.
BrokerTrades(p, q) ==
    /\ Move
    /\ q # position[p].book /\ (q = 0 => position[p].book # None)
    /\ position' = [position EXCEPT ![p].book = q]
    /\ UNCHANGED <<order, old>> /\ Elsewhere

\* The live execution service opens a position, with a stop or without a
\* usable one, and closes it when the broker no longer holds it.
OpenPosition(p, stop) ==
    /\ position[p].st = "NONE" /\ position[p].book \in Qty
    /\ position' = [position EXCEPT ![p].st = "OPEN", ![p].qty = position[p].book, ![p].stop = stop]
    /\ UNCHANGED <<order, old, moves>> /\ Elsewhere

ClosePosition(p) ==
    /\ position[p].st = "OPEN" /\ position[p].book = 0
    /\ position' = [position EXCEPT ![p].st = "CLOSED"]
    /\ UNCHANGED <<order, old, moves>> /\ Elsewhere

\* The process restarts: nothing continues a run.
ReconRestart ==
    /\ Fault
    /\ phase # "idle"
    /\ rlock' = None /\ phase' = "idle" /\ broker' = None
    /\ listed' = {} /\ held' = {} /\ found' = {} /\ todo' = {} /\ pcopy' = None
    /\ ilock' = None /\ doc' = [t \in Clients |-> None]
    /\ UNCHANGED <<incidents, spoiled, worldVars, dbVars, raced>>

ReconStep ==
    \/ ListOrders \/ ReconcileOrder \/ ListPositions \/ ReconcilePositions
    \/ ReconcileStopLosses \/ PersistDiscrepancy \/ BeginResolution \/ ReadPosition
    \/ WritePosition \/ MarkResolved \/ BeginIncidents \/ FindRunIncident \/ WriteRunIncident
    \/ FinishRun

ReconNext ==
    \/ \E t \in Clients, b \in Brokers : StartRun(t, b)
    \/ ReconStep
    \/ \E o \in Orders :
         \/ \E b \in BrokerTerminal : BrokerSettles(o, b)
         \/ AcknowledgeOrder(o) \/ SyncOrder(o) \/ Ages(o)
    \/ \E p \in Positions :
         \/ \E q \in Qty \cup {0} : BrokerTrades(p, q)
         \/ \E stop \in BOOLEAN : OpenPosition(p, stop)
         \/ ClosePosition(p)
    \/ ReconRestart

\* The interval job starts runs for ever, and a run under way goes on.  The job
\* passes no broker (reconciliation_jobs.py:40), and so do the end-of-day job and
\* the route: no run with a broker that answers is owed to anyone.
ReconFairness ==
    /\ WF_reconVars(\E t \in Clients, b \in Brokers \ {"given"} : StartRun(t, b))
    /\ WF_reconVars(ReconStep)

ReconSpec == ReconInit /\ [][ReconNext]_reconVars /\ ReconFairness

-----------------------------------------------------------------------------
(* Properties                                                               *)

(* A run is marked COMPLETED only when every discrepancy it found has its   *)
(* row, whichever of its writes failed on the way and whatever the run      *)
(* resolved meanwhile (broker_reconciliation_service.py: _run).             *)
CompletedRunIsStored ==
    [][run' = "COMPLETED" /\ run # "COMPLETED"
         => \A d \in found : \E r \in rows' : r.type = d.type /\ r.x = d.x]_reconVars

(* No run changes or reopens a position that is closed, although it was     *)
(* open when the run compared it, unless the position was closed between    *)
(* the resolution's read and its write (broker_reconciliation_service.py:   *)
(* _resolve_quantity_mismatch holds no lock).                               *)
ClosedStaysClosed ==
    [][\A p \in Positions :
         position[p].st = "CLOSED" /\ ~raced'
             => position'[p].st = "CLOSED" /\ position'[p].qty = position[p].qty]_reconVars

Orphaned(p)    == position[p].st # "OPEN" /\ position[p].book \in Qty
Unprotected(p) == position[p].st = "OPEN" /\ ~position[p].stop

\* Somebody keeps running the reconciliation with a broker that answers.  Tests
\* pass one (test_broker_reconciliation.py:202); the jobs and the route do not.
BrokerIsPassed == []<>(broker = "given")

(* An open position without a usable stop gets a critical incident from the *)
(* scheduled runs, whatever call fails and whenever the process restarts.   *)
(* A position that lasts at the broker without a record gets one if runs    *)
(* are given a broker; the scheduled runs alone never report it, although   *)
(* broker_reconciliation_service.py:4 says that they verify continuously.   *)
DangerIsReported ==
    \A p \in Positions :
        /\ <>[]Unprotected(p) => <>(OpenOf("missing_stop_loss") # {})
        /\ <>[]Orphaned(p) /\ BrokerIsPassed => <>(OpenOf("orphan_position") # {})

=============================================================================
