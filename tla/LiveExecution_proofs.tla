------------------------ MODULE LiveExecution_proofs ------------------------
(***************************************************************************)
(* Proofs about LiveExecution, for every set of tasks and every bound.     *)
(*                                                                         *)
(* The argument is about ownership of order rows.  An action touches at    *)
(* most one order, and the order it touches is its own: Keeps(q) says what *)
(* a step preserves about any other order q, Monotone(q) what it preserves *)
(* even about its own.  From these two the frame lemmas show that a task   *)
(* cannot disturb what the invariant says of the other tasks, and the      *)
(* lemma of each action only has to look at the task itself.               *)
(***************************************************************************)
EXTENDS LiveExecutionInv, FiniteSetTheorems, TLAPS

\* Facts about an order that no step takes back.
Monotone(q) ==
    /\ acked[q] => acked'[q]
    /\ row[q] \in Answer => row'[q] \in Answer
    /\ bstat[q] \in BrokerTerminal => bstat'[q] = bstat[q]

\* What a step of somebody else preserves about an order.
Keeps(q) ==
    /\ Monotone(q)
    /\ Untouched(q) => Untouched(q)'
    /\ Unsent(q) => Unsent(q)'
    /\ Unrecorded(q) => Unrecorded(q)'

-----------------------------------------------------------------------------
(* The constants.                                                          *)

\* The four kinds of task are disjoint.
LEMMA Apart ==
    /\ \A d \in Deliveries : d \in Tasks /\ d \notin Closers /\ d \notin Pollers
    /\ \A c \in Closers : c \in Tasks /\ c \notin Deliveries /\ c \notin Pollers
    /\ \A r \in Pollers : r \in Tasks /\ r \notin Deliveries /\ r \notin Closers
    /\ Nobody \notin Deliveries /\ Nobody \notin Closers
    /\ \A t \in Tasks : t \in Deliveries \/ t \in Closers \/ t \in Pollers
  BY TasksAssumption DEF Tasks

\* The bounds are natural numbers.
LEMMA Bounds == MaxRuns \in Nat /\ MaxCrashes \in Nat /\ MaxRetries \in Nat
  BY BoundAssumption

\* An entry order has number 0, an exit order the number of its run.
LEMMA Orders ==
    /\ \A d \in Deliveries : EntryOrder(d) \in OrderIds /\ EntryOrder(d)[2] = 0
    /\ \A d, e \in Deliveries : EntryOrder(d) = EntryOrder(e) => d = e
    /\ \A d \in Deliveries, k \in 0..MaxRuns : <<d, k>> \in OrderIds
    /\ \A d, e \in Deliveries, k \in 0..MaxRuns :
          <<d, k>> = EntryOrder(e) => k = 0
    /\ \A o \in OrderIds : o[1] \in Deliveries /\ o[2] \in 0..MaxRuns
  BY Bounds DEF EntryOrder, OrderIds

\* Numbers of positions are natural numbers: there are finitely many.
LEMMA Counts == \A S \in SUBSET Deliveries : Cardinality(S) \in Nat
  BY TasksAssumption, FS_Subset, FS_CardinalityType

-----------------------------------------------------------------------------
(* Frames.                                                                 *)

\* A step that writes neither orders nor the broker's book keeps every order.
LEMMA Quiet ==
  ASSUME UNCHANGED <<row, acked, bstat, ghosts>>
  PROVE  /\ \A q \in OrderIds : Keeps(q)
         /\ RowInv => RowInv'
         /\ SignalInv => SignalInv'
  BY DEF Keeps, Monotone, Untouched, Unsent, Unrecorded, RowInv, SignalInv

\* A step of an entry handler disturbs no exit run and no poller.
LEMMA EntryFrame ==
  ASSUME OrderOwnership, NEW d \in Deliveries,
         \A t \in Tasks : t # d => pc'[t] = pc[t],
         UNCHANGED <<exitVars, pollVars>>,
         \A q \in OrderIds : Monotone(q),
         \A q \in OrderIds : q # EntryOrder(d) => Keeps(q)
  PROVE  RunInv' /\ ExitInv' /\ PollInv'
<1> USE DEF OrderOwnership, TypeOK
<1>1. \A c \in Closers : pc'[c] = pc[c]
  BY Apart
<1>2. \A r \in Pollers : pc'[r] = pc[r]
  BY Apart
<1>3. RunInv'
  BY <1>1, Orders, Bounds DEF RunInv, exitVars, Keeps, ExitOK
<1>4. ExitInv'
  BY <1>1, Orders, Bounds DEF ExitInv, ExitOwn, RunInv, ExitOK, exitVars, ExitOrder, Keeps, Monotone,
     BeforeExits, InExit, BootPC
<1>5. PollInv'
  BY <1>2 DEF PollInv, PollOK, pollVars, Monotone
<1> QED
  BY <1>3, <1>4, <1>5

\* A step of an exit run disturbs no entry handler, no poller and no other run.
LEMMA ExitFrame ==
  ASSUME OrderOwnership, NEW c \in Closers, pc[c] # "idle",
         \A t \in Tasks : t # c => pc'[t] = pc[t],
         \A e \in Closers : e # c => todo'[e] = todo[e] /\ cur'[e] = cur[e],
         UNCHANGED <<run, runs, pollVars>>,
         \A q \in OrderIds : Monotone(q),
         \A q \in OrderIds : q[2] # run[c] => Keeps(q)
  PROVE  /\ EntryInv' /\ PollInv'
         /\ \A o \in OrderIds : o[2] > runs => Untouched(o)'
         /\ \A e \in Closers : e # c => ExitOwn(e)'
<1> USE DEF OrderOwnership, TypeOK
<1>1. EntryInv'
  BY Apart, Orders, Bounds DEF EntryInv, RunInv, Keeps, Monotone
<1>2. PollInv'
  BY Apart DEF PollInv, PollOK, pollVars, Monotone
<1>3. \A o \in OrderIds : o[2] > runs => Untouched(o)'
  BY Orders, Bounds DEF RunInv, Keeps, ExitOK
<1>4. ASSUME NEW e \in Closers, e # c
      PROVE  ExitOwn(e)'
  <2>1. pc[e] # "idle" => run[e] # run[c] /\ run[e] \in 0..MaxRuns
    BY <1>4 DEF RunInv, ExitOK
  <2>2. pc[e] # "idle" => \A d \in Deliveries : Keeps(<<d, run[e]>>)
    BY <2>1, Orders
  <2>3. ExitOwn(e) /\ pc'[e] = pc[e]
    BY <1>4, Apart DEF ExitInv
  <2> QED
    BY <1>4, <2>2, <2>3 DEF ExitOwn, ExitOrder, ExitOK, Keeps, Monotone, InExit, BeforeExits, BootPC
<1> QED
  BY <1>1, <1>2, <1>3, <1>4

\* A step of a poller disturbs no entry handler and no exit run.
LEMMA PollFrame ==
  ASSUME OrderOwnership, NEW r \in Pollers,
         \A t \in Tasks : t # r => pc'[t] = pc[t],
         UNCHANGED exitVars,
         \A q \in OrderIds : Keeps(q)
  PROVE  EntryInv' /\ RunInv' /\ ExitInv'
<1> USE DEF OrderOwnership, TypeOK
<1>1. EntryInv'
  BY Apart, Orders DEF EntryInv, Keeps, Monotone
<1>2. RunInv'
  BY Apart DEF RunInv, exitVars, Keeps
<1>3. ExitInv'
  BY Apart, Orders, Bounds DEF ExitInv, ExitOwn, RunInv, ExitOK, exitVars, ExitOrder, Keeps, Monotone,
     BeforeExits, InExit, BootPC
<1> QED
  BY <1>1, <1>2, <1>3

\* An answered exit stays answered.
LEMMA AnsweredStays ==
  ASSUME \A q \in OrderIds : Monotone(q)
  PROVE  \A d \in Deliveries : ExitAnswered(d) => ExitAnswered(d)'
  BY Orders, Bounds DEF ExitAnswered, Monotone

\* Memory and documents: a step that leaves them alone keeps what is known of
\* the positions.
LEMMA PositionFrame ==
  ASSUME OrderOwnership, UNCHANGED <<pos, book, objClosed, snap, exitVars>>,
         \A c \in Closers : pc'[c] = pc[c],
         \A q \in OrderIds : Monotone(q)
  PROVE  PositionInv' /\ ClosedInv'
<1> USE DEF OrderOwnership, TypeOK
<1>1. PositionInv'
  BY Orders DEF PositionInv, ExitInv, ExitOwn, EntryOK, MemOK, ExitOK, exitVars, Monotone, InExit
<1>2. ClosedInv'
  BY Orders, Bounds DEF ClosedInv, ExitAnswered, MemOK, exitVars, Monotone
<1> QED
  BY <1>1, <1>2

-----------------------------------------------------------------------------
(* Entry handlers.                                                         *)

\* The steps that only move the handler, the lock or the risk verdict.
LEMMA EntryControl ==
  ASSUME OrderOwnership, NEW d \in Deliveries,
         \/ HandleGeneratedSignal(d) \/ OpenFromSignal(d) \/ BuildRiskContext(d) \/ Gate(d)
  PROVE  OrderOwnership'
<1> USE DEF OrderOwnership, TypeOK
<1>1. /\ UNCHANGED <<snap, memVars, exitVars, pollVars, orderVars, pos, brokerVars, crashes>>
      /\ lock' \in {lock, d, Nobody}
      /\ riskOk' \in [Deliveries -> BOOLEAN]
      /\ \E l \in {"boot", "lock", "context", "gate", "insert", "done"} :
            pc' = [pc EXCEPT ![d] = l]
      /\ pc[d] \in BeforeInsert
  BY Apart DEF HandleGeneratedSignal, OpenFromSignal, BuildRiskContext, Gate, Start, ReadyLabel,
     Goto, Refuse, EntryOK, BeforeInsert, BootPC, RiskAccepts, MemOK
<1>2. /\ \A q \in OrderIds : Keeps(q)
      /\ RowInv' /\ SignalInv'
  BY <1>1, Quiet DEF orderVars, brokerVars
<1>3. /\ \A t \in Tasks : t # d => pc'[t] = pc[t]
      /\ pc'[d] \in {"boot", "lock", "context", "gate", "insert", "done"}
  BY <1>1, Apart DEF PcOK
<1>4. TypeOK'
  BY <1>1, Apart DEF PcOK, EntryPC, BootPC, EntryOK, MemOK, memVars, ExitOK, exitVars, PollOK,
     pollVars, StoreOK, orderVars, brokerVars
<1>5. EntryInv'
  BY <1>1, <1>2, <1>3, Apart, Orders DEF EntryInv, Keeps, Monotone, BeforeInsert, BootPC
<1>6. RunInv' /\ ExitInv' /\ PollInv'
  BY <1>1, <1>2, <1>3, EntryFrame DEF Keeps
<1>7. PositionInv' /\ ClosedInv'
  BY <1>1, <1>2, <1>3, Apart, PositionFrame DEF Keeps, memVars
<1> QED
  BY <1>2, <1>4, <1>5, <1>6, <1>7

\* A database error ends the handler; its rows stay as they are.
LEMMA EntryFault ==
  ASSUME OrderOwnership, NEW d \in Deliveries, EntryDbFault(d)
  PROVE  OrderOwnership'
<1> USE DEF OrderOwnership, TypeOK
<1>1. /\ UNCHANGED <<riskOk, memVars, exitVars, pollVars, orderVars, pos, brokerVars, crashes>>
      /\ lock' \in {lock, Nobody}
      /\ snap' = [snap EXCEPT ![d] = {}]
      /\ pc' = [pc EXCEPT ![d] = "done"]
  BY DEF EntryDbFault, Goto
<1>2. /\ \A q \in OrderIds : Keeps(q)
      /\ RowInv' /\ SignalInv'
  BY <1>1, Quiet DEF orderVars, brokerVars
<1>3. (\A t \in Tasks : t # d => pc'[t] = pc[t]) /\ pc'[d] = "done"
  BY <1>1, Apart DEF PcOK
<1>4. TypeOK'
  BY <1>1, Apart DEF PcOK, EntryPC, EntryOK, MemOK, memVars, ExitOK, exitVars, PollOK,
     pollVars, StoreOK, orderVars, brokerVars
<1>5. EntryInv'
  BY <1>2, <1>3, Apart, Orders DEF EntryInv, Keeps, Monotone, BeforeInsert, BootPC
<1>6. RunInv' /\ ExitInv' /\ PollInv'
  BY <1>1, <1>2, <1>3, EntryFrame DEF Keeps
<1>7. PositionInv'
  BY <1>1, <1>2, <1>3, Apart, Orders DEF PositionInv, ExitInv, ExitOwn, EntryOK, MemOK, ExitOK, memVars, exitVars,
     Keeps, Monotone, InExit
<1>8. ClosedInv'
  BY <1>1, <1>2, Orders, Bounds DEF ClosedInv, ExitAnswered, MemOK, memVars, exitVars, Keeps, Monotone
<1> QED
  BY <1>2, <1>4, <1>5, <1>6, <1>7, <1>8

-----------------------------------------------------------------------------
(* The five ways a handler moves its own order, entry or exit alike.       *)

\* insert_idempotent, upsert_by_order_id of a new row.
LEMMA Placed ==
  ASSUME StoreOK, RowInv, NEW o \in OrderIds, Untouched(o), InsertRow(o), UNCHANGED brokerVars
  PROVE  /\ Unsent(o)' /\ RowInv'
         /\ \A q \in OrderIds : Monotone(q)
         /\ \A q \in OrderIds : q # o => Keeps(q)
         /\ row' \in [OrderIds -> RowStatus]
<1> USE DEF StoreOK, InsertRow, brokerVars, Untouched, Unsent
<1>1. \A q \in OrderIds : q # o => Keeps(q)
  BY DEF Keeps, Monotone, Unrecorded
<1>2. Unsent(o)' /\ Monotone(o)
  BY DEF Monotone, Answer, OrderStatus
<1>3. RowInv'
  BY DEF RowInv
<1> QED
  BY <1>1, <1>2, <1>3 DEF Keeps, RowStatus, OrderStatus

\* The broker takes the order and returns its id.
LEMMA Taken ==
  ASSUME StoreOK, RowInv, SignalInv, NEW o \in OrderIds, Unsent(o), BrokerAcks(o), UNCHANGED orderVars
  PROVE  /\ Unrecorded(o)' /\ RowInv' /\ SignalInv'
         /\ \A q \in OrderIds : Monotone(q)
         /\ \A q \in OrderIds : q # o => Keeps(q)
         /\ bstat' \in [OrderIds -> BrokerStatus \cup {"NONE"}]
         /\ ghosts' \in [OrderIds -> Nat]
<1>1. PICK n \in 0..MaxRetries : /\ bstat' = [bstat EXCEPT ![o] = "PENDING"]
                                 /\ ghosts' = [ghosts EXCEPT ![o] = @ + n]
  BY DEF BrokerAcks
<1> USE DEF StoreOK, orderVars, Untouched, Unsent, Unrecorded
<1>2. \A q \in OrderIds : q # o => Keeps(q)
  BY <1>1 DEF Keeps, Monotone
<1>3. Unrecorded(o)' /\ Monotone(o)
  BY <1>1 DEF Monotone, BrokerTerminal
<1>4. RowInv'
  BY <1>1 DEF RowInv
<1>5. SignalInv'
  BY DEF SignalInv
<1>6. ghosts' \in [OrderIds -> Nat]
  BY <1>1, Bounds
<1> QED
  BY <1>1, <1>2, <1>3, <1>4, <1>5, <1>6 DEF Keeps, BrokerStatus

\* The broker call raises.
LEMMA Raised ==
  ASSUME StoreOK, RowInv, SignalInv, NEW o \in OrderIds, Unsent(o), BrokerRaises(o), UNCHANGED orderVars
  PROVE  /\ Unsent(o)' /\ RowInv' /\ SignalInv'
         /\ \A q \in OrderIds : Keeps(q)
         /\ bstat' \in [OrderIds -> BrokerStatus \cup {"NONE"}]
         /\ ghosts' \in [OrderIds -> Nat]
<1>1. PICK n \in 0..MaxRetries + 1 : ghosts' = [ghosts EXCEPT ![o] = @ + n] /\ UNCHANGED bstat
  BY DEF BrokerRaises
<1> USE DEF StoreOK, orderVars, Untouched, Unsent, Unrecorded
<1>2. \A q \in OrderIds : Keeps(q)
  BY <1>1 DEF Keeps, Monotone
<1>3. Unsent(o)'
  BY <1>1
<1>4. RowInv'
  BY <1>1 DEF RowInv
<1>5. SignalInv'
  BY DEF SignalInv
<1>6. ghosts' \in [OrderIds -> Nat]
  BY <1>1, Bounds
<1> QED
  BY <1>1, <1>2, <1>3, <1>4, <1>5, <1>6

\* The acceptance is recorded.
LEMMA Acknowledged ==
  ASSUME StoreOK, RowInv, SignalInv, NEW o \in OrderIds, Unrecorded(o), Transition(o, "OPEN"),
         UNCHANGED brokerVars
  PROVE  /\ acked'[o] /\ row'[o] \in Answer /\ RowInv' /\ SignalInv'
         /\ \A q \in OrderIds : Monotone(q)
         /\ \A q \in OrderIds : q # o => Keeps(q)
         /\ row' \in [OrderIds -> RowStatus] /\ acked' \in [OrderIds -> BOOLEAN]
<1>1. row' = [row EXCEPT ![o] = "OPEN"] /\ acked' = [acked EXCEPT ![o] = TRUE]
  BY DEF Transition
<1> USE DEF StoreOK, brokerVars, Untouched, Unsent, Unrecorded
<1>2. \A q \in OrderIds : q # o => Keeps(q)
  BY <1>1 DEF Keeps, Monotone
<1>3. acked'[o] /\ row'[o] \in Answer /\ Monotone(o)
  BY <1>1 DEF Monotone, Answer, OrderStatus
<1>4. RowInv'
  BY <1>1 DEF RowInv
<1>5. SignalInv'
  BY <1>1 DEF SignalInv
<1> QED
  BY <1>1, <1>2, <1>3, <1>4, <1>5 DEF Keeps, RowStatus, OrderStatus

\* The refusal is recorded.
LEMMA Refused ==
  ASSUME StoreOK, RowInv, SignalInv, NEW o \in OrderIds, Unsent(o), Transition(o, "REJECTED"),
         UNCHANGED brokerVars
  PROVE  /\ row'[o] \in Answer /\ RowInv' /\ SignalInv'
         /\ \A q \in OrderIds : Monotone(q)
         /\ \A q \in OrderIds : q # o => Keeps(q)
         /\ row' \in [OrderIds -> RowStatus] /\ acked' \in [OrderIds -> BOOLEAN]
<1>1. row' = [row EXCEPT ![o] = "REJECTED"] /\ acked' = [acked EXCEPT ![o] = FALSE]
  BY DEF Transition
<1> USE DEF StoreOK, brokerVars, Untouched, Unsent, Unrecorded
<1>2. \A q \in OrderIds : q # o => Keeps(q)
  BY <1>1 DEF Keeps, Monotone
<1>3. row'[o] \in Answer /\ Monotone(o)
  BY <1>1 DEF Monotone, Answer, OrderStatus
<1>4. RowInv'
  BY <1>1 DEF RowInv
<1>5. SignalInv'
  BY <1>1 DEF SignalInv
<1> QED
  BY <1>1, <1>2, <1>3, <1>4, <1>5 DEF Keeps, RowStatus, OrderStatus

-----------------------------------------------------------------------------
(* Entry handlers, continued: the steps that move the entry order.         *)

\* The parts that follow once it is known what happened to the order.
LEMMA EntryMove ==
  ASSUME OrderOwnership, NEW d \in Deliveries,
         NEW l \in {"submit", "open", "reject", "position", "done"},
         pc' = [pc EXCEPT ![d] = l], lock' \in {lock, Nobody}, trades' \in Nat,
         UNCHANGED <<snap, riskOk, hydrated, book, objClosed, kill, paused, booked,
                     exitVars, pollVars, pos, crashes>>,
         row' \in [OrderIds -> RowStatus], acked' \in [OrderIds -> BOOLEAN],
         bstat' \in [OrderIds -> BrokerStatus \cup {"NONE"}], ghosts' \in [OrderIds -> Nat],
         \A q \in OrderIds : Monotone(q),
         \A q \in OrderIds : q # EntryOrder(d) => Keeps(q),
         l \in {"submit", "reject"} => Unsent(EntryOrder(d))',
         l = "open" => Unrecorded(EntryOrder(d))',
         l = "position" => acked'[EntryOrder(d)],
         RowInv', SignalInv'
  PROVE  OrderOwnership'
<1> USE DEF OrderOwnership, TypeOK
<1>1. (\A t \in Tasks : t # d => pc'[t] = pc[t]) /\ pc'[d] = l
  BY Apart DEF PcOK
<1>2. TypeOK'
  <2>1. PcOK'
    BY Apart DEF PcOK, EntryPC
  <2>2. EntryOK' /\ MemOK' /\ ExitOK' /\ PollOK' /\ StoreOK'
    BY DEF EntryOK, MemOK, ExitOK, exitVars, PollOK, pollVars, StoreOK
  <2> QED
    BY <2>1, <2>2
<1>3. EntryInv'
  BY <1>1, Apart, Orders DEF EntryInv, Keeps, Monotone, BeforeInsert, BootPC
<1>4. RunInv' /\ ExitInv' /\ PollInv'
  BY <1>1, EntryFrame
<1>5. PositionInv' /\ ClosedInv'
  BY <1>1, Apart, PositionFrame
<1> QED
  BY <1>2, <1>3, <1>4, <1>5

LEMMA EntryInsert ==
  ASSUME OrderOwnership, NEW d \in Deliveries, InsertIdempotent(d)
  PROVE  OrderOwnership'
<1> USE DEF OrderOwnership, TypeOK, InsertIdempotent
<1>1. EntryOrder(d) \in OrderIds /\ Untouched(EntryOrder(d))
  BY Orders DEF EntryInv, BeforeInsert
<1>2. CASE DuplicateKey(EntryOrder(d))
  <2>1. /\ UNCHANGED <<snap, riskOk, memVars, exitVars, pollVars, orderVars, pos, brokerVars, crashes>>
        /\ pc' = [pc EXCEPT ![d] = "done"] /\ lock' = Nobody
    BY <1>2 DEF Refuse, Goto
  <2>2. (\A q \in OrderIds : Keeps(q)) /\ RowInv' /\ SignalInv'
    BY <2>1, Quiet DEF orderVars, brokerVars
  <2> QED
    BY <2>1, <2>2, EntryMove DEF Keeps, memVars, orderVars, brokerVars, StoreOK, MemOK
<1>3. CASE ~DuplicateKey(EntryOrder(d))
  <2>1. /\ UNCHANGED <<lock, snap, riskOk, memVars, exitVars, pollVars, pos, brokerVars, crashes>>
        /\ pc' = [pc EXCEPT ![d] = "submit"] /\ InsertRow(EntryOrder(d))
    BY <1>3 DEF Goto
  <2>2. /\ Unsent(EntryOrder(d))' /\ RowInv'
        /\ \A q \in OrderIds : Monotone(q)
        /\ \A q \in OrderIds : q # EntryOrder(d) => Keeps(q)
        /\ row' \in [OrderIds -> RowStatus]
    BY <1>1, <2>1, Placed
  <2>3. SignalInv'
    BY <1>1, <1>3, <2>1 DEF SignalInv, DuplicateKey, RowsOfSignal, InsertRow, StoreOK
  <2> QED
    BY <2>1, <2>2, <2>3, EntryMove DEF memVars, brokerVars, InsertRow, StoreOK, MemOK
<1> QED
  BY <1>2, <1>3

LEMMA EntrySubmit ==
  ASSUME OrderOwnership, NEW d \in Deliveries, SubmitToBroker(d)
  PROVE  OrderOwnership'
<1> USE DEF OrderOwnership, TypeOK, SubmitToBroker
<1>1. EntryOrder(d) \in OrderIds /\ Unsent(EntryOrder(d))
  BY Orders DEF EntryInv
<1>2. /\ UNCHANGED <<lock, snap, riskOk, memVars, exitVars, pollVars, orderVars, pos, crashes>>
      /\ UNCHANGED <<row, acked, trades, hydrated, book, objClosed, kill, paused, booked>>
      /\ trades' \in Nat /\ row' \in [OrderIds -> RowStatus] /\ acked' \in [OrderIds -> BOOLEAN]
  BY DEF orderVars, memVars, StoreOK, MemOK
<1>3. CASE BrokerAcks(EntryOrder(d)) /\ Goto(d, "open")
  <2>1. /\ Unrecorded(EntryOrder(d))' /\ RowInv' /\ SignalInv'
        /\ \A q \in OrderIds : Monotone(q)
        /\ \A q \in OrderIds : q # EntryOrder(d) => Keeps(q)
        /\ bstat' \in [OrderIds -> BrokerStatus \cup {"NONE"}]
        /\ ghosts' \in [OrderIds -> Nat]
    BY <1>1, <1>2, <1>3, Taken
  <2> QED
    BY <1>2, <1>3, <2>1, EntryMove DEF Goto
<1>4. CASE BrokerRaises(EntryOrder(d)) /\ Goto(d, "reject")
  <2>1. /\ Unsent(EntryOrder(d))' /\ RowInv' /\ SignalInv'
        /\ \A q \in OrderIds : Keeps(q)
        /\ bstat' \in [OrderIds -> BrokerStatus \cup {"NONE"}]
        /\ ghosts' \in [OrderIds -> Nat]
    BY <1>1, <1>2, <1>4, Raised
  <2> QED
    BY <1>2, <1>4, <2>1, EntryMove DEF Goto, Keeps
<1> QED
  BY <1>3, <1>4

LEMMA EntryAnswered ==
  ASSUME OrderOwnership, NEW d \in Deliveries, EntryAccepted(d) \/ EntryRejected(d)
  PROVE  OrderOwnership'
<1> USE DEF OrderOwnership, TypeOK
<1>1. EntryOrder(d) \in OrderIds
  BY Orders
<1>2. CASE EntryAccepted(d)
  <2>1. Unrecorded(EntryOrder(d))
    BY <1>2 DEF EntryAccepted, EntryInv
  <2>2. /\ Transition(EntryOrder(d), "OPEN") /\ UNCHANGED brokerVars
        /\ pc' = [pc EXCEPT ![d] = "position"] /\ lock' = Nobody /\ trades' \in Nat
        /\ UNCHANGED <<snap, riskOk, hydrated, book, objClosed, kill, paused, booked,
                       exitVars, pollVars, pos, crashes>>
    BY <1>2 DEF EntryAccepted, Goto, MemOK
  <2>3. /\ acked'[EntryOrder(d)] /\ RowInv' /\ SignalInv'
        /\ \A q \in OrderIds : Monotone(q)
        /\ \A q \in OrderIds : q # EntryOrder(d) => Keeps(q)
        /\ row' \in [OrderIds -> RowStatus] /\ acked' \in [OrderIds -> BOOLEAN]
    BY <1>1, <2>1, <2>2, Acknowledged
  <2> QED
    BY <2>2, <2>3, EntryMove DEF brokerVars, StoreOK
<1>3. CASE EntryRejected(d)
  <2>1. Unsent(EntryOrder(d))
    BY <1>3 DEF EntryRejected, EntryInv
  <2>2. /\ Transition(EntryOrder(d), "REJECTED") /\ UNCHANGED brokerVars
        /\ pc' = [pc EXCEPT ![d] = "done"] /\ lock' = Nobody /\ trades' \in Nat
        /\ UNCHANGED <<snap, riskOk, hydrated, book, objClosed, kill, paused, booked,
                       exitVars, pollVars, pos, crashes>>
    BY <1>3 DEF EntryRejected, Refuse, Goto, MemOK, memVars
  <2>3. /\ RowInv' /\ SignalInv'
        /\ \A q \in OrderIds : Monotone(q)
        /\ \A q \in OrderIds : q # EntryOrder(d) => Keeps(q)
        /\ row' \in [OrderIds -> RowStatus] /\ acked' \in [OrderIds -> BOOLEAN]
    BY <1>1, <2>1, <2>2, Refused
  <2> QED
    BY <2>2, <2>3, EntryMove DEF brokerVars, StoreOK
<1> QED
  BY <1>2, <1>3

\* The position document and the book entry of a recorded order.
LEMMA EntryPosition ==
  ASSUME OrderOwnership, NEW d \in Deliveries, InsertPosition(d) \/ AddPosition(d)
  PROVE  OrderOwnership'
<1> USE DEF OrderOwnership, TypeOK
<1>1. /\ UNCHANGED <<lock, snap, riskOk, hydrated, kill, paused, trades, booked, exitVars, pollVars,
                     orderVars, brokerVars, crashes>>
      /\ \E l \in {"book", "done"} : pc' = [pc EXCEPT ![d] = l]
      /\ pc[d] \in {"position", "book"}
      /\ pos' \in {pos, [pos EXCEPT ![d] = "OPEN"]}
      /\ book' \in {book, book \cup {d}} /\ objClosed' \in {objClosed, objClosed \ {d}}
  BY DEF InsertPosition, AddPosition, Goto, memVars
<1>2. (\A q \in OrderIds : Keeps(q)) /\ RowInv' /\ SignalInv'
  BY <1>1, Quiet DEF orderVars, brokerVars
<1>3. (\A t \in Tasks : t # d => pc'[t] = pc[t]) /\ pc'[d] \in {"book", "done"}
  BY <1>1, Apart DEF PcOK
<1>4. acked[EntryOrder(d)]
  BY <1>1 DEF EntryInv
<1>5. TypeOK'
  <2>1. PcOK'
    BY <1>1, Apart DEF PcOK, EntryPC
  <2>2. StoreOK'
    BY <1>1 DEF StoreOK, PosStatus, orderVars, brokerVars
  <2> QED
    BY <1>1, <2>1, <2>2 DEF EntryOK, MemOK, ExitOK, exitVars, PollOK, pollVars
<1>6. EntryInv'
  BY <1>2, <1>3, <1>4, Apart, Orders DEF EntryInv, Keeps, Monotone, BeforeInsert, BootPC
<1>7. RunInv' /\ ExitInv' /\ PollInv'
  BY <1>1, <1>2, <1>3, EntryFrame DEF Keeps
<1>8. PositionInv'
  BY <1>1, <1>2, <1>3, <1>4, Apart, Orders DEF PositionInv, ExitInv, ExitOwn, EntryOK, MemOK, ExitOK, StoreOK,
     exitVars, Keeps, Monotone, InExit
<1>9. ClosedInv'
  <2>1. ASSUME NEW e \in Deliveries, ExitAnswered(e) PROVE ExitAnswered(e)'
    BY <1>2, <2>1, AnsweredStays DEF Keeps
  <2>2. \A e \in Deliveries : pos'[e] = "CLOSED" => pos[e] = "CLOSED"
    BY <1>1 DEF StoreOK
  <2>3. objClosed' \subseteq objClosed /\ objClosed \subseteq Deliveries /\ dump' = dump
    BY <1>1 DEF MemOK, exitVars
  <2> QED
    BY <2>1, <2>2, <2>3 DEF ClosedInv
<1> QED
  BY <1>2, <1>5, <1>6, <1>7, <1>8, <1>9

-----------------------------------------------------------------------------
(* Exit runs.                                                              *)

\* The parts that follow once it is known what happened to the run's own rows,
\* to the positions and to the documents.
LEMMA ExitMove ==
  ASSUME OrderOwnership, NEW c \in Closers, pc[c] # "idle",
         NEW l \in ClosePC, pc' = [pc EXCEPT ![c] = l],
         lock' \in {lock, c, Nobody},
         NEW T \in SUBSET Deliveries, todo' = [todo EXCEPT ![c] = T],
         NEW x \in Deliveries \cup {Nobody}, cur' = [cur EXCEPT ![c] = x],
         UNCHANGED <<snap, riskOk, run, runs, pollVars, crashes>>,
         MemOK', StoreOK', dump' \in [Closers -> [Deliveries -> PosStatus]],
         \A q \in OrderIds : Monotone(q),
         \A q \in OrderIds : q[2] # run[c] => Keeps(q),
         RowInv', SignalInv', ExitOwn(c)', PositionInv', ClosedInv'
  PROVE  OrderOwnership'
<1> USE DEF OrderOwnership, TypeOK
<1>1. \A t \in Tasks : t # c => pc'[t] = pc[t]
  BY Apart DEF PcOK
<1>2. \A e \in Closers : e # c => todo'[e] = todo[e] /\ cur'[e] = cur[e]
  BY DEF ExitOK
<1>3. /\ EntryInv' /\ PollInv'
      /\ \A o \in OrderIds : o[2] > runs => Untouched(o)'
      /\ \A e \in Closers : e # c => ExitOwn(e)'
  BY <1>1, <1>2, ExitFrame
<1>4. RunInv'
  BY <1>1, <1>3, Apart DEF RunInv
<1>5. ExitInv'
  BY <1>3 DEF ExitInv
<1>6. PcOK'
  BY Apart DEF PcOK
<1>7. EntryOK' /\ ExitOK' /\ PollOK'
  BY DEF EntryOK, ExitOK, PollOK, pollVars
<1> QED
  BY <1>3, <1>4, <1>5, <1>6, <1>7

\* A handler run starts under a number no run had before.
LEMMA ExitStart ==
  ASSUME OrderOwnership, NEW c \in Closers,
         HandleBuiltCandle(c) \/ CloseAllOpen(c) \/ EmergencyStop(c)
  PROVE  OrderOwnership'
<1> USE DEF OrderOwnership, TypeOK
<1>1. /\ pc[c] = "idle" /\ runs < MaxRuns /\ runs' = runs + 1
      /\ run' = [run EXCEPT ![c] = runs + 1]
      /\ \E l \in {"boot", "collect"} : pc' = [pc EXCEPT ![c] = l]
      /\ UNCHANGED <<snap, riskOk, lock, hydrated, book, objClosed, paused, trades, booked, todo,
                     cur, dump, pollVars, orderVars, pos, brokerVars, crashes>>
      /\ kill' \in {kill, TRUE}
  BY Apart DEF HandleBuiltCandle, CloseAllOpen, EmergencyStop, StartRun, Start, ReadyLabel, Goto
<1>2. (\A q \in OrderIds : Keeps(q)) /\ RowInv' /\ SignalInv'
  BY <1>1, Quiet DEF orderVars, brokerVars
<1>3. (\A t \in Tasks : t # c => pc'[t] = pc[t]) /\ pc'[c] \in {"boot", "collect"}
  BY <1>1, Apart DEF PcOK
<1>4. (\A e \in Closers : e # c => run'[e] = run[e]) /\ run'[c] = runs + 1
  BY <1>1 DEF ExitOK
<1>5. TypeOK'
  <2>1. PcOK'
    BY <1>1, Apart DEF PcOK, ClosePC, BootPC
  <2>2. ExitOK'
    BY <1>1, Bounds DEF ExitOK
  <2> QED
    BY <1>1, <2>1, <2>2 DEF EntryOK, MemOK, PollOK, pollVars, StoreOK, orderVars, brokerVars
<1>6. EntryInv' /\ PollInv'
  BY <1>1, <1>2, <1>3, Apart, Orders DEF EntryInv, PollInv, PollOK, pollVars, Keeps, Monotone
<1>7. RunInv'
  <2>1. \A o \in OrderIds : o[2] > runs' => Untouched(o)'
    BY <1>1, <1>2, Orders, Bounds DEF RunInv, Keeps, ExitOK
  <2>2. \A e \in Closers : pc'[e] # "idle" => run'[e] \in 1..runs'
    BY <1>1, <1>3, <1>4, Apart, Bounds DEF RunInv, ExitOK
  <2>3. \A e, f \in Closers : e # f /\ pc'[e] # "idle" /\ pc'[f] # "idle" => run'[e] # run'[f]
    BY <1>1, <1>3, <1>4, Apart, Bounds DEF RunInv, ExitOK
  <2> QED
    BY <2>1, <2>2, <2>3 DEF RunInv
<1>8. ExitInv'
  <2>1. \A d \in Deliveries : Untouched(<<d, runs>>)'
    BY <1>1, <1>2, Orders, Bounds DEF RunInv, Keeps, ExitOK, Untouched
  <2>2. ExitOwn(c)'
    BY <1>1, <1>3, <1>4, <2>1 DEF ExitInv, ExitOwn, InExit
  <2>3. ASSUME NEW e \in Closers, e # c  PROVE ExitOwn(e)'
    BY <2>3, <1>1, <1>2, <1>3, <1>4, Apart, Orders DEF ExitInv, ExitOwn, ExitOrder, ExitOK, RunInv, Keeps,
       Monotone, InExit, BeforeExits, BootPC
  <2> QED
    BY <2>2, <2>3 DEF ExitInv
<1>9. PositionInv'
  BY <1>1, <1>2, <1>3, Apart, Orders DEF PositionInv, ExitInv, ExitOwn, EntryOK, MemOK, ExitOK, Keeps, Monotone, InExit
<1>10. ClosedInv'
  BY <1>1, <1>2, Orders, Bounds DEF ClosedInv, ExitAnswered, MemOK, Keeps, Monotone
<1> QED
  BY <1>2, <1>5, <1>6, <1>7, <1>8, <1>9, <1>10

\* Collecting decisions from the book, writing prices, taking the lock.
LEMMA ExitCollect ==
  ASSUME OrderOwnership, NEW c \in Closers, OnCandle(c) \/ CollectExits(c)
  PROVE  OrderOwnership'
<1> USE DEF OrderOwnership, TypeOK
<1>1. PICK T \in SUBSET Deliveries, D \in [Deliveries -> PosStatus], l \in {"idle", "prices", "next"} :
        /\ pc[c] = "collect" /\ pc' = [pc EXCEPT ![c] = l]
        /\ T \subseteq book /\ todo' = [todo EXCEPT ![c] = T]
        /\ l = "idle" => T = {}
        /\ dump' = [dump EXCEPT ![c] = D]
        /\ \A d \in Deliveries : D[d] # "ABSENT" => d \in book \/ dump[c][d] = D[d]
        /\ \A d \in Deliveries : D[d] = "CLOSED" => d \in objClosed \/ dump[c][d] = D[d]
        /\ UNCHANGED <<snap, riskOk, lock, memVars, cur, run, runs, pollVars, orderVars, pos,
                       brokerVars, crashes>>
  <2>1. CASE OnCandle(c)
    <3>1. PICK ids \in {{d \in book : SymbolOf[d] = SymbolOf[e]} : e \in Deliveries} :
          \E exits \in SUBSET ids :
            /\ todo' = [todo EXCEPT ![c] = exits]
            /\ dump' = [dump EXCEPT ![c] = DumpOf(ids)]
            /\ Goto(c, IF ids = {} THEN "idle" ELSE "prices")
      BY <2>1, Zenon DEF OnCandle
    <3>2. PICK exits \in SUBSET ids :
            /\ todo' = [todo EXCEPT ![c] = exits]
            /\ dump' = [dump EXCEPT ![c] = DumpOf(ids)]
            /\ Goto(c, IF ids = {} THEN "idle" ELSE "prices")
      BY <3>1
    <3>3. ids \subseteq book /\ book \subseteq Deliveries
      BY <3>1 DEF MemOK
    <3>4. DumpOf(ids) \in [Deliveries -> PosStatus]
      BY DEF DumpOf, PosStatus
    <3>5. \A d \in Deliveries : /\ DumpOf(ids)[d] # "ABSENT" => d \in book
                                /\ DumpOf(ids)[d] = "CLOSED" => d \in objClosed
      BY <3>3 DEF DumpOf
    <3>6. \E l \in {"idle", "prices"} : pc' = [pc EXCEPT ![c] = l] /\ (l = "idle" => exits = {})
      BY <3>2 DEF Goto
    <3> QED
      BY <2>1, <3>2, <3>3, <3>4, <3>5, <3>6 DEF OnCandle
  <2>2. CASE CollectExits(c)
    <3>1. /\ dump' = [dump EXCEPT ![c] = dump[c]] /\ dump[c] \in [Deliveries -> PosStatus]
          /\ book \in SUBSET Deliveries
      BY <2>2 DEF CollectExits, ExitOK, MemOK
    <3> QED
      BY <2>2, <3>1 DEF CollectExits, Goto
  <2> QED
    BY <2>1, <2>2
<1>2. (\A q \in OrderIds : Keeps(q)) /\ RowInv' /\ SignalInv'
  BY <1>1, Quiet DEF orderVars, brokerVars
<1>3. /\ pc'[c] = l /\ todo'[c] = T /\ dump'[c] = D
      /\ \A e \in Closers : e # c => todo'[e] = todo[e] /\ dump'[e] = dump[e] /\ pc'[e] = pc[e]
  BY <1>1, Apart DEF PcOK, ExitOK
<1>4. ExitOwn(c)'
  BY <1>1, <1>2, <1>3, Orders DEF ExitInv, ExitOwn, ExitOK, RunInv, InExit, BeforeExits, BootPC, Keeps
<1>5. PositionInv'
  BY <1>1, <1>2, <1>3, Orders DEF PositionInv, ExitInv, ExitOwn, EntryOK, MemOK, ExitOK, memVars, Keeps,
     Monotone, InExit
<1>6. ClosedInv'
  BY <1>1, <1>2, <1>3, AnsweredStays DEF ClosedInv, MemOK, ExitOK, memVars, Keeps
<1>7. MemOK' /\ StoreOK' /\ dump' \in [Closers -> [Deliveries -> PosStatus]] /\ cur' = [cur EXCEPT ![c] = cur[c]]
      /\ cur[c] \in Deliveries \cup {Nobody} /\ l \in ClosePC
  BY <1>1 DEF MemOK, memVars, StoreOK, orderVars, brokerVars, ExitOK, ClosePC, BootPC
<1> QED
  BY <1>1, <1>2, <1>4, <1>5, <1>6, <1>7, ExitMove DEF Keeps

LEMMA ExitPrices ==
  ASSUME OrderOwnership, NEW c \in Closers, PersistPriceUpdates(c)
  PROVE  OrderOwnership'
<1> USE DEF OrderOwnership, TypeOK, PersistPriceUpdates
<1>1. /\ pc[c] = "prices" /\ pc' = [pc EXCEPT ![c] = "next"]
      /\ UNCHANGED <<snap, riskOk, lock, memVars, todo, cur, run, runs, pollVars, orderVars,
                     brokerVars, crashes>>
      /\ todo' = [todo EXCEPT ![c] = todo[c]] /\ cur' = [cur EXCEPT ![c] = cur[c]]
      /\ todo[c] \in SUBSET Deliveries /\ cur[c] \in Deliveries \cup {Nobody}
  BY DEF Goto, ExitOK
<1>2. (\A q \in OrderIds : Keeps(q)) /\ RowInv' /\ SignalInv'
  BY <1>1, Quiet DEF orderVars, brokerVars
<1>3. pc'[c] = "next" /\ \A e \in Closers : e # c => pc'[e] = pc[e]
  BY <1>1, Apart DEF PcOK
<1>4. /\ dump' \in [Closers -> [Deliveries -> PosStatus]] /\ pos' \in [Deliveries -> PosStatus]
      /\ \A d \in Deliveries : pos'[d] \in {pos[d], dump[c][d]} /\ dump'[c][d] = "ABSENT"
      /\ \A d \in Deliveries : pos'[d] = "ABSENT" => pos[d] = "ABSENT"
      /\ \A e \in Closers : e # c => dump'[e] = dump[e]
  BY DEF ExitOK, StoreOK, NoDump, PosStatus
<1>5. ExitOwn(c)'
  BY <1>1, <1>2, <1>3, Orders DEF ExitInv, ExitOwn, ExitOK, RunInv, InExit, BeforeExits, BootPC, Keeps
<1>6. PositionInv'
  BY <1>1, <1>2, <1>3, <1>4, Orders DEF PositionInv, ExitInv, ExitOwn, EntryOK, MemOK, ExitOK, memVars,
     Keeps, Monotone, InExit
<1>7. ClosedInv'
  BY <1>1, <1>2, <1>4, AnsweredStays DEF ClosedInv, MemOK, memVars, Keeps
<1>8. MemOK' /\ StoreOK' /\ "next" \in ClosePC
  BY <1>1, <1>4 DEF MemOK, memVars, StoreOK, orderVars, brokerVars, ClosePC
<1> QED
  BY <1>1, <1>2, <1>4, <1>5, <1>6, <1>7, <1>8, ExitMove DEF Keeps

LEMMA ExitBegin ==
  ASSUME OrderOwnership, NEW c \in Closers, CloseBegin(c)
  PROVE  OrderOwnership'
<1> USE DEF OrderOwnership, TypeOK
<1>1. PICK d \in todo[c], x \in Deliveries \cup {Nobody}, l \in {"next", "exitInsert"} :
        /\ pc[c] = "next" /\ pc' = [pc EXCEPT ![c] = l]
        /\ l = "exitInsert" => x = d
        /\ todo' = [todo EXCEPT ![c] = todo[c] \ {d}]
        /\ cur' = [cur EXCEPT ![c] = x]
        /\ lock' \in {lock, c}
  <2>1. PICK d \in todo[c] :
          /\ todo' = [todo EXCEPT ![c] = @ \ {d}]
          /\ \/ lock' = c /\ cur' = [cur EXCEPT ![c] = d] /\ Goto(c, "exitInsert")
             \/ UNCHANGED <<pc, lock, cur>>
    BY DEF CloseBegin
  <2>2. d \in Deliveries
    BY DEF ExitOK
  <2>3. CASE lock' = c /\ cur' = [cur EXCEPT ![c] = d] /\ Goto(c, "exitInsert")
    BY <2>1, <2>2, <2>3 DEF CloseBegin, Goto
  <2>4. CASE UNCHANGED <<pc, lock, cur>>
    <3>1. pc' = [pc EXCEPT ![c] = "next"] /\ cur' = [cur EXCEPT ![c] = cur[c]]
      BY <2>4, Apart DEF CloseBegin, PcOK, ExitOK
    <3> QED
      BY <2>1, <2>4, <3>1 DEF CloseBegin, ExitOK
  <2> QED
    BY <2>1, <2>3, <2>4
<1>2. UNCHANGED <<snap, riskOk, memVars, run, dump, runs, pollVars, orderVars, pos, brokerVars, crashes>>
  BY DEF CloseBegin
<1>3. (\A q \in OrderIds : Keeps(q)) /\ RowInv' /\ SignalInv'
  BY <1>2, Quiet DEF orderVars, brokerVars
<1>4. /\ pc'[c] = l /\ cur'[c] = x /\ todo'[c] = todo[c] \ {d}
      /\ \A e \in Closers : e # c => pc'[e] = pc[e] /\ cur'[e] = cur[e] /\ todo'[e] = todo[e]
      /\ d \in Deliveries
  BY <1>1, Apart DEF PcOK, ExitOK
<1>5. \A e \in todo[c] : Untouched(<<e, run[c]>>)'
  BY <1>1, <1>2, <1>3, Orders DEF ExitInv, ExitOwn, ExitOK, Keeps
<1>6. ExitOwn(c)'
  BY <1>1, <1>2, <1>4, <1>5 DEF ExitOwn, ExitOrder, ExitOK, InExit, BeforeExits, BootPC
<1>7. PositionInv'
  <2>1. UNCHANGED <<acked, pos, book, snap, dump>>
    BY <1>2 DEF orderVars, memVars
  <2>2. /\ \A e \in Deliveries : pos'[e] # "ABSENT" => acked'[EntryOrder(e)]
        /\ \A e \in book' : acked'[EntryOrder(e)]
        /\ \A t \in Tasks : \A e \in snap'[t] : acked'[EntryOrder(e)]
    BY <2>1 DEF PositionInv
  <2>3. ASSUME NEW k \in Closers
        PROVE  /\ \A e \in todo'[k] : acked'[EntryOrder(e)]
               /\ \A e \in Deliveries : dump'[k][e] # "ABSENT" => acked'[EntryOrder(e)]
    BY <1>4, <2>1 DEF PositionInv
  <2>4. ASSUME NEW k \in Closers, pc'[k] \in InExit PROVE acked'[EntryOrder(cur'[k])]
    <3>1. CASE k = c
      BY <1>1, <1>4, <2>1, <2>4, <3>1 DEF PositionInv, InExit
    <3>2. CASE k # c
      BY <1>4, <2>1, <2>4, <3>2 DEF PositionInv
    <3> QED
      BY <3>1, <3>2
  <2>5. \A e : EntryOrder(e)' = EntryOrder(e)
    BY DEF EntryOrder
  <2> QED
    BY <2>2, <2>3, <2>4, <2>5 DEF PositionInv
<1>8. ClosedInv'
  BY <1>2, <1>3, AnsweredStays DEF ClosedInv, MemOK, memVars, Keeps
<1>9. /\ MemOK' /\ StoreOK' /\ l \in ClosePC /\ todo[c] \ {d} \in SUBSET Deliveries
      /\ dump' \in [Closers -> [Deliveries -> PosStatus]]
  BY <1>2 DEF MemOK, memVars, StoreOK, orderVars, brokerVars, ClosePC, ExitOK
<1> QED
  BY <1>1, <1>2, <1>3, <1>6, <1>7, <1>8, <1>9, ExitMove DEF Keeps

\* Leaving _close_position: nothing is owned any more.
LEMMA ExitLeave ==
  ASSUME OrderOwnership, NEW c \in Closers, pc[c] \in InExit, LeaveClose(c),
         UNCHANGED <<snap, riskOk, todo, run, dump, runs, pollVars, crashes>>,
         MemOK', StoreOK', RowInv', SignalInv',
         \A q \in OrderIds : Monotone(q),
         \A q \in OrderIds : q # ExitOrder(c) => Keeps(q),
         book' \subseteq book, objClosed' \subseteq objClosed, UNCHANGED pos
  PROVE  OrderOwnership'
<1> USE DEF OrderOwnership, TypeOK, LeaveClose, Goto
<1>1. /\ todo' = [todo EXCEPT ![c] = todo[c]] /\ todo[c] \in SUBSET Deliveries
      /\ dump' \in [Closers -> [Deliveries -> PosStatus]]
      /\ pc[c] # "idle" /\ "next" \in ClosePC
  BY DEF ExitOK, InExit, ClosePC
<1>2. /\ pc'[c] = "next" /\ cur'[c] = Nobody
      /\ \A e \in Closers : e # c => pc'[e] = pc[e] /\ cur'[e] = cur[e]
  BY Apart DEF PcOK, ExitOK
<1>3. \A q \in OrderIds : q[2] # run[c] => Keeps(q)
  BY DEF ExitOrder
<1>4. \A e \in todo[c] : Untouched(<<e, run[c]>>)'
  <2>1. \A e \in todo[c] : <<e, run[c]>> # ExitOrder(c) /\ <<e, run[c]>> \in OrderIds
    BY Orders DEF ExitInv, ExitOwn, ExitOrder, ExitOK
  <2> QED
    BY <2>1 DEF ExitInv, ExitOwn, Keeps
<1>5. ExitOwn(c)'
  BY <1>2, <1>4 DEF ExitOwn, InExit, BeforeExits, BootPC
<1>6. PositionInv'
  BY <1>2, Orders, ZenonT(30) DEF PositionInv, ExitInv, ExitOwn, EntryOK, MemOK, ExitOK, Monotone, InExit
<1>7. ClosedInv'
  BY AnsweredStays DEF ClosedInv, MemOK
<1> QED
  BY <1>1, <1>3, <1>5, <1>6, <1>7, ExitMove

\* A step inside _close_position that goes on with the same position.
LEMMA ExitContinue ==
  ASSUME OrderOwnership, NEW c \in Closers, pc[c] \in InExit,
         NEW l \in {"exitSubmit", "exitOpen", "exitReject", "closePosition", "unbook"},
         pc' = [pc EXCEPT ![c] = l],
         UNCHANGED <<lock, snap, riskOk, exitVars, pollVars, crashes, book>>,
         MemOK', StoreOK', RowInv', SignalInv',
         \A q \in OrderIds : Monotone(q),
         NEW o \in OrderIds, o = ExitOrder(c),
         \A q \in OrderIds : q # o => Keeps(q),
         l \in {"exitSubmit", "exitReject"} => Unsent(o)',
         l = "exitOpen" => Unrecorded(o)',
         l \in {"closePosition", "unbook"} => row'[o] \in Answer,
         \A d \in Deliveries : pos'[d] = pos[d] \/ (d = cur[c] /\ l = "unbook"),
         \A d \in objClosed' : d \in objClosed \/ (d = cur[c] /\ l = "closePosition")
  PROVE  OrderOwnership'
<1> USE DEF OrderOwnership, TypeOK, Goto
<1>1. /\ todo' = [todo EXCEPT ![c] = todo[c]] /\ todo[c] \in SUBSET Deliveries
      /\ cur' = [cur EXCEPT ![c] = cur[c]] /\ cur[c] \in Deliveries \cup {Nobody}
      /\ dump' \in [Closers -> [Deliveries -> PosStatus]]
      /\ UNCHANGED <<run, runs, todo, cur, dump>> /\ pc[c] # "idle" /\ l \in ClosePC
  BY DEF ExitOK, exitVars, InExit, ClosePC
<1>2. pc'[c] = l /\ \A e \in Closers : e # c => pc'[e] = pc[e]
  BY Apart DEF PcOK
<1>3. \A q \in OrderIds : q[2] # run[c] => Keeps(q)
  BY DEF ExitOrder
<1>4. cur[c] \in Deliveries /\ run[c] \in 1..MaxRuns /\ o = <<cur[c], run[c]>>
  BY <1>1, Bounds DEF ExitInv, ExitOwn, RunInv, ExitOK, ExitOrder
<1>5. \A e \in todo[c] : Untouched(<<e, run[c]>>)'
  <2>1. \A e \in todo[c] : <<e, run[c]>> # ExitOrder(c) /\ <<e, run[c]>> \in OrderIds
    BY Orders DEF ExitInv, ExitOwn, ExitOrder, ExitOK
  <2> QED
    BY <1>1, <2>1 DEF ExitInv, ExitOwn, Keeps
<1>6. ExitOwn(c)'
  BY <1>1, <1>2, <1>4, <1>5 DEF ExitInv, ExitOwn, ExitOrder, Unsent, Unrecorded, InExit, BeforeExits, BootPC
<1>7. PositionInv'
  <2>1. acked'[EntryOrder(cur[c])]
    BY <1>4, Orders DEF PositionInv, Monotone
  <2> QED
    BY <1>1, <1>2, <2>1, Orders, ZenonT(30) DEF PositionInv, ExitInv, ExitOwn, EntryOK, MemOK, ExitOK, Monotone, InExit
<1>8. ClosedInv'
  <2>1. l \in {"closePosition", "unbook"} => ExitAnswered(cur[c])'
    BY <1>1, <1>4 DEF ExitAnswered, ExitOrder
  <2> QED
    BY <1>1, <2>1, AnsweredStays DEF ClosedInv, MemOK
<1> QED
  BY <1>1, <1>3, <1>6, <1>7, <1>8, ExitMove

LEMMA ExitOrderType ==
  ASSUME OrderOwnership, NEW c \in Closers, pc[c] \in InExit
  PROVE  ExitOrder(c) \in OrderIds
  BY Orders DEF OrderOwnership, TypeOK, ExitInv, ExitOwn, ExitOrder, ExitOK

LEMMA ExitRow ==
  ASSUME OrderOwnership, NEW c \in Closers, ExitInsert(c)
  PROVE  OrderOwnership'
<1> USE DEF OrderOwnership, TypeOK, ExitInsert
<1>1. PICK o \in OrderIds : o = ExitOrder(c)
  BY ExitOrderType DEF InExit
<1>2. pc[c] \in InExit /\ Untouched(o)
  BY <1>1 DEF ExitInv, ExitOwn, InExit
<1>3. /\ UNCHANGED <<snap, riskOk, todo, run, dump, runs, pollVars, crashes, pos, book, objClosed,
                     brokerVars, bstat, ghosts>>
      /\ MemOK'
  BY DEF MemOK, memVars, brokerVars
<1>4. CASE DuplicateKey(o)
  <2>1. LeaveClose(c) /\ UNCHANGED <<row, acked>>
    BY <1>1, <1>4 DEF orderVars
  <2>2. (\A q \in OrderIds : Keeps(q)) /\ RowInv' /\ SignalInv' /\ StoreOK'
    BY <1>3, <2>1, Quiet DEF StoreOK
  <2> QED
    BY <1>2, <1>3, <2>1, <2>2, ExitLeave DEF Keeps
<1>5. CASE ~DuplicateKey(o)
  <2>1. /\ InsertRow(o) /\ pc' = [pc EXCEPT ![c] = "exitSubmit"]
        /\ UNCHANGED <<lock, exitVars>>
    BY <1>1, <1>3, <1>5 DEF Goto, exitVars
  <2>2. /\ Unsent(o)' /\ RowInv'
        /\ \A q \in OrderIds : Monotone(q)
        /\ \A q \in OrderIds : q # o => Keeps(q)
        /\ row' \in [OrderIds -> RowStatus]
    BY <1>2, <1>3, <2>1, Placed
  <2>3. SignalInv'
    BY <1>2, <1>3, <1>5, <2>1 DEF SignalInv, DuplicateKey, RowsOfSignal, InsertRow, StoreOK
  <2>4. StoreOK'
    BY <1>3, <2>1, <2>2 DEF StoreOK, InsertRow
  <2> QED
    BY <1>1, <1>2, <1>3, <2>1, <2>2, <2>3, <2>4, ExitContinue
<1> QED
  BY <1>4, <1>5

LEMMA ExitSent ==
  ASSUME OrderOwnership, NEW c \in Closers, ExitSubmit(c)
  PROVE  OrderOwnership'
<1> USE DEF OrderOwnership, TypeOK, ExitSubmit
<1>1. PICK o \in OrderIds : o = ExitOrder(c)
  BY ExitOrderType DEF InExit
<1>2. pc[c] \in InExit /\ Unsent(o)
  BY <1>1 DEF ExitInv, ExitOwn, InExit
<1>3. /\ UNCHANGED <<snap, riskOk, todo, run, dump, runs, pollVars, crashes, pos, book, objClosed,
                     orderVars>>
      /\ MemOK'
  BY DEF MemOK, memVars
<1>4. CASE BrokerAcks(o) /\ Goto(c, "exitOpen") /\ UNCHANGED <<lock, cur>>
  <2>1. /\ Unrecorded(o)' /\ RowInv' /\ SignalInv'
        /\ \A q \in OrderIds : Monotone(q)
        /\ \A q \in OrderIds : q # o => Keeps(q)
        /\ bstat' \in [OrderIds -> BrokerStatus \cup {"NONE"}]
        /\ ghosts' \in [OrderIds -> Nat]
    BY <1>2, <1>3, <1>4, Taken
  <2>2. StoreOK'
    BY <1>3, <2>1 DEF StoreOK, orderVars
  <2> QED
    BY <1>1, <1>2, <1>3, <1>4, <2>1, <2>2, ExitContinue DEF exitVars, Goto
<1>5. ASSUME BrokerRaises(o)
      PROVE /\ Unsent(o)' /\ RowInv' /\ SignalInv' /\ StoreOK'
            /\ \A q \in OrderIds : Keeps(q)
  BY <1>2, <1>3, <1>5, Raised DEF StoreOK, orderVars
<1>6. CASE BrokerRaises(o) /\ Goto(c, "exitReject") /\ UNCHANGED <<lock, cur>>
  BY <1>1, <1>2, <1>3, <1>5, <1>6, ExitContinue DEF exitVars, Keeps, Goto
<1>7. CASE BrokerRaises(o) /\ LeaveClose(c)
  BY <1>2, <1>3, <1>5, <1>7, ExitLeave DEF Keeps
<1> QED
  BY <1>1, <1>4, <1>6, <1>7

LEMMA ExitRecorded ==
  ASSUME OrderOwnership, NEW c \in Closers, ExitTransition(c)
  PROVE  OrderOwnership'
<1> USE DEF OrderOwnership, TypeOK, ExitTransition
<1>1. PICK o \in OrderIds : o = ExitOrder(c)
  BY ExitOrderType DEF InExit
<1>2. /\ UNCHANGED <<lock, snap, riskOk, exitVars, pollVars, crashes, book, pos, brokerVars>>
      /\ pc' = [pc EXCEPT ![c] = "closePosition"] /\ MemOK' /\ pc[c] \in InExit
      /\ \A d \in objClosed' : d \in objClosed \/ d = cur[c]
  BY DEF MemOK, Goto, InExit
<1>3. /\ row'[o] \in Answer /\ RowInv' /\ SignalInv'
      /\ \A q \in OrderIds : Monotone(q)
      /\ \A q \in OrderIds : q # o => Keeps(q)
      /\ row' \in [OrderIds -> RowStatus] /\ acked' \in [OrderIds -> BOOLEAN]
  <2>1. CASE pc[c] = "exitOpen" /\ Transition(o, "OPEN")
    <3>1. Unrecorded(o)
      BY <1>1, <2>1 DEF ExitInv, ExitOwn
    <3> QED
      BY <1>2, <2>1, <3>1, Acknowledged
  <2>2. CASE pc[c] = "exitReject" /\ Transition(o, "REJECTED")
    <3>1. Unsent(o)
      BY <1>1, <2>2 DEF ExitInv, ExitOwn
    <3> QED
      BY <1>2, <2>2, <3>1, Refused
  <2> QED
    BY <1>1, <2>1, <2>2
<1>4. StoreOK'
  BY <1>2, <1>3 DEF StoreOK, brokerVars
<1> QED
  BY <1>1, <1>2, <1>3, <1>4, ExitContinue

LEMMA ExitClosed ==
  ASSUME OrderOwnership, NEW c \in Closers, ClosePosition(c) \/ RemovePosition(c)
  PROVE  OrderOwnership'
<1> USE DEF OrderOwnership, TypeOK
<1>1. PICK o \in OrderIds : o = ExitOrder(c)
  BY ExitOrderType DEF InExit, ClosePosition, RemovePosition
<1>2. /\ pc[c] \in InExit /\ row[o] \in Answer
      /\ UNCHANGED <<orderVars, brokerVars, snap, riskOk, todo, run, dump, runs, pollVars, crashes>>
  BY <1>1 DEF ClosePosition, RemovePosition, ExitInv, ExitOwn, InExit, exitVars
<1>3. (\A q \in OrderIds : Keeps(q)) /\ RowInv' /\ SignalInv'
  BY <1>2, Quiet DEF orderVars, brokerVars
<1>4. CASE ClosePosition(c)
  <2>1. row'[o] \in Answer
    BY <1>2 DEF orderVars
  <2>2. MemOK' /\ StoreOK' /\ \A d \in Deliveries : pos'[d] = pos[d] \/ d = cur[c]
    BY <1>2, <1>4 DEF ClosePosition, MemOK, memVars, StoreOK, orderVars, brokerVars, PosStatus
  <2>3. /\ pc' = [pc EXCEPT ![c] = "unbook"]
        /\ UNCHANGED <<lock, snap, riskOk, exitVars, pollVars, crashes, book, objClosed>>
    BY <1>4 DEF ClosePosition, Goto, memVars
  <2> QED
    BY <1>1, <1>2, <1>3, <2>1, <2>2, <2>3, ExitContinue DEF Keeps
<1>5. CASE RemovePosition(c)
  <2>1. cur[c] \in Deliveries
    BY <1>2 DEF ExitInv, ExitOwn
  <2>2. MemOK' /\ StoreOK'
    BY <1>2, <1>5, <2>1 DEF RemovePosition, MemOK, StoreOK, orderVars, brokerVars
  <2> QED
    BY <1>2, <1>3, <1>5, <2>2, ExitLeave DEF RemovePosition, Keeps
<1> QED
  BY <1>4, <1>5

\* The end of a run, with or without a halt.
LEMMA ExitEnd ==
  ASSUME OrderOwnership, NEW c \in Closers, FinishRun(c) \/ PauseForHalt(c)
  PROVE  OrderOwnership'
<1> USE DEF OrderOwnership, TypeOK
<1>1. /\ UNCHANGED <<snap, riskOk, lock, hydrated, book, objClosed, kill, trades, booked, exitVars,
                     pollVars, orderVars, pos, brokerVars, crashes>>
      /\ paused' \in {paused, TRUE}
      /\ \E l \in {"idle", "halt"} : pc' = [pc EXCEPT ![c] = l]
      /\ todo[c] = {} /\ pc[c] \in {"next", "halt"}
  BY DEF FinishRun, PauseForHalt, Goto, memVars, ExitInv, ExitOwn
<1>2. (\A q \in OrderIds : Keeps(q)) /\ RowInv' /\ SignalInv'
  BY <1>1, Quiet DEF orderVars, brokerVars
<1>3. pc'[c] \in {"idle", "halt"} /\ \A e \in Closers : e # c => pc'[e] = pc[e]
  BY <1>1, Apart DEF PcOK
<1>4. /\ todo' = [todo EXCEPT ![c] = todo[c]] /\ todo[c] \in SUBSET Deliveries
      /\ cur' = [cur EXCEPT ![c] = cur[c]] /\ cur[c] \in Deliveries \cup {Nobody}
      /\ dump' \in [Closers -> [Deliveries -> PosStatus]] /\ MemOK' /\ StoreOK'
      /\ {"idle", "halt"} \subseteq ClosePC
  BY <1>1 DEF ExitOK, exitVars, MemOK, StoreOK, orderVars, brokerVars, ClosePC, BootPC
<1>5. ExitOwn(c)'
  BY <1>1, <1>3 DEF ExitOwn, exitVars, InExit, BeforeExits, BootPC
<1>6. PositionInv'
  BY <1>1, <1>2, <1>3, Orders DEF PositionInv, ExitInv, ExitOwn, EntryOK, MemOK, ExitOK, exitVars, Keeps,
     Monotone, InExit
<1>7. ClosedInv'
  BY <1>1, <1>2, AnsweredStays DEF ClosedInv, MemOK, exitVars, Keeps
<1> QED
  BY <1>1, <1>2, <1>4, <1>5, <1>6, <1>7, ExitMove DEF Keeps, exitVars

\* A database error in a run.
LEMMA ExitFault ==
  ASSUME OrderOwnership, NEW c \in Closers, ExitDbFault(c)
  PROVE  OrderOwnership'
<1> USE DEF OrderOwnership, TypeOK
<1>1. UNCHANGED <<riskOk, memVars, run, runs, pollVars, orderVars, pos, brokerVars, crashes>>
  BY DEF ExitDbFault
<1>2. (\A q \in OrderIds : Keeps(q)) /\ RowInv' /\ SignalInv' /\ MemOK' /\ StoreOK'
  BY <1>1, Quiet DEF orderVars, brokerVars, MemOK, memVars, StoreOK
<1>3. CASE pc[c] \in {"exitInsert", "exitOpen", "exitReject", "closePosition"}
  <2>1. pc[c] \in InExit /\ LeaveClose(c) /\ UNCHANGED <<snap, todo, dump>>
    BY <1>3 DEF ExitDbFault, InExit
  <2> QED
    BY <1>1, <1>2, <2>1, ExitLeave DEF memVars, Keeps
<1>4. CASE pc[c] \in {"boot", "tally", "prices"}
  <2>1. /\ todo' = [todo EXCEPT ![c] = {}] /\ dump' = [dump EXCEPT ![c] = NoDump]
        /\ snap' = [snap EXCEPT ![c] = {}] /\ pc' = [pc EXCEPT ![c] = "idle"]
        /\ UNCHANGED <<lock, cur>>
    BY <1>4 DEF ExitDbFault, Goto
  <2>2. /\ pc'[c] = "idle" /\ \A t \in Tasks : t # c => pc'[t] = pc[t]
        /\ todo'[c] = {} /\ \A e \in Closers : e # c => todo'[e] = todo[e] /\ dump'[e] = dump[e]
        /\ \A d \in Deliveries : dump'[c][d] = "ABSENT"
        /\ \A t \in Tasks : snap'[t] \subseteq snap[t]
    BY <2>1, Apart DEF PcOK, ExitOK, EntryOK, NoDump
  <2>3. TypeOK'
    <3>1. PcOK' /\ EntryOK'
      BY <1>1, <2>1, Apart DEF PcOK, ClosePC, BootPC, EntryOK
    <3>2. ExitOK' /\ PollOK'
      BY <1>1, <2>1 DEF ExitOK, PollOK, pollVars, NoDump, PosStatus
    <3> QED
      BY <1>2, <3>1, <3>2
  <2>4. /\ EntryInv' /\ PollInv'
        /\ \A o \in OrderIds : o[2] > runs => Untouched(o)'
        /\ \A e \in Closers : e # c => ExitOwn(e)'
    BY <1>1, <1>2, <1>4, <2>1, <2>2, ExitFrame DEF Keeps
  <2>5. RunInv'
    BY <1>1, <2>2, <2>4, Apart DEF RunInv
  <2>6. ExitInv'
    <3>1. ExitOwn(c)'
      BY <2>2 DEF ExitOwn, InExit, BeforeExits, BootPC
    <3> QED
      BY <2>4, <3>1 DEF ExitInv
  <2>7. PositionInv'
    BY <1>1, <1>2, <2>1, <2>2, Apart, Orders DEF PositionInv, ExitInv, ExitOwn, EntryOK, MemOK, ExitOK,
       memVars, Keeps, Monotone, InExit
  <2>8. ClosedInv'
    BY <1>1, <1>2, <2>2, AnsweredStays DEF ClosedInv, MemOK, memVars, Keeps
  <2> QED
    BY <1>2, <2>3, <2>4, <2>5, <2>6, <2>7, <2>8
<1> QED
  BY <1>3, <1>4 DEF ExitDbFault

-----------------------------------------------------------------------------
(* Pollers.                                                                *)

\* The parts that follow once the poller's own copies are accounted for.
LEMMA PollMove ==
  ASSUME OrderOwnership, NEW r \in Pollers,
         NEW l \in PollPC, pc' = [pc EXCEPT ![r] = l],
         UNCHANGED <<lock, riskOk, memVars, exitVars, pos, brokerVars, crashes>>,
         snap' \in [Tasks -> SUBSET Deliveries], \A t \in Tasks : snap'[t] \subseteq snap[t],
         row' \in [OrderIds -> RowStatus], acked' \in [OrderIds -> BOOLEAN], PollOK',
         \A q \in OrderIds : Keeps(q),
         RowInv', SignalInv', PollInv'
  PROVE  OrderOwnership'
<1> USE DEF OrderOwnership, TypeOK
<1>1. (\A t \in Tasks : t # r => pc'[t] = pc[t]) /\ (\A c \in Closers : pc'[c] = pc[c])
  BY Apart DEF PcOK
<1>2. PcOK'
  BY Apart DEF PcOK
<1>3. EntryOK' /\ MemOK' /\ ExitOK' /\ StoreOK'
  BY DEF EntryOK, MemOK, memVars, ExitOK, exitVars, StoreOK, brokerVars
<1>4. EntryInv' /\ RunInv' /\ ExitInv'
  BY <1>1, PollFrame
<1>5. PositionInv'
  BY <1>1, Orders DEF PositionInv, ExitInv, ExitOwn, EntryOK, MemOK, ExitOK, memVars, exitVars, Keeps,
     Monotone, InExit
<1>6. ClosedInv'
  BY AnsweredStays DEF ClosedInv, MemOK, memVars, exitVars, Keeps
<1> QED
  BY <1>2, <1>3, <1>4, <1>5, <1>6

\* The steps that write no row: the copies are of acknowledged open rows, and a
\* transition is kept only if the broker reports a terminal status.
LEMMA PollRead ==
  ASSUME OrderOwnership, NEW r \in Pollers,
         \/ ReconcileOrders(r) \/ GetNonTerminal(r) \/ GetOrderStatus(r)
         \/ FinishPoll(r) \/ PollDbFault(r)
  PROVE  OrderOwnership'
<1> USE DEF OrderOwnership, TypeOK
<1>1. /\ UNCHANGED <<lock, riskOk, memVars, exitVars, orderVars, pos, brokerVars, crashes>>
      /\ snap' \in {snap, [snap EXCEPT ![r] = {}]}
  BY DEF ReconcileOrders, GetNonTerminal, GetOrderStatus, FinishPoll, PollDbFault
<1>2. /\ (\A q \in OrderIds : Keeps(q)) /\ RowInv' /\ SignalInv'
      /\ UNCHANGED <<row, acked, bstat>>
      /\ row' \in [OrderIds -> RowStatus] /\ acked' \in [OrderIds -> BOOLEAN]
  BY <1>1, Quiet DEF orderVars, brokerVars, StoreOK
<1>3. snap' \in [Tasks -> SUBSET Deliveries] /\ \A t \in Tasks : snap'[t] \subseteq snap[t]
  BY <1>1, Apart DEF EntryOK
<1>4. CASE ReconcileOrders(r) \/ FinishPoll(r) \/ PollDbFault(r)
  <2>1. /\ \E l \in {"boot", "poll", "idle", "polling"} : pc' = [pc EXCEPT ![r] = l]
        /\ UNCHANGED polled /\ found' \in {found, [found EXCEPT ![r] = Nobody]}
    BY <1>4, Apart DEF ReconcileOrders, FinishPoll, PollDbFault, Start, ReadyLabel, Goto, pollVars
  <2>2. PollOK'
    BY <2>1 DEF PollOK
  <2>3. PollInv'
    BY <1>2, <2>1, Apart DEF PollInv, PollOK, PcOK
  <2>4. {"boot", "poll", "idle", "polling"} \subseteq PollPC
    BY DEF PollPC, BootPC
  <2> QED
    BY <1>1, <1>2, <1>3, <2>1, <2>2, <2>3, <2>4, PollMove
<1>5. CASE GetNonTerminal(r)
  <2> DEFINE Q == {q \in OrderIds : acked[q] /\ row[q] \in OrderStatus \ Terminal}
             P == {<<o, row[o]>> : o \in Q}
  <2>1. /\ polled' = [polled EXCEPT ![r] = P] /\ UNCHANGED found
        /\ pc' = [pc EXCEPT ![r] = "polling"]
    BY <1>5 DEF GetNonTerminal, Goto
  <2>2. \A o \in Q : row[o] = "OPEN"
    BY DEF RowInv, BrokerTerminal, BrokerStatusToModel, Terminal, OrderStatus
  <2>3. P \subseteq OrderIds \X OrderStatus /\ \A q \in P : acked[q[1]] /\ q[2] = "OPEN"
    BY <2>2
  <2> HIDE DEF P
  <2>4. PollOK'
    BY <2>1, <2>3 DEF PollOK
  <2>5. PollInv'
    BY <1>2, <2>1, <2>3, Apart DEF PollInv, PollOK, PcOK
  <2>6. "polling" \in PollPC
    BY DEF PollPC
  <2> QED
    BY <1>1, <1>2, <1>3, <2>1, <2>4, <2>5, <2>6, PollMove
<1>6. CASE GetOrderStatus(r)
  <2>1. PICK q \in polled[r] :
          /\ polled' = [polled EXCEPT ![r] = @ \ {q}]
          /\ \/ \E s \in ReportedStatus(q[1]) :
                  /\ BrokerStatusToModel(s) # q[2] /\ IsValidTransition(q[2], BrokerStatusToModel(s))
                  /\ found' = [found EXCEPT ![r] = <<q[1], BrokerStatusToModel(s)>>]
                  /\ Goto(r, "pollWrite")
             \/ UNCHANGED <<found, pc>>
    BY <1>6, Zenon DEF GetOrderStatus
  <2>2. q \in OrderIds \X OrderStatus /\ acked[q[1]] /\ q[2] = "OPEN" /\ q[1] \in OrderIds
    BY DEF PollOK, PollInv
  <2>3. polled'[r] \subseteq polled[r] /\ \A e \in Pollers : e # r => polled'[e] = polled[e]
    BY <2>1 DEF PollOK
  <2>4. CASE UNCHANGED <<found, pc>>
    <3>1. pc' = [pc EXCEPT ![r] = "polling"] /\ "polling" \in PollPC
      BY <1>6, <2>4, Apart DEF GetOrderStatus, PcOK, PollPC
    <3>2. PollOK'
      BY <2>1, <2>4 DEF PollOK
    <3>3. PollInv'
      BY <1>2, <2>3, <2>4 DEF PollInv
    <3> QED
      BY <1>1, <1>2, <1>3, <3>1, <3>2, <3>3, PollMove
  <2>5. ASSUME NEW s \in ReportedStatus(q[1]),
               BrokerStatusToModel(s) # q[2], IsValidTransition(q[2], BrokerStatusToModel(s)),
               found' = [found EXCEPT ![r] = <<q[1], BrokerStatusToModel(s)>>],
               Goto(r, "pollWrite")
        PROVE  OrderOwnership'
    <3>1. s = bstat[q[1]] /\ s \in BrokerTerminal /\ BrokerStatusToModel(s) \in OrderStatus
      BY <2>2, <2>5 DEF ReportedStatus, BrokerStatus, BrokerTerminal, BrokerStatusToModel,
         IsValidTransition, Allowed, OrderStatus
    <3>2. pc' = [pc EXCEPT ![r] = "pollWrite"] /\ "pollWrite" \in PollPC
      BY <2>5 DEF Goto, PollPC
    <3>3. <<q[1], BrokerStatusToModel(s)>> \in OrderIds \X OrderStatus
      BY <2>2, <3>1
    <3>4. PollOK'
      BY <2>1, <2>5, <3>3 DEF PollOK
    <3>5. found'[r] = <<q[1], BrokerStatusToModel(s)>> /\ \A e \in Pollers : e # r => found'[e] = found[e]
      BY <2>5 DEF PollOK
    <3>6. \A e \in Pollers : e # r => pc'[e] = pc[e]
      BY <3>2, Apart DEF PcOK
    <3>7. PollInv'
      BY <1>2, <2>2, <2>3, <3>1, <3>3, <3>5, <3>6 DEF PollInv
    <3> QED
      BY <1>1, <1>2, <1>3, <3>2, <3>4, <3>7, PollMove
  <2> QED
    BY <2>1, <2>4, <2>5
<1> QED
  BY <1>4, <1>5, <1>6

\* The write of a copy read earlier: whatever happened to the row since, it now
\* says what the broker says for good.
LEMMA PollWrite ==
  ASSUME OrderOwnership, NEW r \in Pollers, WriteReconciled(r)
  PROVE  OrderOwnership'
<1> USE DEF OrderOwnership, TypeOK
<1>1. PICK o \in OrderIds, s \in OrderStatus :
        found[r] = <<o, s>> /\ acked[o] /\ bstat[o] \in BrokerTerminal /\ s = BrokerStatusToModel(bstat[o])
  BY DEF WriteReconciled, PollInv
<1>2. /\ row' = [row EXCEPT ![o] = s] /\ acked' = [acked EXCEPT ![o] = TRUE]
      /\ found' = [found EXCEPT ![r] = Nobody] /\ pc' = [pc EXCEPT ![r] = "polling"]
      /\ UNCHANGED <<snap, riskOk, lock, memVars, exitVars, polled, pos, brokerVars, bstat, ghosts, crashes>>
  BY <1>1 DEF WriteReconciled, Goto, brokerVars
<1>3. row[o] = "OPEN" \/ row[o] = s
  BY <1>1 DEF RowInv
<1>4. s \in Answer /\ s \in Terminal
  BY <1>1 DEF BrokerTerminal, BrokerStatusToModel, Answer, OrderStatus, Terminal
<1>5. \A q \in OrderIds : Keeps(q)
  <2>1. Keeps(o)
    BY <1>1, <1>2, <1>4 DEF Keeps, Monotone, Untouched, Unsent, Unrecorded, StoreOK
  <2>2. \A q \in OrderIds : q # o => Keeps(q)
    BY <1>2 DEF Keeps, Monotone, Untouched, Unsent, Unrecorded, StoreOK
  <2> QED
    BY <2>1, <2>2
<1>6. RowInv'
  BY <1>1, <1>2, <1>4 DEF RowInv, StoreOK, Untouched, Answer, Terminal
<1>7. SignalInv'
  BY <1>1, <1>2, <1>3 DEF SignalInv, StoreOK
<1>8. PollOK' /\ row' \in [OrderIds -> RowStatus] /\ acked' \in [OrderIds -> BOOLEAN]
  BY <1>2 DEF PollOK, StoreOK, RowStatus
<1>9. pc'[r] = "polling" /\ \A e \in Pollers : e # r => pc'[e] = pc[e] /\ found'[e] = found[e]
  BY <1>2, Apart DEF PcOK, PollOK
<1>10. PollInv'
  BY <1>2, <1>5, <1>9 DEF PollInv, PollOK, Keeps, Monotone
<1>11. snap' \in [Tasks -> SUBSET Deliveries] /\ (\A t \in Tasks : snap'[t] \subseteq snap[t])
       /\ "polling" \in PollPC
  BY <1>2 DEF EntryOK, PollPC
<1> QED
  BY <1>2, <1>5, <1>6, <1>7, <1>8, <1>10, <1>11, PollMove

-----------------------------------------------------------------------------
(* ensure_ready, the operator, the broker and the restart.                 *)

\* A booting task of any kind reads, replaces the book and goes on.
LEMMA Boot ==
  ASSUME OrderOwnership, NEW t \in Tasks, EnsureReady(t)
  PROVE  OrderOwnership'
<1> USE DEF OrderOwnership, TypeOK
<1>1. /\ UNCHANGED <<riskOk, lock, kill, paused, exitVars, pollVars, orderVars, pos, brokerVars, crashes>>
      /\ \/ pc[t] = "boot" /\ pc' = [pc EXCEPT ![t] = "hydrate"]
         \/ pc[t] = "hydrate" /\ pc' = [pc EXCEPT ![t] = "tally"]
         \/ pc[t] = "tally" /\ pc' = [pc EXCEPT ![t] = ReadyLabel(t)]
      /\ \/ UNCHANGED <<book, objClosed>>
         \/ book' = snap[t] /\ objClosed' = {}
      /\ \/ UNCHANGED <<trades, booked>>
         \/ /\ booked' \in [Deliveries -> Nat]
            /\ trades' = Cardinality({d \in Deliveries : pos[d] = "CLOSED"}) + Cardinality(snap[t])
      /\ hydrated' \in BOOLEAN
      /\ snap' \in {snap, [snap EXCEPT ![t] = {}], [snap EXCEPT ![t] = {d \in Deliveries : pos[d] = "OPEN"}]}
  <2>1. CASE EnsureReadyRead(t)
    BY <2>1 DEF EnsureReadyRead, Goto, memVars, MemOK
  <2>2. CASE EnsureReadyHydrate(t)
    BY <2>2 DEF EnsureReadyHydrate, Goto, MemOK
  <2>3. CASE EnsureReadyTally(t)
    BY <2>3 DEF EnsureReadyTally, Goto
  <2> QED
    BY <2>1, <2>2, <2>3 DEF EnsureReady
<1>2. (\A q \in OrderIds : Keeps(q)) /\ RowInv' /\ SignalInv'
  BY <1>1, Quiet DEF orderVars, brokerVars
<1>3. /\ \A e \in Tasks : e # t => pc'[e] = pc[e]
      /\ pc'[t] \in {"hydrate", "tally", "lock", "collect", "poll"}
      /\ pc[t] \in {"boot", "hydrate", "tally"}
      /\ t \in Deliveries => pc'[t] \in {"hydrate", "tally", "lock"}
      /\ t \in Closers => pc'[t] \in {"hydrate", "tally", "collect"}
      /\ t \in Pollers => pc'[t] \in {"hydrate", "tally", "poll"}
  BY <1>1, Apart DEF PcOK, ReadyLabel
<1>4. TypeOK'
  <2>1. PcOK'
    BY <1>1, <1>3, Apart DEF PcOK, EntryPC, ClosePC, PollPC, BootPC
  <2>2. trades' \in Nat
    <3>1. /\ {d \in Deliveries : pos[d] = "CLOSED"} \in SUBSET Deliveries
          /\ snap[t] \in SUBSET Deliveries
      BY DEF EntryOK
    <3>2. /\ Cardinality({d \in Deliveries : pos[d] = "CLOSED"}) \in Nat
          /\ Cardinality(snap[t]) \in Nat
      BY <3>1, Counts
    <3> QED
      BY <1>1, <3>2 DEF MemOK
  <2>3. EntryOK' /\ MemOK'
    BY <1>1, <2>2 DEF EntryOK, MemOK
  <2>4. ExitOK' /\ PollOK' /\ StoreOK'
    BY <1>1 DEF ExitOK, exitVars, PollOK, pollVars, StoreOK, orderVars, brokerVars
  <2> QED
    BY <2>1, <2>3, <2>4
<1>5. EntryInv'
  BY <1>1, <1>2, <1>3, Apart, Orders DEF EntryInv, Keeps, Monotone, BeforeInsert, BootPC
<1>6. RunInv'
  BY <1>1, <1>2, <1>3, Apart DEF RunInv, exitVars, Keeps
<1>7. ExitInv'
  <2>1. ASSUME NEW c \in Closers  PROVE ExitOwn(c)'
    <3>1. CASE c = t
      BY <1>1, <1>2, <1>3, <3>1, Orders DEF ExitInv, ExitOwn, ExitOK, exitVars, RunInv, Keeps, InExit,
         BeforeExits, BootPC
    <3>2. CASE c # t
      BY <1>1, <1>2, <1>3, <3>2, Apart, Orders DEF ExitInv, ExitOwn, ExitOrder, ExitOK, exitVars, RunInv,
         Keeps, Monotone, InExit, BeforeExits, BootPC
    <3> QED
      BY <3>1, <3>2
  <2> QED
    BY <2>1 DEF ExitInv
<1>8. PollInv'
  BY <1>1, <1>2, <1>3, Apart DEF PollInv, PollOK, pollVars, Keeps, Monotone
<1>9. PositionInv'
  <2>1. \A e \in Tasks : \A d \in snap'[e] : acked'[EntryOrder(d)]
    BY <1>1, <1>2, Orders DEF PositionInv, EntryOK, Keeps, Monotone
  <2>2. \A d \in book' : acked'[EntryOrder(d)]
    BY <1>1, <1>2, Orders DEF PositionInv, EntryOK, MemOK, Keeps, Monotone
  <2>3. \A c \in Closers : pc'[c] \in InExit => pc[c] = pc'[c]
    BY <1>3, Apart DEF InExit
  <2> QED
    BY <1>1, <1>2, <2>1, <2>2, <2>3, Orders DEF PositionInv, ExitInv, ExitOwn, ExitOK, exitVars, Keeps, Monotone
<1>10. ClosedInv'
  BY <1>1, <1>2, AnsweredStays DEF ClosedInv, MemOK, exitVars, Keeps
<1> QED
  BY <1>2, <1>4, <1>5, <1>6, <1>7, <1>8, <1>9, <1>10

LEMMA Operator ==
  ASSUME OrderOwnership, PauseResume \/ SetKillSwitch
  PROVE  OrderOwnership'
<1> USE DEF OrderOwnership, TypeOK
<1>1. /\ UNCHANGED <<taskVars, lock, hydrated, book, objClosed, trades, booked, exitVars, pollVars,
                     orderVars, pos, brokerVars, crashes, snap, pc>>
      /\ kill' \in BOOLEAN /\ paused' \in BOOLEAN
  BY DEF PauseResume, SetKillSwitch, taskVars, MemOK
<1>2. (\A q \in OrderIds : Keeps(q)) /\ RowInv' /\ SignalInv'
  BY <1>1, Quiet DEF orderVars, brokerVars
<1>3. TypeOK'
  BY <1>1 DEF PcOK, EntryOK, taskVars, MemOK, ExitOK, exitVars, PollOK, pollVars, StoreOK, orderVars, brokerVars
<1>4. EntryInv' /\ RunInv' /\ PollInv'
  BY <1>1, <1>2, Orders DEF EntryInv, RunInv, exitVars, PollInv, PollOK, pollVars, Keeps, Monotone
<1>5. ExitInv'
  BY <1>1, <1>2, Orders, Bounds DEF ExitInv, ExitOwn, RunInv, ExitOK, exitVars, ExitOrder, Keeps, Monotone,
     BeforeExits, InExit, BootPC
<1>6. PositionInv' /\ ClosedInv'
  BY <1>1, <1>2, PositionFrame DEF Keeps
<1> QED
  BY <1>2, <1>3, <1>4, <1>5, <1>6

LEMMA Broker ==
  ASSUME OrderOwnership, NEW o \in OrderIds, BrokerAdvances(o)
  PROVE  OrderOwnership'
<1> USE DEF OrderOwnership, TypeOK
<1>1. /\ UNCHANGED <<taskVars, lock, memVars, exitVars, pollVars, orderVars, pos, ghosts, crashes, pc, snap>>
      /\ bstat[o] \in {"PENDING", "OPEN"}
      /\ \E s \in {"OPEN"} \cup BrokerTerminal : bstat' = [bstat EXCEPT ![o] = s]
  BY DEF BrokerAdvances, taskVars
<1>2. \A q \in OrderIds : Keeps(q)
  <2>1. Keeps(o)
    BY <1>1 DEF Keeps, Monotone, Untouched, Unsent, Unrecorded, StoreOK, orderVars, BrokerTerminal
  <2>2. \A q \in OrderIds : q # o => Keeps(q)
    BY <1>1 DEF Keeps, Monotone, Untouched, Unsent, Unrecorded, StoreOK, orderVars
  <2> QED
    BY <2>1, <2>2
<1>3. RowInv'
  <2>1. /\ bstat'[o] # "NONE" /\ bstat[o] \notin BrokerTerminal /\ bstat[o] # "NONE"
        /\ \A q \in OrderIds : q # o => bstat'[q] = bstat[q]
    BY <1>1 DEF StoreOK, BrokerTerminal
  <2> QED
    BY <1>1, <2>1 DEF RowInv, orderVars, Untouched
<1>4. SignalInv'
  BY <1>1 DEF SignalInv, orderVars
<1>5. TypeOK'
  <2>1. StoreOK'
    BY <1>1 DEF StoreOK, orderVars, BrokerStatus, BrokerTerminal
  <2> QED
    BY <1>1, <2>1 DEF PcOK, EntryOK, taskVars, MemOK, memVars, ExitOK, exitVars, PollOK, pollVars
<1>6. EntryInv' /\ RunInv' /\ PollInv'
  BY <1>1, <1>2, Orders DEF EntryInv, RunInv, exitVars, PollInv, PollOK, pollVars, Keeps, Monotone
<1>7. ExitInv'
  BY <1>1, <1>2, Orders, Bounds DEF ExitInv, ExitOwn, RunInv, ExitOK, exitVars, ExitOrder, Keeps, Monotone,
     BeforeExits, InExit, BootPC
<1>8. PositionInv' /\ ClosedInv'
  BY <1>1, <1>2, PositionFrame DEF Keeps, memVars
<1> QED
  BY <1>3, <1>4, <1>5, <1>6, <1>7, <1>8

\* After a restart no task owns anything; the rows it left stay as they are.
LEMMA Restarted ==
  ASSUME OrderOwnership, Restart
  PROVE  OrderOwnership'
<1> USE DEF OrderOwnership, TypeOK, Restart
<1>1. (\A q \in OrderIds : Keeps(q)) /\ RowInv' /\ SignalInv' /\ UNCHANGED <<runs, row, acked, pos>>
  BY Quiet DEF orderVars, brokerVars
<1>2. /\ \A d \in Deliveries : pc'[d] \in {"idle", "done"} /\ (pc'[d] = "idle" => pc[d] = "idle")
      /\ \A c \in Closers : pc'[c] = "idle" /\ todo'[c] = {}
      /\ \A r \in Pollers : pc'[r] = "idle" /\ polled'[r] = {}
  BY Apart
<1>3. TypeOK'
  <2>1. PcOK'
    BY Apart DEF EntryPC, ClosePC, PollPC, BootPC, PcOK
  <2>2. EntryOK' /\ MemOK' /\ PollOK'
    BY DEF EntryOK, MemOK, PollOK
  <2>3. ExitOK'
    BY Bounds DEF ExitOK, NoDump, PosStatus
  <2>4. StoreOK'
    BY Bounds DEF StoreOK, orderVars, brokerVars
  <2> QED
    BY <2>1, <2>2, <2>3, <2>4
<1>4. EntryInv'
  BY <1>1, <1>2, Orders DEF EntryInv, Keeps, BeforeInsert, BootPC
<1>5. RunInv' /\ ExitInv' /\ PollInv'
  BY <1>1, <1>2 DEF RunInv, ExitInv, ExitOwn, PollInv, Keeps, InExit, BeforeExits, BootPC
<1>6. PositionInv'
  BY <1>1, <1>2, Orders DEF PositionInv, NoDump, InExit
<1>7. ClosedInv'
  BY <1>1, AnsweredStays DEF ClosedInv, NoDump, Keeps
<1> QED
  BY <1>1, <1>3, <1>4, <1>5, <1>6, <1>7

-----------------------------------------------------------------------------
(* The inductive invariant.                                                *)

LEMMA OwnershipInit == Init => OrderOwnership
<1> SUFFICES ASSUME Init PROVE OrderOwnership
  OBVIOUS
<1> USE DEF Init
<1>1. TypeOK
  <2>1. PcOK
    BY Apart DEF PcOK, EntryPC, ClosePC, PollPC, BootPC
  <2>2. EntryOK /\ MemOK /\ PollOK
    BY BoundAssumption DEF EntryOK, MemOK, PollOK
  <2>3. ExitOK /\ StoreOK
    BY Bounds DEF ExitOK, StoreOK, NoDump, PosStatus, RowStatus
  <2> QED
    BY <2>1, <2>2, <2>3 DEF TypeOK
<1>2. \A o \in OrderIds : Untouched(o)
  BY DEF Untouched
<1>3. RowInv /\ SignalInv
  BY <1>2 DEF RowInv, SignalInv, Untouched
<1>4. EntryInv
  BY <1>2, Orders, Apart DEF EntryInv
<1>5. RunInv /\ ExitInv /\ PollInv
  BY <1>2, Apart DEF RunInv, ExitInv, ExitOwn, PollInv, InExit, BeforeExits, BootPC
<1>6. PositionInv /\ ClosedInv
  BY Apart DEF PositionInv, ClosedInv, NoDump, InExit
<1> QED
  BY <1>1, <1>3, <1>4, <1>5, <1>6 DEF OrderOwnership

LEMMA OwnershipNext == OrderOwnership /\ [Next]_vars => OrderOwnership'
<1> SUFFICES ASSUME OrderOwnership, [Next]_vars PROVE OrderOwnership'
  OBVIOUS
<1>1. CASE UNCHANGED vars
  <2> USE <1>1 DEF vars, taskVars, memVars, exitVars, pollVars, orderVars, brokerVars, OrderOwnership
  <2>1. TypeOK'
    BY DEF TypeOK, PcOK, EntryOK, MemOK, ExitOK, PollOK, StoreOK
  <2>2. RowInv' /\ EntryInv' /\ RunInv' /\ SignalInv'
    BY DEF RowInv, EntryInv, RunInv, SignalInv, Untouched, Unsent, Unrecorded
  <2>3. ExitInv' /\ PollInv'
    BY DEF ExitInv, ExitOwn, PollInv, Untouched, Unsent, Unrecorded, ExitOrder
  <2>4. PositionInv' /\ ClosedInv'
    BY DEF PositionInv, ClosedInv, ExitAnswered
  <2> QED
    BY <2>1, <2>2, <2>3, <2>4
<1>2. ASSUME NEW t \in Tasks, EnsureReady(t)  PROVE OrderOwnership'
  BY <1>2, Boot
<1>3. ASSUME NEW d \in Deliveries, HandleGeneratedSignal(d) \/ EntryStep(d) \/ EntryDbFault(d)
      PROVE  OrderOwnership'
  BY <1>3, EntryControl, EntryFault, EntryInsert, EntrySubmit, EntryAnswered, EntryPosition DEF EntryStep
<1>4. ASSUME NEW c \in Closers,
             \/ HandleBuiltCandle(c) \/ CloseAllOpen(c) \/ EmergencyStop(c)
             \/ CloseStep(c) \/ ExitDbFault(c)
      PROVE  OrderOwnership'
  BY <1>4, ExitStart, ExitCollect, ExitPrices, ExitBegin, ExitRow, ExitSent, ExitRecorded, ExitClosed,
     ExitEnd, ExitFault DEF CloseStep
<1>5. ASSUME NEW r \in Pollers, ReconcileOrders(r) \/ PollStep(r) \/ PollDbFault(r)
      PROVE  OrderOwnership'
  BY <1>5, PollRead, PollWrite DEF PollStep
<1>6. ASSUME NEW o \in OrderIds, BrokerAdvances(o)  PROVE OrderOwnership'
  BY <1>6, Broker
<1>7. CASE PauseResume \/ SetKillSwitch \/ Restart
  BY <1>7, Operator, Restarted
<1> QED
  BY <1>1, <1>2, <1>3, <1>4, <1>5, <1>6, <1>7 DEF Next

\* Whatever the tasks interleave, and however often the process restarts, the
\* rows are owned as OrderOwnership says (_execute_signal_locked,
\* place_exit_order, reconcile_orders).
THEOREM Ownership == Spec => []OrderOwnership
  BY OwnershipInit, OwnershipNext, PTL DEF Spec

-----------------------------------------------------------------------------
(* Consequences.                                                           *)

\* The model is type correct for every set of tasks and every bound.
THEOREM TypeCorrect == Spec => []TypeOK
<1>1. OrderOwnership => TypeOK
  BY DEF OrderOwnership
<1> QED
  BY <1>1, Ownership, PTL

\* No poller, on however old a copy, records an outcome the broker does not
\* have (reconcile_orders).
THEOREM RowsTrackBroker == Spec => []RowTracksBroker
<1>1. OrderOwnership => RowTracksBroker
  BY DEF OrderOwnership, RowInv, RowTracksBroker, Terminal
<1> QED
  BY <1>1, Ownership, PTL

\* Every position document goes back to an acknowledged and recorded entry
\* order (_create_position_from_filled_order).
THEOREM PositionsRecorded == Spec => []PositionHasBrokerId
<1>1. OrderOwnership => PositionHasBrokerId
  BY DEF OrderOwnership, PositionInv, PositionHasBrokerId
<1> QED
  BY <1>1, Ownership, PTL

\* A position is CLOSED only after an answered exit order, whatever price
\* updates, sweeps and restarts overlap (_close_position).
THEOREM ClosedAnswered == Spec => []ClosedHasAnsweredExit
<1>1. OrderOwnership => ClosedHasAnsweredExit
  BY DEF OrderOwnership, ClosedInv, ExitAnswered, Answer, ClosedHasAnsweredExit
<1> QED
  BY <1>1, Ownership, PTL

\* With the index signal_broker_unique, any number of deliveries of one signal,
\* concurrent or after restarts, reach the broker at most once (insert_idempotent).
THEOREM OneDelivery == ASSUME SignalBrokerUnique PROVE Spec => []OneDeliveryReachesBroker
<1>1. ASSUME OrderOwnership PROVE OneDeliveryReachesBroker
  <2>1. \A o \in OrderIds : bstat[o] # "NONE" \/ ghosts[o] > 0 => row[o] # "ABSENT"
    BY <1>1 DEF OrderOwnership, RowInv, Untouched
  <2>2. \A o \in OrderIds : row[o] = "ABSENT" => bstat[o] = "NONE" /\ ghosts[o] = 0
    BY <1>1 DEF OrderOwnership, RowInv, Untouched
  <2>3. \A d \in Deliveries : EntryOrder(d)[1] = d
    BY DEF EntryOrder
  <2> QED
    BY <1>1, <2>1, <2>2, <2>3, Orders DEF OrderOwnership, SignalInv, Sent, OneDeliveryReachesBroker
<1>2. OrderOwnership => OneDeliveryReachesBroker
  BY <1>1
<1> QED
  BY <1>2, Ownership, PTL

-----------------------------------------------------------------------------
(* Refinement.                                                             *)

\* Initial states are initial states of the order lifecycle.
LEMMA RefinesInit == Init => Lifecycle!Init
  BY DEF Init, Lifecycle!Init

\* Every step is a step of one order, or leaves all orders alone.
LEMMA RefinesNext ==
  OrderOwnership /\ [Next]_vars => [Lifecycle!Next]_(Lifecycle!orderLifecycleVars)
<1> SUFFICES ASSUME OrderOwnership, [Next]_vars
             PROVE  Lifecycle!Next \/ UNCHANGED <<row, acked, bstat>>
  BY DEF Lifecycle!orderLifecycleVars
<1> USE DEF OrderOwnership, TypeOK
<1>1. ASSUME NEW o \in OrderIds, Untouched(o), InsertRow(o), UNCHANGED brokerVars
      PROVE  Lifecycle!Next
  BY <1>1 DEF Untouched, InsertRow, brokerVars, Lifecycle!Next, Lifecycle!Place
<1>2. ASSUME NEW o \in OrderIds, Unsent(o), BrokerAcks(o), UNCHANGED orderVars
      PROVE  Lifecycle!Next
  BY <1>2 DEF Unsent, BrokerAcks, orderVars, Lifecycle!Next, Lifecycle!BrokerTakes
<1>3. ASSUME NEW o \in OrderIds, Unrecorded(o), Transition(o, "OPEN"), UNCHANGED brokerVars
      PROVE  Lifecycle!Next
  BY <1>3 DEF Unrecorded, Transition, brokerVars, Lifecycle!Next, Lifecycle!Acknowledge
<1>4. ASSUME NEW o \in OrderIds, Unsent(o), Transition(o, "REJECTED"), UNCHANGED brokerVars
      PROVE  Lifecycle!Next
  <2>1. UNCHANGED acked
    BY <1>4 DEF Unsent, Transition, StoreOK
  <2> QED
    BY <1>4, <2>1 DEF Unsent, Transition, brokerVars, Lifecycle!Next, Lifecycle!Reject
<1>5. ASSUME NEW d \in Deliveries, EntryStep(d)
      PROVE  Lifecycle!Next \/ UNCHANGED <<row, acked, bstat>>
  <2>1. EntryOrder(d) \in OrderIds
    BY Orders
  <2>2. CASE InsertIdempotent(d)
    BY <1>1, <2>1, <2>2 DEF InsertIdempotent, EntryInv, BeforeInsert, orderVars, brokerVars
  <2>3. CASE SubmitToBroker(d)
    BY <1>2, <2>1, <2>3 DEF SubmitToBroker, EntryInv, BrokerRaises, orderVars
  <2>4. CASE EntryAccepted(d)
    BY <1>3, <2>1, <2>4 DEF EntryAccepted, EntryInv
  <2>5. CASE EntryRejected(d)
    BY <1>4, <2>1, <2>5 DEF EntryRejected, EntryInv
  <2> QED
    BY <1>5, <2>2, <2>3, <2>4, <2>5 DEF EntryStep, OpenFromSignal, BuildRiskContext, Gate, InsertPosition,
       AddPosition, orderVars, brokerVars
<1>6. ASSUME NEW c \in Closers, CloseStep(c)
      PROVE  Lifecycle!Next \/ UNCHANGED <<row, acked, bstat>>
  <2>1. pc[c] \in InExit => ExitOrder(c) \in OrderIds
    BY ExitOrderType
  <2>2. CASE ExitInsert(c)
    BY <1>1, <2>1, <2>2 DEF ExitInsert, ExitInv, ExitOwn, InExit, orderVars, brokerVars
  <2>3. CASE ExitSubmit(c)
    BY <1>2, <2>1, <2>3 DEF ExitSubmit, ExitInv, ExitOwn, InExit, BrokerRaises, orderVars
  <2>4. CASE ExitTransition(c)
    BY <1>3, <1>4, <2>1, <2>4 DEF ExitTransition, ExitInv, ExitOwn, InExit
  <2>5. CASE OnCandle(c) \/ CollectExits(c) \/ PersistPriceUpdates(c) \/ CloseBegin(c)
    BY <2>5 DEF OnCandle, CollectExits, PersistPriceUpdates, CloseBegin, orderVars, brokerVars
  <2>6. CASE ClosePosition(c) \/ RemovePosition(c) \/ FinishRun(c) \/ PauseForHalt(c)
    BY <2>6 DEF ClosePosition, RemovePosition, FinishRun, PauseForHalt, orderVars, brokerVars
  <2> QED
    BY <1>6, <2>2, <2>3, <2>4, <2>5, <2>6 DEF CloseStep
<1>7. ASSUME NEW r \in Pollers, WriteReconciled(r)
      PROVE  Lifecycle!Next \/ UNCHANGED <<row, acked, bstat>>
  <2>1. PICK o \in OrderIds, s \in OrderStatus :
          found[r] = <<o, s>> /\ acked[o] /\ bstat[o] \in BrokerTerminal /\ s = BrokerStatusToModel(bstat[o])
    BY <1>7 DEF WriteReconciled, PollInv
  <2>2. row' = [row EXCEPT ![o] = s] /\ UNCHANGED <<acked, bstat>>
    BY <1>7, <2>1 DEF WriteReconciled, StoreOK, brokerVars
  <2>3. CASE row[o] = "OPEN"
    BY <2>1, <2>2, <2>3 DEF Lifecycle!Next, Lifecycle!Settle, Lifecycle!BrokerTerminal,
       Lifecycle!BrokerStatusToModel, BrokerTerminal, BrokerStatusToModel
  <2>4. CASE row[o] # "OPEN"
    <3>1. row[o] = s
      BY <2>1, <2>4 DEF RowInv
    <3> QED
      BY <2>2, <3>1 DEF StoreOK
  <2> QED
    BY <2>3, <2>4
<1>8. ASSUME NEW o \in OrderIds, BrokerAdvances(o)
      PROVE  Lifecycle!Next
  BY <1>8 DEF BrokerAdvances, orderVars, Lifecycle!Next, Lifecycle!BrokerMoves, Lifecycle!BrokerTerminal,
     BrokerTerminal
<1>9. ASSUME NEW t \in Tasks, EnsureReady(t)
      PROVE  UNCHANGED <<row, acked, bstat>>
  BY <1>9 DEF EnsureReady, EnsureReadyRead, EnsureReadyHydrate, EnsureReadyTally, orderVars, brokerVars
<1>10. ASSUME NEW d \in Deliveries, HandleGeneratedSignal(d) \/ EntryDbFault(d)
       PROVE  UNCHANGED <<row, acked, bstat>>
  BY <1>10 DEF HandleGeneratedSignal, EntryDbFault, orderVars, brokerVars
<1>11. ASSUME NEW c \in Closers,
              HandleBuiltCandle(c) \/ CloseAllOpen(c) \/ EmergencyStop(c) \/ ExitDbFault(c)
       PROVE  UNCHANGED <<row, acked, bstat>>
  BY <1>11 DEF HandleBuiltCandle, CloseAllOpen, EmergencyStop, StartRun, ExitDbFault, orderVars, brokerVars
<1>12. ASSUME NEW r \in Pollers,
              \/ ReconcileOrders(r) \/ GetNonTerminal(r) \/ GetOrderStatus(r)
              \/ FinishPoll(r) \/ PollDbFault(r)
       PROVE  UNCHANGED <<row, acked, bstat>>
  BY <1>12 DEF ReconcileOrders, GetNonTerminal, GetOrderStatus, FinishPoll, PollDbFault, orderVars, brokerVars
<1>13. CASE PauseResume \/ SetKillSwitch \/ Restart \/ UNCHANGED vars
  BY <1>13 DEF PauseResume, SetKillSwitch, Restart, vars, orderVars, brokerVars
<1> QED
  BY <1>5, <1>6, <1>7, <1>8, <1>9, <1>10, <1>11, <1>12, <1>13 DEF Next, PollStep

\* The pipeline implements the order lifecycle: every behaviour of its tasks,
\* copies, faults and restarts is, for the orders, one of OrderLifecycle.
THEOREM Implementation == Spec => ImplementsLifecycle
  BY RefinesInit, RefinesNext, Ownership, PTL DEF Spec, ImplementsLifecycle, Lifecycle!Spec

\* A terminal status is final and a broker id is never lost, though whole
\* documents are replaced without a common lock (upsert_by_order_id).
THEOREM TerminalStays == Spec => TerminalIsFinal
<1>1. ASSUME OrderOwnership, [Next]_vars
      PROVE  [\A o \in OrderIds : /\ row[o] \in Terminal => row'[o] = row[o]
                                  /\ acked[o] => acked'[o]]_vars
  <2>1. Lifecycle!Next \/ UNCHANGED <<row, acked, bstat>>
    BY <1>1, RefinesNext DEF Lifecycle!orderLifecycleVars
  <2>2. ASSUME NEW o \in OrderIds, Lifecycle!Next
        PROVE  (row[o] \in Terminal => row'[o] = row[o]) /\ (acked[o] => acked'[o])
    BY <1>1, <2>2 DEF OrderOwnership, TypeOK, StoreOK, Terminal, Lifecycle!Next, Lifecycle!Place,
       Lifecycle!BrokerTakes, Lifecycle!BrokerMoves, Lifecycle!Acknowledge, Lifecycle!Reject,
       Lifecycle!Settle
  <2> QED
    BY <2>1, <2>2
<1> QED
  BY <1>1, Ownership, PTL DEF Spec, TerminalIsFinal

-----------------------------------------------------------------------------
(* The day's cap.  It holds from the moment the warm-up has loaded the day  *)
(* until the process dies: a task that hydrates late, while another already *)
(* trades, overwrites the tallies.                                          *)

\* The day is loaded and nobody loads it again.
Loaded == hydrated /\ \A t \in Tasks : pc[t] \notin BootPC \ {"idle"}

\* Who is between the statements that _mutation_lock protects holds it.
InEntry == {"context", "gate", "insert", "submit", "open", "reject"}
MutationLock ==
    /\ \A d \in Deliveries : pc[d] \in InEntry => lock = d
    /\ \A c \in Closers : pc[c] \in InExit => lock = c

\* The counter counts the recorded acknowledgements, and a delivery that has
\* passed the cap still finds room under it when it is counted.
Entered == {d \in Deliveries : acked[EntryOrder(d)]}
Room(d) ==
    pc[d] \in {"insert", "submit", "open"} \/ (pc[d] = "gate" /\ riskOk[d]) => trades < MaxTrades

CapInv ==
    /\ Loaded /\ MutationLock
    /\ trades = Cardinality(Entered) /\ trades <= MaxTrades
    /\ \A d \in Deliveries : Room(d)

\* A step of one task: the others stay where they are.
Moves(t) == \A u \in Tasks : u # t => pc'[u] = pc[u]

\* While the day is loaded nobody boots: a handler that starts is ready.
LEMMA EntryMoves ==
  ASSUME TypeOK, Loaded, MutationLock, NEW d \in Deliveries,
         HandleGeneratedSignal(d) \/ EntryStep(d) \/ EntryDbFault(d)
  PROVE  /\ Moves(d) /\ hydrated' = hydrated /\ pc'[d] \notin BootPC
         /\ lock' = lock \/ lock \in {Nobody, d}
         /\ pc'[d] \in InEntry => lock' = d
<1> USE DEF Loaded, Moves, Goto, BootPC, InEntry, MutationLock
<1>0. d \in Tasks /\ DOMAIN pc = Tasks
  BY Apart DEF TypeOK, PcOK
<1>1. CASE HandleGeneratedSignal(d) \/ OpenFromSignal(d)
  BY <1>0, <1>1 DEF HandleGeneratedSignal, Start, ReadyLabel, OpenFromSignal, memVars
<1>2. CASE BuildRiskContext(d) \/ Gate(d) \/ InsertIdempotent(d)
  BY <1>0, <1>2 DEF BuildRiskContext, Gate, InsertIdempotent, Refuse, memVars
<1>3. CASE SubmitToBroker(d) \/ EntryAccepted(d) \/ EntryRejected(d)
  BY <1>0, <1>3 DEF SubmitToBroker, EntryAccepted, EntryRejected, Refuse, memVars
<1>4. CASE InsertPosition(d) \/ AddPosition(d) \/ EntryDbFault(d)
  BY <1>0, <1>4 DEF InsertPosition, AddPosition, EntryDbFault, memVars
<1> QED
  BY <1>1, <1>2, <1>3, <1>4 DEF EntryStep

LEMMA ExitMoves ==
  ASSUME TypeOK, Loaded, MutationLock, NEW c \in Closers,
         \/ HandleBuiltCandle(c) \/ CloseAllOpen(c) \/ EmergencyStop(c)
         \/ CloseStep(c) \/ ExitDbFault(c)
  PROVE  /\ Moves(c) /\ hydrated' = hydrated /\ pc'[c] \notin BootPC \ {"idle"}
         /\ lock' = lock \/ lock \in {Nobody, c}
         /\ pc'[c] \in InExit => lock' = c
         /\ trades' = trades /\ riskOk' = riskOk
<1> USE DEF Loaded, Moves, Goto, BootPC, InExit, MutationLock, LeaveClose
<1>0. c \in Tasks /\ c \notin Deliveries /\ DOMAIN pc = Tasks
  BY Apart DEF TypeOK, PcOK
<1>1. CASE HandleBuiltCandle(c) \/ CloseAllOpen(c) \/ EmergencyStop(c)
  BY <1>0, <1>1 DEF HandleBuiltCandle, CloseAllOpen, EmergencyStop, StartRun, Start, ReadyLabel
<1>2. CASE OnCandle(c) \/ CollectExits(c) \/ PersistPriceUpdates(c) \/ CloseBegin(c)
  BY <1>0, <1>2 DEF OnCandle, CollectExits, PersistPriceUpdates, CloseBegin, memVars
<1>3. CASE ExitInsert(c) \/ ExitSubmit(c) \/ ExitTransition(c) \/ ClosePosition(c) \/ RemovePosition(c)
  BY <1>0, <1>3 DEF ExitInsert, ExitSubmit, ExitTransition, ClosePosition, RemovePosition, memVars, exitVars
<1>4. CASE FinishRun(c) \/ PauseForHalt(c) \/ ExitDbFault(c)
  BY <1>0, <1>4 DEF FinishRun, PauseForHalt, ExitDbFault, memVars
<1> QED
  BY <1>1, <1>2, <1>3, <1>4 DEF CloseStep

LEMMA PollMoves ==
  ASSUME TypeOK, Loaded, NEW r \in Pollers,
         ReconcileOrders(r) \/ PollStep(r) \/ PollDbFault(r)
  PROVE  /\ Moves(r) /\ pc'[r] \notin BootPC \ {"idle"}
         /\ UNCHANGED <<hydrated, lock, trades, riskOk, book, pos, exitVars>>
<1> USE DEF Loaded, Moves, Goto, BootPC
<1>0. r \in Tasks /\ r \notin Deliveries /\ r \notin Closers /\ DOMAIN pc = Tasks
  BY Apart DEF TypeOK, PcOK
<1> QED
  BY <1>0 DEF PollStep, ReconcileOrders, Start, ReadyLabel, GetNonTerminal, GetOrderStatus,
     WriteReconciled, FinishPoll, PollDbFault, memVars, exitVars

\* One task's step keeps the lock's discipline.
LEMMA LockFrame ==
  ASSUME Loaded, MutationLock, NEW t \in Tasks, Moves(t), hydrated' = hydrated,
         pc'[t] \notin BootPC \ {"idle"}, lock' = lock \/ lock \in {Nobody, t},
         t \in Deliveries /\ pc'[t] \in InEntry => lock' = t,
         t \in Closers /\ pc'[t] \in InExit => lock' = t
  PROVE  Loaded' /\ MutationLock'
<1>1. Loaded'
  BY DEF Loaded, Moves
<1>2. ASSUME NEW d \in Deliveries, pc'[d] \in InEntry PROVE lock' = d
  BY <1>2, Apart DEF MutationLock, Moves
<1>3. ASSUME NEW c \in Closers, pc'[c] \in InExit PROVE lock' = c
  BY <1>3, Apart DEF MutationLock, Moves
<1> QED
  BY <1>1, <1>2, <1>3 DEF MutationLock

\* The recorded acknowledgements of entries change only where trades does.
LEMMA OthersDoNotEnter ==
  ASSUME OrderOwnership, [Next]_vars, \A d \in Deliveries : ~EntryAccepted(d)
  PROVE  \A d \in Deliveries : acked'[EntryOrder(d)] = acked[EntryOrder(d)]
<1> USE DEF OrderOwnership, TypeOK, StoreOK
<1>1. CASE UNCHANGED acked
  BY <1>1
<1>2. ASSUME NEW d \in Deliveries, EntryRejected(d)
      PROVE  \A e \in Deliveries : acked'[EntryOrder(e)] = acked[EntryOrder(e)]
  <2>1. ~acked[EntryOrder(d)] /\ acked' = [acked EXCEPT ![EntryOrder(d)] = FALSE]
    BY <1>2 DEF EntryRejected, Transition, EntryInv, Unsent
  <2> QED
    BY <2>1, Orders
<1>3. ASSUME NEW c \in Closers, ExitTransition(c)
      PROVE  \A e \in Deliveries : acked'[EntryOrder(e)] = acked[EntryOrder(e)]
  <2>1. pc[c] \in {"exitOpen", "exitReject"}
        /\ \E b : acked' = [acked EXCEPT ![ExitOrder(c)] = b]
    BY <1>3 DEF ExitTransition, Transition
  <2>2. cur[c] \in Deliveries /\ run[c] \in 0..MaxRuns /\ run[c] # 0
    BY <2>1, Bounds DEF ExitInv, ExitOwn, RunInv, InExit, ExitOK
  <2>3. \A e \in Deliveries : EntryOrder(e) # ExitOrder(c)
    BY <2>2, Orders DEF ExitOrder
  <2> QED
    BY <2>1, <2>3, Orders
<1>4. ASSUME NEW r \in Pollers, WriteReconciled(r)
      PROVE  \A e \in Deliveries : acked'[EntryOrder(e)] = acked[EntryOrder(e)]
  <2>1. acked[found[r][1]] /\ acked' = [acked EXCEPT ![found[r][1]] = TRUE]
    BY <1>4 DEF WriteReconciled, PollInv
  <2> QED
    BY <2>1, Orders
<1>5. \/ UNCHANGED acked
      \/ \E d \in Deliveries : EntryRejected(d) \/ EntryAccepted(d)
      \/ \E c \in Closers : ExitTransition(c)
      \/ \E r \in Pollers : WriteReconciled(r)
  <2>1. CASE UNCHANGED vars \/ PauseResume \/ SetKillSwitch \/ Restart
    BY <2>1 DEF vars, PauseResume, SetKillSwitch, Restart, orderVars
  <2>2. ASSUME NEW t \in Tasks, EnsureReady(t) PROVE UNCHANGED acked
    BY <2>2 DEF EnsureReady, EnsureReadyRead, EnsureReadyHydrate, EnsureReadyTally, orderVars
  <2>3. ASSUME NEW d \in Deliveries, HandleGeneratedSignal(d) \/ EntryStep(d) \/ EntryDbFault(d)
        PROVE  UNCHANGED acked \/ EntryRejected(d) \/ EntryAccepted(d)
    BY <2>3 DEF HandleGeneratedSignal, EntryStep, EntryDbFault, OpenFromSignal, BuildRiskContext, Gate,
       InsertIdempotent, InsertRow, SubmitToBroker, InsertPosition, AddPosition, orderVars
  <2>4. ASSUME NEW c \in Closers,
               \/ HandleBuiltCandle(c) \/ CloseAllOpen(c) \/ EmergencyStop(c)
               \/ CloseStep(c) \/ ExitDbFault(c)
        PROVE  UNCHANGED acked \/ ExitTransition(c)
    BY <2>4 DEF HandleBuiltCandle, CloseAllOpen, EmergencyStop, StartRun, CloseStep, ExitDbFault, OnCandle,
       CollectExits, PersistPriceUpdates, CloseBegin, ExitInsert, InsertRow, ExitSubmit, ClosePosition,
       RemovePosition, FinishRun, PauseForHalt, orderVars
  <2>5. ASSUME NEW r \in Pollers, ReconcileOrders(r) \/ PollStep(r) \/ PollDbFault(r)
        PROVE  UNCHANGED acked \/ WriteReconciled(r)
    BY <2>5 DEF ReconcileOrders, PollStep, PollDbFault, GetNonTerminal, GetOrderStatus, FinishPoll, orderVars
  <2>6. ASSUME NEW o \in OrderIds, BrokerAdvances(o) PROVE UNCHANGED acked
    BY <2>6 DEF BrokerAdvances, orderVars
  <2> QED
    BY <2>1, <2>2, <2>3, <2>4, <2>5, <2>6 DEF Next
<1> QED
  BY <1>1, <1>2, <1>3, <1>4, <1>5

\* A step that counts nothing and lets nobody past the cap keeps it.
LEMMA CapFrame ==
  ASSUME OrderOwnership, CapInv, Loaded', MutationLock', trades' = trades,
         \A d \in Deliveries : acked'[EntryOrder(d)] = acked[EntryOrder(d)],
         \A d \in Deliveries : Room(d) => Room(d)'
  PROVE  CapInv'
<1>1. Entered' = Entered
  BY DEF Entered
<1> QED
  BY <1>1 DEF CapInv

\* The steps of an entry handler: only the lock's holder is past the cap.
LEMMA EntryKeepsCap ==
  ASSUME OrderOwnership, CapInv, NEW d \in Deliveries,
         HandleGeneratedSignal(d) \/ EntryStep(d) \/ EntryDbFault(d), [Next]_vars
  PROVE  CapInv'
<1>1. /\ Moves(d) /\ hydrated' = hydrated /\ pc'[d] \notin BootPC
      /\ lock' = lock \/ lock \in {Nobody, d}
      /\ pc'[d] \in InEntry => lock' = d
  BY EntryMoves DEF CapInv, OrderOwnership
<1>2. Loaded' /\ MutationLock'
  BY <1>1, LockFrame, Apart DEF CapInv
<1>3. \A e \in Deliveries : e # d => pc'[e] = pc[e]
  BY <1>1, Apart DEF Moves
<1>4. CASE EntryAccepted(d)
  <2>1. /\ pc[d] = "open" /\ trades' = trades + 1 /\ pc'[d] = "position"
        /\ acked' = [acked EXCEPT ![EntryOrder(d)] = TRUE]
    BY <1>4, Apart DEF EntryAccepted, Transition, Goto, OrderOwnership, TypeOK, PcOK
  <2>2. ~acked[EntryOrder(d)]
    BY <2>1 DEF OrderOwnership, EntryInv, Unrecorded
  <2>3. Entered' = Entered \cup {d} /\ d \notin Entered
    BY <2>1, <2>2, Orders DEF Entered, OrderOwnership, TypeOK, StoreOK
  <2>4. IsFiniteSet(Entered)
    BY TasksAssumption, FS_Subset DEF Entered
  <2>5. Cardinality(Entered \cup {d}) = Cardinality(Entered) + 1
    BY <2>3, <2>4, FS_AddElement
  <2>6. trades' = Cardinality(Entered)'
    BY <2>1, <2>3, <2>5 DEF CapInv
  <2>7. trades < MaxTrades
    BY <2>1 DEF CapInv, Room
  <2>8. trades' <= MaxTrades
    BY <2>1, <2>7, BoundAssumption DEF OrderOwnership, TypeOK, MemOK
  <2>9. lock = d
    BY <2>1 DEF CapInv, MutationLock, InEntry
  <2>10. \A e \in Deliveries : e # d => pc[e] \notin InEntry
    BY <2>9 DEF CapInv, MutationLock
  <2>11. \A e \in Deliveries : Room(e)'
    BY <1>3, <2>1, <2>10 DEF Room, InEntry
  <2> QED
    BY <1>2, <2>6, <2>8, <2>11 DEF CapInv
<1>5. CASE ~EntryAccepted(d)
  <2>1. \A e \in Deliveries : ~EntryAccepted(e)
    <3>1. SUFFICES ASSUME NEW e \in Deliveries, EntryAccepted(e), e # d PROVE FALSE
      BY <1>5
    <3>2. pc[e] = "open" /\ pc'[e] = "position"
      BY <3>1, Apart DEF EntryAccepted, Goto, OrderOwnership, TypeOK, PcOK
    <3> QED
      BY <1>3, <3>1, <3>2
  <2>2. \A e \in Deliveries : acked'[EntryOrder(e)] = acked[EntryOrder(e)]
    BY <2>1, OthersDoNotEnter
  <2>3. /\ trades' = trades
        /\ \A e \in Deliveries : e # d => riskOk'[e] = riskOk[e]
        /\ Room(d) => Room(d)'
    <3> USE DEF Goto, Room, BootPC
    <3>0. d \in Tasks /\ DOMAIN pc = Tasks /\ DOMAIN riskOk = Deliveries
      BY Apart DEF OrderOwnership, TypeOK, PcOK, EntryOK
    <3>1. CASE HandleGeneratedSignal(d) \/ OpenFromSignal(d)
      BY <3>0, <3>1 DEF HandleGeneratedSignal, Start, ReadyLabel, OpenFromSignal, memVars
    <3>2. CASE BuildRiskContext(d)
      <4>1. \/ pc'[d] = "done" /\ UNCHANGED riskOk
            \/ \E healthy, money \in BOOLEAN :
                 pc'[d] = "gate" /\ riskOk' = [riskOk EXCEPT ![d] = RiskAccepts(d, healthy, money)]
        BY <3>0, <3>2 DEF BuildRiskContext, Refuse
      <4>2. trades' = trades
        BY <3>2 DEF BuildRiskContext, memVars
      <4> QED
        BY <3>0, <4>1, <4>2 DEF RiskAccepts
    <3>3. CASE Gate(d) \/ InsertIdempotent(d) \/ SubmitToBroker(d)
      BY <3>0, <3>3 DEF Gate, InsertIdempotent, Refuse, SubmitToBroker, memVars
    <3>4. CASE EntryRejected(d) \/ InsertPosition(d) \/ AddPosition(d) \/ EntryDbFault(d)
      BY <3>0, <3>4 DEF EntryRejected, Refuse, InsertPosition, AddPosition, EntryDbFault, memVars
    <3> QED
      BY <1>5, <3>1, <3>2, <3>3, <3>4 DEF EntryStep
  <2>4. \A e \in Deliveries : Room(e) => Room(e)'
    BY <1>3, <2>3 DEF Room
  <2> QED
    BY <1>2, <2>2, <2>3, <2>4, CapFrame
<1> QED
  BY <1>4, <1>5

\* A step of anybody else counts nothing.
LEMMA OthersKeepCap ==
  ASSUME OrderOwnership, CapInv, [Next]_vars, Loaded', MutationLock', trades' = trades, riskOk' = riskOk,
         \A d \in Deliveries : pc'[d] = pc[d]
  PROVE  CapInv'
<1>1. \A d \in Deliveries : ~EntryAccepted(d)
  BY Apart DEF EntryAccepted, Goto, OrderOwnership, TypeOK, PcOK
<1>2. \A d \in Deliveries : acked'[EntryOrder(d)] = acked[EntryOrder(d)]
  BY <1>1, OthersDoNotEnter
<1> QED
  BY <1>2, CapFrame DEF Room

\* Outside the tasks: broker, operator and an idle moment.
LEMMA BystandersMoveNobody ==
  ASSUME UNCHANGED vars \/ PauseResume \/ SetKillSwitch \/ \E o \in OrderIds : BrokerAdvances(o)
  PROVE  UNCHANGED <<pc, riskOk, lock, hydrated, book, trades, pos, exitVars>>
  BY DEF vars, PauseResume, SetKillSwitch, BrokerAdvances, taskVars, memVars

LEMMA CapNext ==
  ASSUME ~Restart, OrderOwnership, CapInv, [Next]_vars
  PROVE  CapInv'
<1>2. \A t \in Tasks : ~EnsureReady(t)
  BY DEF EnsureReady, EnsureReadyRead, EnsureReadyHydrate, EnsureReadyTally, CapInv, Loaded, BootPC
<1>3. CASE \E d \in Deliveries : HandleGeneratedSignal(d) \/ EntryStep(d) \/ EntryDbFault(d)
  BY <1>3, EntryKeepsCap
<1>4. ASSUME NEW c \in Closers,
             \/ HandleBuiltCandle(c) \/ CloseAllOpen(c) \/ EmergencyStop(c)
             \/ CloseStep(c) \/ ExitDbFault(c)
      PROVE  CapInv'
  <2>1. /\ Moves(c) /\ hydrated' = hydrated /\ pc'[c] \notin BootPC \ {"idle"}
        /\ lock' = lock \/ lock \in {Nobody, c}
        /\ pc'[c] \in InExit => lock' = c
        /\ trades' = trades /\ riskOk' = riskOk
    BY <1>4, ExitMoves DEF CapInv, OrderOwnership
  <2>2. Loaded' /\ MutationLock'
    BY <2>1, LockFrame, Apart DEF CapInv
  <2>3. \A d \in Deliveries : pc'[d] = pc[d]
    BY <2>1, Apart DEF Moves
  <2> QED
    BY <2>1, <2>2, <2>3, OthersKeepCap
<1>5. ASSUME NEW r \in Pollers, ReconcileOrders(r) \/ PollStep(r) \/ PollDbFault(r)
      PROVE  CapInv'
  <2>1. /\ Moves(r) /\ pc'[r] \notin BootPC \ {"idle"}
        /\ UNCHANGED <<hydrated, lock, trades, riskOk, book, pos, exitVars>>
    BY <1>5, PollMoves DEF CapInv, OrderOwnership
  <2>2. Loaded' /\ MutationLock'
    BY <2>1, LockFrame, Apart DEF CapInv
  <2>3. \A d \in Deliveries : pc'[d] = pc[d]
    BY <2>1, Apart DEF Moves
  <2> QED
    BY <2>1, <2>2, <2>3, OthersKeepCap
<1>6. CASE UNCHANGED vars \/ PauseResume \/ SetKillSwitch \/ \E o \in OrderIds : BrokerAdvances(o)
  <2>1. UNCHANGED <<pc, riskOk, lock, hydrated, book, trades, pos, exitVars>>
    BY <1>6, BystandersMoveNobody
  <2>2. Loaded' /\ MutationLock'
    BY <2>1 DEF CapInv, Loaded, MutationLock
  <2> QED
    BY <2>1, <2>2, OthersKeepCap
<1> QED
  BY <1>2, <1>3, <1>4, <1>5, <1>6 DEF Next

LEMMA CapInit == ASSUME Warm PROVE Init => CapInv
<1> SUFFICES ASSUME Init PROVE CapInv
  OBVIOUS
<1>1. Loaded /\ MutationLock
  BY Apart DEF Init, Loaded, MutationLock, BootPC, InEntry, InExit
<1>2. Entered = {}
  BY Orders DEF Init, Entered
<1>3. trades = 0 /\ Cardinality({}) = 0 /\ MaxTrades \in Nat
  BY FS_EmptySet, BoundAssumption DEF Init
<1>4. \A d \in Deliveries : Room(d)
  BY Apart DEF Init, Room
<1> QED
  BY <1>1, <1>2, <1>3, <1>4 DEF CapInv

\* Restarts are counted; nothing else is.
LEMMA CrashesGrow ==
  ASSUME TypeOK, [Next]_vars
  PROVE  IF Restart THEN crashes' # 0 ELSE crashes' = crashes
<1>1. Restart => crashes' # 0
  BY DEF Restart, TypeOK, StoreOK
<1>2. CASE UNCHANGED vars \/ PauseResume \/ SetKillSwitch
  BY <1>1, <1>2 DEF vars, PauseResume, SetKillSwitch
<1>3. ASSUME NEW t \in Tasks, EnsureReady(t) PROVE crashes' = crashes
  BY <1>3 DEF EnsureReady, EnsureReadyRead, EnsureReadyHydrate, EnsureReadyTally
<1>4. ASSUME NEW d \in Deliveries, HandleGeneratedSignal(d) \/ EntryStep(d) \/ EntryDbFault(d)
      PROVE  crashes' = crashes
  BY <1>4 DEF HandleGeneratedSignal, EntryStep, EntryDbFault, OpenFromSignal, BuildRiskContext, Gate,
     InsertIdempotent, SubmitToBroker, EntryAccepted, EntryRejected, InsertPosition, AddPosition
<1>5. ASSUME NEW c \in Closers,
             \/ HandleBuiltCandle(c) \/ CloseAllOpen(c) \/ EmergencyStop(c)
             \/ CloseStep(c) \/ ExitDbFault(c)
      PROVE  crashes' = crashes
  BY <1>5 DEF HandleBuiltCandle, CloseAllOpen, EmergencyStop, StartRun, CloseStep, ExitDbFault, OnCandle,
     CollectExits, PersistPriceUpdates, CloseBegin, ExitInsert, ExitSubmit, ExitTransition, ClosePosition,
     RemovePosition, FinishRun, PauseForHalt
<1>6. ASSUME NEW r \in Pollers, ReconcileOrders(r) \/ PollStep(r) \/ PollDbFault(r)
      PROVE  crashes' = crashes
  BY <1>6 DEF ReconcileOrders, PollStep, PollDbFault, GetNonTerminal, GetOrderStatus, WriteReconciled, FinishPoll
<1>7. ASSUME NEW o \in OrderIds, BrokerAdvances(o) PROVE crashes' = crashes
  BY <1>7 DEF BrokerAdvances
<1> QED
  BY <1>1, <1>2, <1>3, <1>4, <1>5, <1>6, <1>7 DEF Next

\* The counter of the day is right and the lock closes the gap between its test
\* and its increment: any number of deliveries, sweeps, candles, pollers and
\* failed database calls (_execute_signal_locked, LiveRiskManager.evaluate).
THEOREM CapInvariant == ASSUME Warm PROVE Spec => [](crashes = 0 => CapInv)
<1>1. Init => CapInv
  BY CapInit
<1>2. OrderOwnership /\ (crashes = 0 => CapInv) /\ [Next]_vars => (crashes = 0 => CapInv)'
  BY CrashesGrow, CapNext DEF OrderOwnership
<1> QED
  BY <1>1, <1>2, Ownership, PTL DEF Spec

\* "Hard cap on the number of live entries per trading day", between the
\* warm-up and the end of the process (LIVE_EXEC_MAX_TRADES_PER_DAY).
THEOREM TradesAreCapped == ASSUME Warm PROVE Spec => []TradeCap
<1>1. (crashes = 0 => CapInv) => TradeCap
  BY DEF CapInv, TradeCap, Entered
<1> QED
  BY <1>1, CapInvariant, PTL

-----------------------------------------------------------------------------
(* The book.                                                                *)

\* What a step may do to the book's promise.
WatchKept == \A d \in Deliveries : Watched(d) => Watched(d)' \/ LateBoot(d) \/ Reopened(d)

\* A step of one task that leaves book and positions alone, wherever it goes but
\* to the places where they change.
WatchFrameStep(t) ==
    /\ Moves(t) /\ UNCHANGED <<hydrated, book, pos>>
    /\ pc[t] # "book" /\ pc'[t] \notin {"hydrate", "tally", "book", "unbook"}
    /\ pc[t] = "done" => pc'[t] = "done"
    /\ ~hydrated => pc'[t] \in BootPC \cup {"done"}
    /\ \A u \in Tasks : snap'[u] \subseteq snap[u] /\ (u # t => snap'[u] = snap[u])
    /\ \A c \in Closers :
          /\ c # t => todo'[c] = todo[c] /\ cur'[c] = cur[c]
          /\ todo'[c] \subseteq todo[c] \cup book
          /\ pc'[c] \in InExit => (pc[c] \in InExit /\ cur'[c] = cur[c]) \/ cur'[c] \in todo[c]
          /\ \A d \in Deliveries : dump'[c][d] # "ABSENT" => dump[c][d] # "ABSENT" \/ d \in book

\* Such a step keeps the invariant and unwatches nothing.
LEMMA WatchFrame ==
  ASSUME WatchInv, NEW t \in Tasks, WatchFrameStep(t)
  PROVE  WatchInv' /\ WatchKept
<1> USE DEF WatchInv, WatchFrameStep
<1>1. \A u \in Tasks : u # t => pc'[u] = pc[u]
  BY DEF Moves
<1>2. BootInv'
  <2>1. OpenPositions' = OpenPositions
    BY DEF OpenPositions
  <2> QED
    BY <1>1, <2>1 DEF BootInv
<1>3. \A d \in Deliveries : /\ pc[d] \in {"book", "done"} => pc'[d] \in {"book", "done"}
                            /\ pc'[d] = "book" <=> pc[d] = "book"
  BY <1>1, Apart
<1>4. PlacedInv'
  <2>1. \A d \in Deliveries : /\ pos'[d] # "ABSENT" => pc'[d] \in {"book", "done"}
                              /\ pc'[d] = "book" => pos'[d] # "ABSENT"
    BY <1>3 DEF PlacedInv
  <2>2. \A u \in Tasks : \A d \in snap'[u] : pos'[d] # "ABSENT"
    BY DEF PlacedInv
  <2>3. ASSUME NEW c \in Closers
        PROVE  /\ \A d \in todo'[c] : pos'[d] # "ABSENT"
               /\ pc'[c] \in InExit => pos'[cur'[c]] # "ABSENT"
               /\ \A d \in Deliveries : dump'[c][d] # "ABSENT" => pos'[d] # "ABSENT"
    BY DEF PlacedInv
  <2> QED
    BY <2>1, <2>2, <2>3 DEF PlacedInv
<1>5. ASSUME NEW d \in Deliveries, Watched(d) PROVE Watched(d)'
  <2>1. \A c \in Closers : pc'[c] = "unbook" => pc[c] = "unbook" /\ cur'[c] = cur[c]
    BY <1>1, Apart
  <2> QED
    BY <1>3, <1>5, <2>1 DEF Watched
<1> QED
  BY <1>2, <1>4, <1>5 DEF WatchKept

\* The steps of an entry handler before it inserts its position.
LEMMA EntryWatch ==
  ASSUME OrderOwnership, WatchInv, NEW d \in Deliveries,
         HandleGeneratedSignal(d) \/ EntryStep(d) \/ EntryDbFault(d),
         ~InsertPosition(d), ~AddPosition(d)
  PROVE  WatchInv' /\ WatchKept
<1> USE DEF Goto, Moves, BootPC
<1>0. /\ d \in Tasks /\ d \notin Closers /\ DOMAIN pc = Tasks /\ snap \in [Tasks -> SUBSET Deliveries]
      /\ ~hydrated => pc[d] \in BootPC \cup {"done"}
  BY Apart DEF OrderOwnership, TypeOK, PcOK, EntryOK, WatchInv, BootInv
<1>1. /\ Moves(d) /\ UNCHANGED <<hydrated, book, pos, exitVars>>
      /\ pc[d] \notin {"book", "done"} /\ pc'[d] \notin {"hydrate", "tally", "book", "unbook"}
      /\ ~hydrated => pc'[d] \in BootPC \cup {"done"}
      /\ snap' = snap \/ snap' = [snap EXCEPT ![d] = {}]
  <2>1. CASE HandleGeneratedSignal(d) \/ OpenFromSignal(d)
    BY <1>0, <2>1 DEF HandleGeneratedSignal, Start, ReadyLabel, OpenFromSignal, memVars
  <2>2. CASE BuildRiskContext(d) \/ Gate(d) \/ InsertIdempotent(d)
    BY <1>0, <2>2 DEF BuildRiskContext, Gate, InsertIdempotent, Refuse, memVars
  <2>3. CASE SubmitToBroker(d) \/ EntryAccepted(d) \/ EntryRejected(d) \/ EntryDbFault(d)
    BY <1>0, <2>3 DEF SubmitToBroker, EntryAccepted, EntryRejected, EntryDbFault, Refuse, memVars
  <2> QED
    BY <2>1, <2>2, <2>3 DEF EntryStep
<1>2. \A c \in Closers : pc'[c] = pc[c]
  BY <1>1, Apart
<1>3. WatchFrameStep(d)
  BY <1>0, <1>1, <1>2 DEF WatchFrameStep, exitVars
<1> QED
  BY <1>0, <1>3, WatchFrame

\* Those of an exit handler that write no position and leave the book.
LEMMA ExitWatch ==
  ASSUME OrderOwnership, WatchInv, NEW c \in Closers,
         \/ HandleBuiltCandle(c) \/ CloseAllOpen(c) \/ EmergencyStop(c)
         \/ CloseStep(c) \/ ExitDbFault(c),
         ~PersistPriceUpdates(c), ~ClosePosition(c), ~RemovePosition(c)
  PROVE  WatchInv' /\ WatchKept
<1> USE DEF Goto, Moves, BootPC, LeaveClose, InExit
<1>0. /\ c \in Tasks /\ c \notin Deliveries /\ DOMAIN pc = Tasks /\ snap \in [Tasks -> SUBSET Deliveries]
      /\ DOMAIN cur = Closers /\ todo \in [Closers -> SUBSET Deliveries]
      /\ dump \in [Closers -> [Deliveries -> PosStatus]]
      /\ ~hydrated => pc[c] \in BootPC \cup {"done"}
      /\ pc[c] \notin {"book", "done"}
  BY Apart DEF OrderOwnership, TypeOK, PcOK, EntryOK, ExitOK, WatchInv, BootInv, ClosePC
<1>1. /\ Moves(c) /\ UNCHANGED <<hydrated, book, pos>>
      /\ pc'[c] \notin {"hydrate", "tally", "book", "unbook"}
      /\ ~hydrated => pc'[c] \in BootPC \cup {"done"}
      /\ snap' = snap \/ snap' = [snap EXCEPT ![c] = {}]
      /\ todo'[c] \subseteq todo[c] \cup book
      /\ pc'[c] \in InExit => (pc[c] \in InExit /\ cur'[c] = cur[c]) \/ cur'[c] \in todo[c]
      /\ \A e \in Closers : e # c => todo'[e] = todo[e] /\ cur'[e] = cur[e] /\ dump'[e] = dump[e]
      /\ \A d \in Deliveries : dump'[c][d] # "ABSENT" => dump[c][d] # "ABSENT" \/ d \in book
  <2>1. CASE HandleBuiltCandle(c) \/ CloseAllOpen(c) \/ EmergencyStop(c)
    BY <1>0, <2>1 DEF HandleBuiltCandle, CloseAllOpen, EmergencyStop, StartRun, Start, ReadyLabel
  <2>2. CASE OnCandle(c)
    BY <1>0, <2>2 DEF OnCandle, DumpOf, memVars
  <2>3. CASE CollectExits(c) \/ CloseBegin(c)
    BY <1>0, <2>3 DEF CollectExits, CloseBegin, memVars
  <2>4. CASE ExitInsert(c) \/ ExitSubmit(c)
    BY <1>0, <2>4 DEF ExitInsert, ExitSubmit, memVars
  <2>5. CASE ExitTransition(c)
    BY <1>0, <2>5 DEF ExitTransition, exitVars
  <2>6. CASE FinishRun(c) \/ PauseForHalt(c)
    BY <1>0, <2>6 DEF FinishRun, PauseForHalt, memVars, exitVars
  <2>7. CASE ExitDbFault(c)
    BY <1>0, <2>7 DEF ExitDbFault, NoDump, memVars
  <2> QED
    BY <2>1, <2>2, <2>3, <2>4, <2>5, <2>6, <2>7 DEF CloseStep
<1>2. WatchFrameStep(c)
  <2>1. ASSUME NEW e \in Closers, e # c
        PROVE  pc'[e] = pc[e] /\ todo'[e] = todo[e] /\ cur'[e] = cur[e] /\ dump'[e] = dump[e]
    BY <1>1, <2>1 DEF Tasks
  <2>2. \A u \in Tasks : snap'[u] \subseteq snap[u] /\ (u # c => snap'[u] = snap[u])
    BY <1>0, <1>1
  <2> QED
    BY <1>0, <1>1, <2>1, <2>2 DEF WatchFrameStep
<1> QED
  BY <1>0, <1>2, WatchFrame

\* A poller touches neither.
LEMMA PollWatch ==
  ASSUME OrderOwnership, WatchInv, NEW r \in Pollers,
         ReconcileOrders(r) \/ PollStep(r) \/ PollDbFault(r)
  PROVE  WatchInv' /\ WatchKept
<1> USE DEF Goto, Moves, BootPC
<1>0. /\ r \in Tasks /\ r \notin Deliveries /\ r \notin Closers /\ DOMAIN pc = Tasks
      /\ snap \in [Tasks -> SUBSET Deliveries]
      /\ ~hydrated => pc[r] \in BootPC \cup {"done"}
      /\ pc[r] \notin {"book", "done"}
  BY Apart DEF OrderOwnership, TypeOK, PcOK, EntryOK, WatchInv, BootInv, PollPC
<1>1. /\ Moves(r) /\ UNCHANGED <<hydrated, book, pos, exitVars>>
      /\ pc'[r] \notin {"hydrate", "tally", "book", "unbook"}
      /\ ~hydrated => pc'[r] \in BootPC \cup {"done"}
      /\ snap' = snap \/ snap' = [snap EXCEPT ![r] = {}]
  BY <1>0 DEF PollStep, ReconcileOrders, Start, ReadyLabel, GetNonTerminal, GetOrderStatus,
     WriteReconciled, FinishPoll, PollDbFault, memVars
<1>2. \A c \in Closers : pc'[c] = pc[c]
  BY <1>1, Apart
<1>3. WatchFrameStep(r)
  BY <1>0, <1>1, <1>2 DEF WatchFrameStep, exitVars
<1> QED
  BY <1>0, <1>3, WatchFrame

\* The first boot to end makes the book that of the database; a later one
\* unwatches only what was not OPEN when it read.
LEMMA BootWatch ==
  ASSUME OrderOwnership, WatchInv, NEW t \in Tasks, EnsureReady(t)
  PROVE  WatchInv' /\ WatchKept
<1> USE DEF Goto, OpenPositions
<1>0. /\ DOMAIN pc = Tasks /\ DOMAIN snap = Tasks /\ UNCHANGED <<pos, exitVars>>
      /\ pc'[t] \notin {"book", "unbook", "done"} \cup InExit
      /\ \A u \in Tasks : u # t => pc'[u] = pc[u] /\ snap'[u] = snap[u]
  BY DEF EnsureReady, EnsureReadyRead, EnsureReadyHydrate, EnsureReadyTally, ReadyLabel, OrderOwnership,
     TypeOK, PcOK, EntryOK, InExit
<1>1. pc[t] \in {"boot", "hydrate", "tally"}
  BY DEF EnsureReady, EnsureReadyRead, EnsureReadyHydrate, EnsureReadyTally
<1>2. \A d \in Deliveries : (pc'[d] = "book" <=> pc[d] = "book") /\ (pc'[d] = "done" <=> pc[d] = "done")
  BY <1>0, <1>1, Apart
<1>3. \A c \in Closers : /\ pc'[c] \in InExit => pc[c] \in InExit
                         /\ pc'[c] = "unbook" => pc[c] = "unbook"
  BY <1>0, Apart
<1>4. ASSUME \A d \in book' : pos[d] # "ABSENT", \A d \in snap'[t] : pos[d] # "ABSENT"
      PROVE  PlacedInv'
  <2>1. \A u \in Tasks : \A d \in snap'[u] : pos[d] # "ABSENT"
    BY <1>0, <1>4 DEF WatchInv, PlacedInv
  <2> QED
    BY <1>0, <1>2, <1>3, <1>4, <2>1 DEF WatchInv, PlacedInv, exitVars
<1>5. CASE EnsureReadyRead(t)
  <2>1. /\ snap'[t] = OpenPositions /\ pc'[t] = "hydrate" /\ UNCHANGED <<hydrated, book>>
    BY <1>0, <1>5 DEF EnsureReadyRead, memVars
  <2>2. BootInv'
    BY <1>0, <2>1 DEF WatchInv, BootInv, BootPC
  <2>3. PlacedInv'
    BY <1>4, <2>1 DEF WatchInv, PlacedInv
  <2>4. \A d \in Deliveries : Watched(d) => Watched(d)'
    BY <1>0, <1>2, <1>3, <2>1 DEF Watched, exitVars
  <2> QED
    BY <2>2, <2>3, <2>4 DEF WatchInv, WatchKept
<1>6. CASE EnsureReadyHydrate(t)
  <2>1. /\ pc[t] = "hydrate" /\ pc'[t] = "tally" /\ book' = snap[t] /\ snap' = snap /\ hydrated' = hydrated
    BY <1>0, <1>6 DEF EnsureReadyHydrate
  <2>2. BootInv'
    BY <1>0, <2>1 DEF WatchInv, BootInv, BootPC
  <2>3. PlacedInv'
    BY <1>4, <2>1 DEF WatchInv, PlacedInv
  <2>4. \A d \in Deliveries : Watched(d) => Watched(d)' \/ LateBoot(d)
    BY <1>0, <1>2, <1>3, <2>1 DEF Watched, LateBoot, exitVars
  <2> QED
    BY <2>2, <2>3, <2>4 DEF WatchInv, WatchKept
<1>7. CASE EnsureReadyTally(t)
  <2>1. /\ pc[t] = "tally" /\ hydrated' = TRUE /\ book' = book /\ snap'[t] = {}
    BY <1>0, <1>7 DEF EnsureReadyTally
  <2>2. BootInv' /\ PlacedInv'
    BY <1>4, <2>1 DEF WatchInv, PlacedInv, BootInv
  <2>3. CASE hydrated
    <3>1. \A d \in Deliveries : Watched(d) => Watched(d)'
      BY <1>0, <1>2, <1>3, <2>1, <2>3 DEF Watched, exitVars
    <3> QED
      BY <2>2, <3>1 DEF WatchInv, WatchKept
  <2>4. CASE ~hydrated
    <3>1. book = OpenPositions
      BY <2>1, <2>4 DEF WatchInv, BootInv
    <3>2. \A c \in Closers : pc[c] # "unbook"
      BY <2>4, Apart DEF WatchInv, BootInv, BootPC
    <3>3. \A d \in Deliveries : Watched(d)'
      BY <1>0, <1>3, <2>1, <3>1, <3>2 DEF Watched
    <3> QED
      BY <2>2, <3>3 DEF WatchInv, WatchKept
  <2> QED
    BY <2>3, <2>4
<1> QED
  BY <1>5, <1>6, <1>7 DEF EnsureReady

\* A position enters the database before it enters the book, at the end of the
\* handler it belongs to, when no exit can know it yet.
LEMMA PositionWatch ==
  ASSUME OrderOwnership, WatchInv, NEW d \in Deliveries, InsertPosition(d) \/ AddPosition(d)
  PROVE  WatchInv' /\ WatchKept
<1> USE DEF Goto
<1>0. /\ d \in Tasks /\ DOMAIN pc = Tasks /\ DOMAIN pos = Deliveries
      /\ UNCHANGED <<hydrated, snap, exitVars>>
      /\ \A u \in Tasks : u # d => pc'[u] = pc[u]
      /\ pc[d] \in {"position", "book"} /\ pc'[d] \in {"book", "done"}
  BY Apart DEF OrderOwnership, TypeOK, PcOK, StoreOK, InsertPosition, AddPosition, memVars
<1>1. \A c \in Closers : pc'[c] = pc[c]
  BY <1>0, Apart
<1>2. hydrated
  BY <1>0 DEF WatchInv, BootInv, BootPC
<1>3. CASE InsertPosition(d)
  <2>1. /\ pc[d] = "position" /\ pc'[d] = "book" /\ book' = book
        /\ pos' = [pos EXCEPT ![d] = "OPEN"]
    BY <1>0, <1>3 DEF InsertPosition, memVars
  <2>2. pos[d] = "ABSENT"
    BY <2>1 DEF WatchInv, PlacedInv
  <2>3. \A e \in Deliveries : e # d => pos'[e] = pos[e] /\ pc'[e] = pc[e]
    BY <1>0, <2>1, Apart
  <2>4. \A c \in Closers : pc[c] = "unbook" => cur[c] # d
    BY <2>2 DEF WatchInv, PlacedInv, InExit
  <2>5. \A e \in Deliveries : pos[e] # "ABSENT" => pos'[e] # "ABSENT"
    BY <2>2, <2>3
  <2>6. /\ book \subseteq Deliveries /\ \A t \in Tasks : snap[t] \subseteq Deliveries
        /\ \A c \in Closers : todo[c] \subseteq Deliveries /\ (pc[c] \in InExit => cur[c] \in Deliveries)
    BY DEF OrderOwnership, TypeOK, MemOK, EntryOK, ExitOK, ExitInv, ExitOwn
  <2>7. PlacedInv'
    BY <1>0, <1>1, <2>1, <2>3, <2>5, <2>6 DEF WatchInv, PlacedInv, exitVars
  <2>8. \A e \in Deliveries : Watched(e) => Watched(e)'
    BY <1>0, <1>1, <2>1, <2>3, <2>4 DEF Watched, exitVars
  <2> QED
    BY <1>0, <1>2, <2>7, <2>8 DEF WatchInv, WatchKept, BootInv
<1>4. CASE AddPosition(d)
  <2>1. /\ pc[d] = "book" /\ pc'[d] = "done" /\ book' = book \cup {d} /\ pos' = pos
    BY <1>0, <1>4 DEF AddPosition
  <2>2. \A e \in Deliveries : e # d => pc'[e] = pc[e]
    BY <1>0, Apart
  <2>3. PlacedInv'
    BY <1>0, <1>1, <2>1, <2>2 DEF WatchInv, PlacedInv, exitVars
  <2>4. \A e \in Deliveries : Watched(e) => Watched(e)'
    BY <1>0, <1>1, <2>1, <2>2 DEF Watched, exitVars
  <2> QED
    BY <1>0, <1>2, <2>3, <2>4 DEF WatchInv, WatchKept, BootInv
<1> QED
  BY <1>3, <1>4

\* A position leaves the database before it leaves the book; only a price update
\* brings it back.
LEMMA CloseWatch ==
  ASSUME OrderOwnership, WatchInv, NEW c \in Closers,
         PersistPriceUpdates(c) \/ ClosePosition(c) \/ RemovePosition(c)
  PROVE  WatchInv' /\ WatchKept
<1> USE DEF Goto, LeaveClose
<1>0. /\ c \in Tasks /\ DOMAIN pc = Tasks /\ DOMAIN pos = Deliveries /\ DOMAIN cur = Closers
      /\ DOMAIN dump = Closers /\ UNCHANGED <<hydrated, snap, todo>>
      /\ \A u \in Tasks : u # c => pc'[u] = pc[u]
      /\ \A e \in Closers : e # c => cur'[e] = cur[e] /\ dump'[e] = dump[e]
      /\ pc[c] \in {"prices", "closePosition", "unbook"} /\ pc'[c] \in {"next", "unbook"}
  BY Apart DEF OrderOwnership, TypeOK, PcOK, StoreOK, ExitOK, PersistPriceUpdates, ClosePosition,
     RemovePosition, memVars, exitVars
<1>1. \A d \in Deliveries : pc'[d] = pc[d]
  BY <1>0, Apart
<1>2. hydrated
  BY <1>0 DEF WatchInv, BootInv, BootPC
<1>3. /\ book \subseteq Deliveries /\ \A t \in Tasks : snap[t] \subseteq Deliveries
      /\ \A e \in Closers : todo[e] \subseteq Deliveries /\ (pc[e] \in InExit => cur[e] \in Deliveries)
  BY DEF OrderOwnership, TypeOK, MemOK, EntryOK, ExitOK, ExitInv, ExitOwn
<1>4. ASSUME \A d \in Deliveries : pos'[d] # "ABSENT" <=> pos[d] # "ABSENT", book' \subseteq book,
             pc'[c] \in InExit => pc[c] \in InExit /\ cur'[c] = cur[c],
             \A d \in Deliveries : dump'[c][d] # "ABSENT" => dump[c][d] # "ABSENT"
      PROVE  PlacedInv'
  <2>1. ASSUME NEW e \in Closers
        PROVE  /\ \A d \in todo'[e] : pos'[d] # "ABSENT"
               /\ pc'[e] \in InExit => pos'[cur'[e]] # "ABSENT"
               /\ \A d \in Deliveries : dump'[e][d] # "ABSENT" => pos'[d] # "ABSENT"
    <3>1. pc'[e] \in InExit => pc[e] \in InExit /\ cur'[e] = cur[e]
      BY <1>0, <1>4 DEF Tasks
    <3>2. \A d \in Deliveries : dump'[e][d] # "ABSENT" => dump[e][d] # "ABSENT"
      BY <1>0, <1>4
    <3> QED
      BY <1>0, <1>3, <1>4, <3>1, <3>2 DEF WatchInv, PlacedInv
  <2>2. \A t \in Tasks : \A d \in snap'[t] : pos'[d] # "ABSENT"
    BY <1>0, <1>3, <1>4 DEF WatchInv, PlacedInv
  <2>3. \A d \in book' : pos'[d] # "ABSENT"
    BY <1>3, <1>4 DEF WatchInv, PlacedInv
  <2>4. \A d \in Deliveries : /\ pos'[d] # "ABSENT" => pc'[d] \in {"book", "done"}
                              /\ pc'[d] = "book" => pos'[d] # "ABSENT"
    BY <1>1, <1>4 DEF WatchInv, PlacedInv
  <2> QED
    BY <2>1, <2>2, <2>3, <2>4 DEF PlacedInv
<1>5. CASE PersistPriceUpdates(c)
  <2>1. /\ pc'[c] = "next" /\ UNCHANGED <<book, cur>> /\ dump'[c] = NoDump
        /\ pos' = [d \in Deliveries |-> IF dump[c][d] = "ABSENT" THEN pos[d] ELSE dump[c][d]]
    BY <1>0, <1>5 DEF PersistPriceUpdates, memVars
  <2>2. \A d \in Deliveries : /\ pos'[d] # "ABSENT" <=> pos[d] # "ABSENT"
                              /\ dump'[c][d] = "ABSENT"
    BY <2>1 DEF WatchInv, PlacedInv, NoDump
  <2>3. PlacedInv'
    BY <1>4, <2>1, <2>2 DEF InExit
  <2>4. \A d \in Deliveries : pos[d] \in PosStatus
    BY DEF OrderOwnership, TypeOK, StoreOK
  <2>5. \A d \in Deliveries : pos'[d] = "OPEN" => pos[d] = "OPEN" \/ Reopened(d)
    BY <2>2, <2>4 DEF Reopened, PosStatus
  <2>6. \A d \in Deliveries : Watched(d) => Watched(d)' \/ Reopened(d)
    BY <1>0, <1>1, <2>1, <2>5 DEF Watched, Tasks
  <2> QED
    BY <1>0, <1>2, <2>3, <2>6 DEF WatchInv, WatchKept, BootInv
<1>6. CASE ClosePosition(c)
  <2>1. /\ pc[c] = "closePosition" /\ pc'[c] = "unbook" /\ UNCHANGED <<book, cur, dump>>
        /\ pos' = [pos EXCEPT ![cur[c]] = "CLOSED"]
    BY <1>0, <1>6 DEF ClosePosition, memVars, exitVars
  <2>2. cur[c] \in Deliveries /\ pos[cur[c]] # "ABSENT" /\ pos'[cur[c]] = "CLOSED"
    BY <1>0, <1>3, <2>1 DEF WatchInv, PlacedInv, InExit
  <2>3. \A d \in Deliveries : d # cur[c] => pos'[d] = pos[d]
    BY <1>0, <2>1
  <2>4. PlacedInv'
    BY <1>4, <2>1, <2>2, <2>3 DEF InExit
  <2>5. \A d \in Deliveries : Watched(d) => Watched(d)'
    BY <1>0, <1>1, <2>1, <2>2, <2>3 DEF Watched, Tasks
  <2> QED
    BY <1>0, <1>2, <2>4, <2>5 DEF WatchInv, WatchKept, BootInv
<1>7. CASE RemovePosition(c)
  <2>1. /\ pc[c] = "unbook" /\ pc'[c] = "next" /\ UNCHANGED <<pos, dump>> /\ book' = book \ {cur[c]}
    BY <1>0, <1>7 DEF RemovePosition
  <2>2. PlacedInv'
    BY <1>4, <2>1 DEF InExit
  <2>3. \A d \in Deliveries : Watched(d) => Watched(d)'
    BY <1>0, <1>1, <1>2, <2>1 DEF Watched, Tasks
  <2> QED
    BY <1>0, <1>2, <2>2, <2>3 DEF WatchInv, WatchKept, BootInv
<1> QED
  BY <1>5, <1>6, <1>7

\* A restart empties the memory: nothing is watched, and nothing has to be.
LEMMA RestartWatch ==
  ASSUME OrderOwnership, WatchInv, Restart
  PROVE  WatchInv' /\ WatchKept
<1>1. /\ hydrated' = FALSE /\ pos' = pos /\ book' = {}
      /\ \A t \in Tasks : snap'[t] = {} /\ pc'[t] \in {"idle", "done"}
      /\ \A c \in Closers : todo'[c] = {} /\ pc'[c] = "idle" /\ dump'[c] = NoDump
      /\ \A d \in Deliveries : pc[d] \in {"book", "done"} => pc'[d] = "done"
  BY Apart DEF Restart
<1>2. BootInv'
  BY <1>1 DEF BootInv, BootPC
<1>3. PlacedInv'
  BY <1>1, Apart DEF WatchInv, PlacedInv, NoDump, InExit
<1>4. \A d \in Deliveries : Watched(d)'
  BY <1>1 DEF Watched
<1> QED
  BY <1>2, <1>3, <1>4 DEF WatchInv, WatchKept

\* Broker and operator know nothing of the book.
LEMMA BystandersWatch ==
  ASSUME WatchInv, UNCHANGED vars \/ PauseResume \/ SetKillSwitch \/ \E o \in OrderIds : BrokerAdvances(o)
  PROVE  WatchInv' /\ WatchKept
<1>1. UNCHANGED <<pc, hydrated, snap, book, pos, exitVars>>
  BY DEF vars, PauseResume, SetKillSwitch, BrokerAdvances, taskVars, memVars
<1> QED
  BY <1>1 DEF WatchInv, WatchKept, BootInv, PlacedInv, OpenPositions, Watched, exitVars

LEMMA WatchNext == OrderOwnership /\ WatchInv /\ [Next]_vars => WatchInv' /\ WatchKept
<1> SUFFICES ASSUME OrderOwnership, WatchInv, [Next]_vars PROVE WatchInv' /\ WatchKept
  OBVIOUS
<1>1. CASE \E t \in Tasks : EnsureReady(t)
  BY <1>1, BootWatch
<1>2. CASE \E d \in Deliveries : HandleGeneratedSignal(d) \/ EntryStep(d) \/ EntryDbFault(d)
  BY <1>2, EntryWatch, PositionWatch
<1>3. CASE \E c \in Closers : \/ HandleBuiltCandle(c) \/ CloseAllOpen(c) \/ EmergencyStop(c)
                              \/ CloseStep(c) \/ ExitDbFault(c)
  BY <1>3, ExitWatch, CloseWatch
<1>4. CASE \E r \in Pollers : ReconcileOrders(r) \/ PollStep(r) \/ PollDbFault(r)
  BY <1>4, PollWatch
<1>5. CASE UNCHANGED vars \/ PauseResume \/ SetKillSwitch \/ \E o \in OrderIds : BrokerAdvances(o)
  BY <1>5, BystandersWatch
<1>6. CASE Restart
  BY <1>6, RestartWatch
<1> QED
  BY <1>1, <1>2, <1>3, <1>4, <1>5, <1>6 DEF Next

LEMMA WatchInit == Init => WatchInv
<1> SUFFICES ASSUME Init PROVE WatchInv
  OBVIOUS
<1>1. /\ \A t \in Tasks : pc[t] = "idle" /\ snap[t] = {}
      /\ \A c \in Closers : pc[c] = "idle" /\ todo[c] = {} /\ dump[c] = NoDump
      /\ \A d \in Deliveries : pc[d] = "idle" /\ pos[d] = "ABSENT"
      /\ book = {}
  BY Apart DEF Init
<1> QED
  BY <1>1 DEF WatchInv, BootInv, PlacedInv, BootPC, InExit, NoDump

\* The book follows the database through any number of entries, candles, sweeps,
\* polls, failed calls, restarts and boots, warmed up or cold: no step loses an
\* open position but a boot overtaken by another one and a price update dumped
\* before a close (ensure_ready, add_position, remove_position).
THEOREM OpenPositionsStayWatched == Spec => OpenStaysWatched
<1>1. Init => WatchInv
  BY WatchInit
<1>2. OrderOwnership /\ WatchInv /\ [Next]_vars => WatchInv' /\ WatchKept
  BY WatchNext
<1>3. WatchKept =>
        \A d \in Deliveries : Watched(d) => Watched(d)' \/ LateBoot(d) \/ Reopened(d)
  BY DEF WatchKept
<1> QED
  BY <1>1, <1>2, <1>3, Ownership, PTL DEF Spec, OpenStaysWatched
=============================================================================
