-------------------------- MODULE LiveExecutionInv --------------------------
(***************************************************************************)
(* The inductive invariant of LiveExecution: who may still touch which     *)
(* order row.  A row is written by the task that created it until the      *)
(* broker's answer is recorded, and by the pollers, on copies, after that. *)
(* The named parts are what the proofs in LiveExecution_proofs cite.       *)
(***************************************************************************)
EXTENDS LiveExecution

\* Nothing known, recorded and not sent, sent and not recorded.
Untouched(o) == row[o] = "ABSENT" /\ ~acked[o] /\ bstat[o] = "NONE" /\ ghosts[o] = 0
Unsent(o)    == row[o] = "PENDING" /\ ~acked[o] /\ bstat[o] = "NONE"
Unrecorded(o) == row[o] = "PENDING" /\ ~acked[o] /\ bstat[o] # "NONE"

\* The statuses that record what the broker answered.
Answer == OrderStatus \ {"PENDING"}

BeforeInsert == BootPC \cup {"lock", "context", "gate", "insert"}
BeforeExits  == (BootPC \ {"idle"}) \cup {"collect"}
InExit       == {"exitInsert", "exitSubmit", "exitOpen", "exitReject",
                 "closePosition", "unbook"}

\* Every row agrees with the broker as far as it claims to know it.
RowInv == \A o \in OrderIds :
    /\ acked[o] => /\ bstat[o] # "NONE"
                   /\ row[o] = "OPEN" \/ /\ bstat[o] \in BrokerTerminal
                                         /\ row[o] = BrokerStatusToModel(bstat[o])
    /\ ~acked[o] => row[o] \in {"ABSENT", "PENDING", "REJECTED"}
    /\ row[o] = "ABSENT" => Untouched(o)
    /\ row[o] = "REJECTED" /\ ~acked[o] => bstat[o] = "NONE"

\* The entry row of a delivery is where its handler left it.
EntryInv == \A d \in Deliveries :
    /\ pc[d] \in BeforeInsert => Untouched(EntryOrder(d))
    /\ pc[d] \in {"submit", "reject"} => Unsent(EntryOrder(d))
    /\ pc[d] = "open" => Unrecorded(EntryOrder(d))
    /\ pc[d] \in {"position", "book"} => acked[EntryOrder(d)]

\* Run numbers name the rows of one run only.
RunInv ==
    /\ \A o \in OrderIds : o[2] > runs => Untouched(o)
    /\ \A c \in Closers : pc[c] # "idle" => run[c] \in 1..runs
    /\ \A c, e \in Closers :
          c # e /\ pc[c] # "idle" /\ pc[e] # "idle" => run[c] # run[e]

\* The exit rows of a run are untouched until their turn, and then where the
\* close of the position left them.
ExitOwn(c) ==
    /\ pc[c] \in {"idle", "halt"} => todo[c] = {}
    /\ pc[c] \in BeforeExits => \A d \in Deliveries : Untouched(<<d, run[c]>>)
    /\ \A d \in todo[c] : Untouched(<<d, run[c]>>)
    /\ pc[c] \in InExit => cur[c] \in Deliveries /\ cur[c] \notin todo[c]
    /\ pc[c] = "exitInsert" => Untouched(ExitOrder(c))
    /\ pc[c] \in {"exitSubmit", "exitReject"} => Unsent(ExitOrder(c))
    /\ pc[c] = "exitOpen" => Unrecorded(ExitOrder(c))
    /\ pc[c] \in {"closePosition", "unbook"} =>
          row[ExitOrder(c)] \in Answer
ExitInv == \A c \in Closers : ExitOwn(c)

\* A poller's copies are of acknowledged open rows, and what it is about to
\* write is what the broker will say for ever.
PollInv == \A r \in Pollers :
    /\ \A q \in polled[r] : acked[q[1]] /\ q[2] = "OPEN"
    /\ pc[r] = "pollWrite" =>
          /\ found[r] \in OrderIds \X OrderStatus
          /\ acked[found[r][1]]
          /\ bstat[found[r][1]] \in BrokerTerminal
          /\ found[r][2] = BrokerStatusToModel(bstat[found[r][1]])

\* Positions, in the database, in memory or on their way, have a recorded
\* entry order.
PositionInv ==
    /\ \A d \in Deliveries : pos[d] # "ABSENT" => acked[EntryOrder(d)]
    /\ \A d \in book : acked[EntryOrder(d)]
    /\ \A t \in Tasks : \A d \in snap[t] : acked[EntryOrder(d)]
    /\ \A c \in Closers :
          /\ \A d \in todo[c] : acked[EntryOrder(d)]
          /\ pc[c] \in InExit => acked[EntryOrder(cur[c])]
          /\ \A d \in Deliveries : dump[c][d] # "ABSENT" => acked[EntryOrder(d)]

\* The broker has answered an exit order for the position.
ExitAnswered(d) == \E k \in 1..MaxRuns : row[<<d, k>>] \in Answer

\* CLOSED is written, kept in memory or waiting in a price update only for
\* positions whose exit the broker has answered.
ClosedInv ==
    /\ \A d \in Deliveries : pos[d] = "CLOSED" => ExitAnswered(d)
    /\ \A d \in objClosed : ExitAnswered(d)
    /\ \A c \in Closers : \A d \in Deliveries :
          dump[c][d] = "CLOSED" => ExitAnswered(d)

\* With the index, a signal has one row; without a row nothing was sent.
SignalInv ==
    SignalBrokerUnique =>
        \A o, q \in OrderIds :
            /\ row[o] # "ABSENT" /\ row[q] # "ABSENT"
            /\ SignalOf[o[1]] = SignalOf[q[1]]
            => o = q

\* Every order row is owned by the task that must still record the broker's
\* answer, or by nobody: the entry handlers, the exit runs and the pollers, with
\* their copies, never write a row another of them is working on
\* (_execute_signal_locked, place_exit_order, reconcile_orders).
OrderOwnership ==
    /\ TypeOK
    /\ RowInv /\ EntryInv /\ RunInv /\ ExitInv /\ PollInv
    /\ PositionInv /\ ClosedInv /\ SignalInv

-----------------------------------------------------------------------------
(* The book: what makes its positions those of the database.                *)

OpenPositions == {d \in Deliveries : pos[d] = "OPEN"}

\* Until the first boot ends nobody works, so what a boot has read is still so.
BootInv ==
    ~hydrated => \A t \in Tasks :
        /\ pc[t] \in BootPC \cup {"done"}
        /\ pc[t] \in {"hydrate", "tally"} => snap[t] = OpenPositions
        /\ pc[t] = "tally" => book = OpenPositions

\* Positions in memory or on their way are in the database, where a handler
\* that is at its end has inserted them.
PlacedInv ==
    /\ \A d \in Deliveries : /\ pos[d] # "ABSENT" => pc[d] \in {"book", "done"}
                             /\ pc[d] = "book" => pos[d] # "ABSENT"
    /\ \A d \in book : pos[d] # "ABSENT"
    /\ \A t \in Tasks : \A d \in snap[t] : pos[d] # "ABSENT"
    /\ \A c \in Closers :
          /\ \A d \in todo[c] : pos[d] # "ABSENT"
          /\ pc[c] \in InExit => pos[cur[c]] # "ABSENT"
          /\ \A d \in Deliveries : dump[c][d] # "ABSENT" => pos[d] # "ABSENT"

\* The book is loaded from the database and changes with it (ensure_ready,
\* add_position, remove_position).
WatchInv == BootInv /\ PlacedInv
=============================================================================
