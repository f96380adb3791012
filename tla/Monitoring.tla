----------------------------- MODULE Monitoring ------------------------------
(***************************************************************************)
(* The health job: HealthAggregator with its nine checks, the incidents it *)
(* opens, escalates and resolves, and the alerts it sends through the      *)
(* alert router and the notification manager.                              *)
(*                                                                         *)
(* The environment is the condition of each component.  The database is    *)
(* one of them: while "mongodb" is down every database call fails.  A run  *)
(* of run_all is a task; the job's runs follow one another, a request to   *)
(* the health routes makes another one at the same time.  An operator      *)
(* acknowledges, resolves or escalates an incident.  One action is the     *)
(* code between two awaits.                                                *)
(***************************************************************************)
EXTENDS Incidents, Sequences

CONSTANTS
    NumChecks,        \* number of checks
    Watched,          \* choices of the checks of one process, in order
    Job, Request,     \* the health job, a health request
    Operators,        \* callers of the incident routes
    Threshold,        \* ESCALATION_ERROR_THRESHOLD
    MaxTroubles       \* bound on changes of condition, operator calls, restarts,
                      \* and requests beside the job

ASSUME MonitoringAssumption ==
    /\ Clients = {Job, Request} \cup Operators
    /\ Watched \subseteq [1..NumChecks -> Components]
    /\ {NumChecks, Threshold, MaxTroubles} \subseteq Nat

VARIABLES
    checks,     \* HealthAggregator._checks
    cond,       \* the condition of each component
    reach,      \* a notification provider answers
    errors,     \* _consecutive_errors, counted up to the threshold
    status,     \* system_health_status: the status persisted last
    recent,     \* alert_events: dedup keys of the events within the throttle window
    alerted,    \* history: components of which an alert was delivered in this condition
    pc,         \* where each client is
    results,    \* results of a run's checks that are still to be processed
    list,       \* open incidents a run has listed and still resolves
    due,        \* the run's count has reached the threshold
    msg,        \* the alert a client is sending
    troubles    \* counter of MaxTroubles

envVars == <<checks, cond, reach>>
memVars == <<errors, status>>
alertVars == <<recent, alerted, msg>>
vars == <<incidentVars, envVars, memVars, alertVars, pc, results, list, due, troubles>>

Runs == {Job, Request}
Monitored == {checks[i] : i \in 1..NumChecks}
DbUp == "mongodb" \notin Monitored \/ cond["mongodb"] # "down"
\* The job is one of the scheduler's: a scheduler that has stopped, or has lost
\* its jobs, does not fire it, and nobody looks at the scheduler.
JobFires == "scheduler" \notin Monitored \/ cond["scheduler"] = "ok"

\* What the checks tell apart in their component.
Conditions(c) ==
    CASE c = "mongodb"               -> {"ok", "slow", "down"}
      [] c = "broker_angelone"       -> {"ok", "expiring", "down"}
      [] c = "websocket_manager"     -> {"ok"}
      [] c = "scheduler"             -> {"ok", "empty", "down"}
      [] c = "signal_engine"         -> {"ok", "stale", "down"}
      [] c = "portfolio_engine"      -> {"ok", "stretched", "halted"}
      [] c = "execution_engine"      -> {"ok", "rejecting", "killed"}
      [] c = "paper_trading_engine"  -> {"ok", "cold", "paused"}
      [] c = "reconciliation_engine" -> {"ok", "stale", "mismatch"}

-----------------------------------------------------------------------------
(* The checks: the status each reports.  BaseHealthCheck.run and the checks *)
(* themselves turn an exception into "unhealthy".                           *)

MongoDBCheck(x) == CASE x = "ok" -> "healthy" [] x = "slow" -> "degraded" [] x = "down" -> "unhealthy"
BrokerCheck(x) == CASE x = "ok" -> "healthy" [] x = "expiring" -> "degraded" [] x = "down" -> "unhealthy"
WebSocketCheck(x) == "healthy"
SchedulerCheck(x) == CASE x = "ok" -> "healthy" [] x = "empty" -> "degraded" [] x = "down" -> "unhealthy"
SignalEngineCheck(x) == CASE x = "ok" -> "healthy" [] x = "stale" -> "degraded" [] x = "down" -> "unhealthy"
PortfolioCheck(x) == IF ~DbUp THEN "unhealthy" ELSE IF x = "ok" THEN "healthy" ELSE "degraded"
ExecutionCheck(x) == IF ~DbUp THEN "unhealthy" ELSE IF x = "ok" THEN "healthy" ELSE "degraded"
PaperTradingCheck(x) == IF ~DbUp THEN "unhealthy" ELSE IF x = "ok" THEN "healthy" ELSE "degraded"
ReconciliationCheck(x) ==
    IF ~DbUp THEN "unhealthy"
    ELSE CASE x = "ok" -> "healthy" [] x = "stale" -> "degraded" [] x = "mismatch" -> "unhealthy"

Check(c) ==
    LET x == cond[c]
    IN CASE c = "mongodb"               -> MongoDBCheck(x)
         [] c = "broker_angelone"       -> BrokerCheck(x)
         [] c = "websocket_manager"     -> WebSocketCheck(x)
         [] c = "scheduler"             -> SchedulerCheck(x)
         [] c = "signal_engine"         -> SignalEngineCheck(x)
         [] c = "portfolio_engine"      -> PortfolioCheck(x)
         [] c = "execution_engine"      -> ExecutionCheck(x)
         [] c = "paper_trading_engine"  -> PaperTradingCheck(x)
         [] c = "reconciliation_engine" -> ReconciliationCheck(x)

\* A result keeps of its metadata whether the kill switch is engaged.
Result(c) == [c |-> c, s |-> Check(c), kill |-> DbUp /\ cond[c] = "killed"]

\* _route_alert: the results that send an alert of their own.
Routed(r) ==
    \/ r.c \in {"mongodb", "broker_angelone", "scheduler"} /\ r.s = "unhealthy"
    \/ r.c = "execution_engine" /\ r.kill

Init ==
    /\ IncidentsInit
    /\ checks \in Watched
    /\ cond = [c \in Components |-> "ok"]
    /\ reach \in BOOLEAN
    /\ errors = [c \in Components |-> 0]
    /\ status = [c \in Components |-> None]
    /\ recent = {}
    /\ alerted = {}
    /\ pc = [t \in Clients |-> "idle"]
    /\ results = [r \in Runs |-> <<>>]
    /\ list = [r \in Runs |-> {}]
    /\ due = [r \in Runs |-> FALSE]
    /\ msg = [t \in Clients |-> None]
    /\ troubles = 0

Goto(t, l) == pc' = [pc EXCEPT ![t] = l]
Trouble == troubles < MaxTroubles /\ troubles' = troubles + 1

\* Where a run goes after the result it has processed.
NextResult(r) ==
    /\ results' = [results EXCEPT ![r] = Tail(@)]
    /\ Goto(r, IF Len(results[r]) = 1 THEN "idle" ELSE "persist")
    /\ due' = [due EXCEPT ![r] = FALSE]

-----------------------------------------------------------------------------
(* HealthAggregator                                                         *)

\* run_all gathers the checks; the job starts it every minute, a request at any
\* time: there are any number of requests while the job does not fire, and
\* MaxTroubles bounds those that may overlap with it.
RunAll(r) ==
    /\ pc[r] = "idle"
    /\ r = Job => JobFires
    /\ IF r = Request /\ JobFires THEN Trouble ELSE UNCHANGED troubles
    /\ results' = [results EXCEPT ![r] = [i \in 1..NumChecks |-> Result(checks[i])]]
    /\ Goto(r, "persist")
    /\ UNCHANGED <<incidentVars, envVars, memVars, alertVars, list, due>>

\* _persist_status; a failed write is logged.
PersistStatus(r) ==
    /\ pc[r] = "persist"
    /\ status' = IF DbUp THEN [status EXCEPT ![Head(results[r]).c] = Head(results[r]).s] ELSE status
    /\ Goto(r, "count")
    /\ UNCHANGED <<incidentVars, envVars, errors, alertVars, results, list, due, troubles>>

\* The consecutive errors of the component, and which way the incident goes.
ProcessResult(r) ==
    /\ pc[r] = "count"
    /\ LET c == Head(results[r]).c
           n == IF errors[c] < Threshold THEN errors[c] + 1 ELSE Threshold
       IN  IF Head(results[r]).s = "healthy"
           THEN /\ errors' = [errors EXCEPT ![c] = 0]
                /\ Goto(r, "list")
                /\ UNCHANGED due
           ELSE /\ errors' = [errors EXCEPT ![c] = n]
                /\ due' = [due EXCEPT ![r] = n >= Threshold]
                /\ Goto(r, "find")
    /\ UNCHANGED <<incidentVars, envVars, status, alertVars, results, list, troubles>>

\* Mutant of ListOpen: critical incidents are left to the operators.
ListOpenCritical(r) ==
    /\ pc[r] = "list"
    /\ LET c == Head(results[r]).c
           S == IF DbUp THEN {n \in OpenOf(c) : incidents[c][n].sev = "WARNING"} ELSE {}
       IN  /\ list' = [list EXCEPT ![r] = S]
           /\ IF S = {} THEN NextResult(r) ELSE Goto(r, "get") /\ UNCHANGED <<results, due>>
    /\ UNCHANGED <<incidentVars, envVars, memVars, alertVars, troubles>>

\* resolve_for_component lists the open incidents of the component.
ListOpen(r) ==
    /\ pc[r] = "list"
    /\ LET c == Head(results[r]).c
           S == IF DbUp THEN OpenOf(c) ELSE {}
       IN  /\ list' = [list EXCEPT ![r] = S]
           /\ IF S = {} THEN NextResult(r) ELSE Goto(r, "get") /\ UNCHANGED <<results, due>>
    /\ UNCHANGED <<incidentVars, envVars, memVars, alertVars, troubles>>

\* It resolves them one after the other: resolve reads, then writes.
GetListed(r) ==
    /\ pc[r] = "get"
    /\ \E n \in list[r] :
         /\ Get(r, Head(results[r]).c, n, DbUp)
         /\ list' = [list EXCEPT ![r] = @ \ {n}]
    /\ IF doc'[r] # None THEN Goto(r, "resolve") /\ UNCHANGED <<results, due>>
       ELSE IF list'[r] = {} THEN NextResult(r)
       ELSE UNCHANGED <<pc, results, due>>
    /\ UNCHANGED <<envVars, memVars, alertVars, troubles>>

ResolveListed(r) ==
    /\ pc[r] = "resolve"
    /\ Resolve(r, DbUp)
    /\ IF list[r] = {} THEN NextResult(r) ELSE Goto(r, "get") /\ UNCHANGED <<results, due>>
    /\ UNCHANGED <<envVars, memVars, alertVars, list, troubles>>

\* create, in two steps under its lock.
FindIncident(r) ==
    /\ pc[r] = "find"
    /\ CreateFind(r, Head(results[r]).c,
                  IF Head(results[r]).s = "unhealthy" THEN "CRITICAL" ELSE "WARNING", DbUp)
    /\ Goto(r, "write")
    /\ UNCHANGED <<envVars, memVars, alertVars, results, list, due, troubles>>

\* Mutant of WriteIncident: an incident that was already open is not escalated.
WriteIncidentNewOnly(r) ==
    /\ pc[r] = "write"
    /\ CreateWrite(r, DbUp)
    /\ Goto(r, IF due[r] /\ doc[r].st = "NEW" /\ doc[r].sev # "CRITICAL" THEN "escget" ELSE "route")
    /\ UNCHANGED <<envVars, memVars, alertVars, results, list, due, troubles>>

\* The incident create returns is escalated if the count says so and it is
\* not critical yet.
WriteIncident(r) ==
    /\ pc[r] = "write"
    /\ CreateWrite(r, DbUp)
    /\ Goto(r, IF due[r] /\ doc[r].sev # "CRITICAL" THEN "escget" ELSE "route")
    /\ UNCHANGED <<envVars, memVars, alertVars, results, list, due, troubles>>

\* escalate reads the incident again; not found, nothing is escalated.
GetToEscalate(t) ==
    /\ pc[t] = "escget"
    /\ Get(t, doc[t].c, doc[t].n, DbUp)
    /\ Goto(t, IF doc'[t] # None THEN "escalate" ELSE IF t \in Runs THEN "route" ELSE "idle")
    /\ UNCHANGED <<envVars, memVars, alertVars, results, list, due, troubles>>

EscalateIncident(t) ==
    /\ pc[t] = "escalate"
    /\ Escalate(t, DbUp)
    /\ Release(t)
    /\ msg' = [msg EXCEPT ![t] = <<"escalation", doc[t].c, doc[t].n>>]
    /\ Goto(t, "dup")
    /\ UNCHANGED <<envVars, memVars, recent, alerted, results, list, due, troubles>>

\* Mutant of RouteAlert: the alert is sent on the first failure only.
RouteAlertOnce(r) ==
    /\ pc[r] = "route"
    /\ doc' = [doc EXCEPT ![r] = None]
    /\ IF Routed(Head(results[r])) /\ errors[Head(results[r]).c] = 1
       THEN /\ msg' = [msg EXCEPT ![r] = <<"outage", Head(results[r]).c>>]
            /\ Goto(r, "dup")
            /\ UNCHANGED <<results, due>>
       ELSE NextResult(r) /\ UNCHANGED msg
    /\ UNCHANGED <<incidents, ilock, spoiled, envVars, memVars, recent, alerted, list, troubles>>

\* _route_alert.
RouteAlert(r) ==
    /\ pc[r] = "route"
    /\ doc' = [doc EXCEPT ![r] = None]
    /\ IF Routed(Head(results[r]))
       THEN /\ msg' = [msg EXCEPT ![r] = <<"outage", Head(results[r]).c>>]
            /\ Goto(r, "dup")
            /\ UNCHANGED <<results, due>>
       ELSE NextResult(r) /\ UNCHANGED msg
    /\ UNCHANGED <<incidents, ilock, spoiled, envVars, memVars, recent, alerted, list, troubles>>

-----------------------------------------------------------------------------
(* AlertRouter and NotificationManager.dispatch_system_alert                *)

\* The dispatch is over, whatever became of it.
AfterDispatch(t) ==
    /\ msg' = [msg EXCEPT ![t] = None]
    /\ IF t \in Operators THEN Goto(t, "idle") /\ UNCHANGED <<results, due>>
       ELSE IF msg[t][1] = "escalation" THEN Goto(t, "route") /\ UNCHANGED <<results, due>>
       ELSE NextResult(t)

\* _is_duplicate: an event of the window with this key, delivered or not,
\* suppresses the alert; a failed read allows it.
IsDuplicate(t) ==
    /\ pc[t] = "dup"
    /\ IF DbUp /\ msg[t] \in recent
       THEN AfterDispatch(t)
       ELSE Goto(t, "insert") /\ UNCHANGED <<msg, results, due>>
    /\ UNCHANGED <<incidentVars, envVars, memVars, recent, alerted, list, troubles>>

\* _persist_event; when it fails the exception ends the dispatch.
PersistEvent(t) ==
    /\ pc[t] = "insert"
    /\ IF DbUp
       THEN /\ recent' = recent \cup {msg[t]}
            /\ Goto(t, "send")
            /\ UNCHANGED <<msg, results, due>>
       ELSE AfterDispatch(t) /\ UNCHANGED recent
    /\ UNCHANGED <<incidentVars, envVars, memVars, alerted, list, troubles>>

\* The providers are tried in order.  Whether the event is then marked
\* delivered changes nothing: no code reads the mark.
SendAlert(t) ==
    /\ pc[t] = "send"
    /\ alerted' = IF reach /\ msg[t][1] = "outage" /\ Result(msg[t][2]).s # "healthy"
                  THEN alerted \cup {msg[t][2]} ELSE alerted
    /\ AfterDispatch(t)
    /\ UNCHANGED <<incidentVars, envVars, memVars, recent, list, troubles>>

\* The throttle window of an event has passed.
WindowEnds(k) ==
    /\ k \in recent
    /\ recent' = recent \ {k}
    /\ UNCHANGED <<incidentVars, envVars, memVars, alerted, msg, pc, results, list, due, troubles>>

-----------------------------------------------------------------------------
(* Operators and the environment                                            *)

\* A route of an operator reads the incident it names.
CallRoute(o, what) ==
    /\ pc[o] = "idle" /\ Trouble
    /\ \E c \in Monitored, n \in Slots : Exists(c, n) /\ Get(o, c, n, DbUp)
    /\ Goto(o, IF doc'[o] # None THEN what ELSE "idle")
    /\ UNCHANGED <<envVars, memVars, alertVars, results, list, due>>

ResolveIncident(o) ==
    /\ o \in Operators /\ pc[o] = "resolve"
    /\ Resolve(o, DbUp)
    /\ Goto(o, "idle")
    /\ UNCHANGED <<envVars, memVars, alertVars, results, list, due, troubles>>

AcknowledgeIncident(o) ==
    /\ pc[o] = "acknowledge"
    /\ Acknowledge(o, DbUp)
    /\ Goto(o, "idle")
    /\ UNCHANGED <<envVars, memVars, alertVars, results, list, due, troubles>>

Change(c) ==
    /\ Trouble
    /\ \E x \in Conditions(c) \ {cond[c]} : cond' = [cond EXCEPT ![c] = x]
    /\ alerted' = alerted \ {c}
    /\ UNCHANGED <<incidentVars, checks, reach, memVars, recent, msg, pc, results, list, due>>

\* The notification channels fail or come back.
ChangeReach ==
    /\ Trouble
    /\ reach' = ~reach
    /\ UNCHANGED <<incidentVars, checks, cond, memVars, alertVars, pc, results, list, due>>

\* The process restarts: the counts and every task are gone.
Restart ==
    /\ Trouble
    /\ errors' = [c \in Components |-> 0]
    /\ pc' = [t \in Clients |-> "idle"]
    /\ results' = [r \in Runs |-> <<>>]
    /\ list' = [r \in Runs |-> {}]
    /\ due' = [r \in Runs |-> FALSE]
    /\ msg' = [t \in Clients |-> None]
    /\ doc' = [t \in Clients |-> None]
    /\ ilock' = None
    /\ UNCHANGED <<incidents, spoiled, envVars, status, recent, alerted>>

RunStep(r) ==
    \/ PersistStatus(r) \/ ProcessResult(r) \/ ListOpen(r) \/ GetListed(r) \/ ResolveListed(r)
    \/ FindIncident(r) \/ WriteIncident(r) \/ RouteAlert(r)
ClientStep(t) ==
    \/ GetToEscalate(t) \/ EscalateIncident(t)
    \/ IsDuplicate(t) \/ PersistEvent(t) \/ SendAlert(t)

Next ==
    \/ \E r \in Runs : RunAll(r) \/ RunStep(r)
    \/ \E t \in Clients : ClientStep(t)
    \/ \E o \in Operators :
         \/ \E what \in {"acknowledge", "resolve", "escalate"} : CallRoute(o, what)
         \/ ResolveIncident(o) \/ AcknowledgeIncident(o)
    \/ \E k \in recent : WindowEnds(k)
    \/ \E c \in Monitored : Change(c)
    \/ ChangeReach \/ Restart

\* A scheduler that works fires the job every minute of a weekday, a step under
\* way goes on, and time passes.  Requests are not assumed.
Fairness ==
    /\ WF_vars(RunAll(Job))
    /\ \A r \in Runs : WF_vars(RunStep(r))
    /\ \A t \in Clients : WF_vars(ClientStep(t))
    /\ \A o \in Operators : WF_vars(ResolveIncident(o) \/ AcknowledgeIncident(o))
    /\ WF_vars(\E k \in recent : WindowEnds(k))

Spec == Init /\ [][Next]_vars /\ Fairness

-----------------------------------------------------------------------------
(* Properties                                                               *)

Healthy(c) == DbUp /\ Check(c) = "healthy"
Failing(c) == DbUp /\ Check(c) # "healthy"

\* The checks are run for ever: by the job, unless the scheduler has failed, or
\* by requests.
Checking == []<>(\E r \in Runs : pc[r] = "persist")

(* A component that stays unfit gets a critical incident, whatever an       *)
(* operator acknowledged or resolved, and however often the process         *)
(* restarted on the way (health_aggregator.py: the count lives in memory).  *)
(* Somebody has to run the checks: without requests a scheduler that fails  *)
(* takes the job with it, and no failure is noticed any more.               *)
PersistentFailureEscalates ==
    \A i \in 1..NumChecks :
        Checking /\ <>[]Failing(checks[i])
            => <>[](\E n \in OpenOf(checks[i]) : incidents[checks[i]][n].sev = "CRITICAL")

(* Once a component is healthy for good no open incident of it remains and  *)
(* the persisted status says so, although a run that had read its condition *)
(* before may still open one (health_aggregator.py: run_all is not serial). *)
RecoveryResolves ==
    \A i \in 1..NumChecks :
        Checking /\ <>[]Healthy(checks[i])
            => <>[](OpenOf(checks[i]) = {} /\ status[checks[i]] = "healthy")

(* An outage the router knows is announced while it lasts, if some channel  *)
(* works in the end: an alert that was stored and never delivered, of this  *)
(* outage or an earlier one, delays the next by the throttle window, and no *)
(* longer (notification_manager.py: _is_duplicate does not ask whether the  *)
(* event was delivered).                                                    *)
OutageIsAnnounced ==
    \A i \in 1..NumChecks :
        Checking /\ <>[](Failing(checks[i]) /\ Routed(Result(checks[i])) /\ reach)
            => <>[](checks[i] \in alerted)

=============================================================================
