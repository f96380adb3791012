---------------------------- MODULE StrategyLab ----------------------------
(***************************************************************************)
(* The strategy lab: the catalog entry of one strategy, its versions, its  *)
(* deployment log, its experiments and its scorecards.                     *)
(*                                                                         *)
(* Every request of the HTTP interface builds its own service object and   *)
(* works on the catalog document it read: it decides, inserts a version or *)
(* a deployment row, then saves the whole document.  Nothing locks the     *)
(* document, so requests overlap between those calls, and any call may     *)
(* raise and end its request.  A/B tests share no document with the        *)
(* promotion path and are left out.                                        *)
(***************************************************************************)
EXTENDS Integers, Sequences, FiniteSets, Optional

CONSTANTS
    Requests,      \* overlapping HTTP requests
    Versions,      \* version labels
    FirstVersion,  \* "1.0.0", registered with the strategy
    Experiments,
    Scores,        \* overall scores a scorecard may get, 0 .. 100
    MaxScorecards, \* scorecards computed
    MaxCalls       \* requests in all

PassMark == 50     \* overall_score below which LIVE is refused

ASSUME LabAssumption ==
    /\ FirstVersion \in Versions /\ Scores \subseteq Nat
    /\ MaxScorecards \in Nat /\ MaxCalls \in Nat
    /\ None \notin {"RUNNING", "COMPLETED"}

VARIABLES
    catalog,       \* None, or the stored StrategyCatalog document
    versions,      \* labels with a StrategyVersion document
    deployments,   \* <<from_status, to_status>> of every StrategyDeployment
    experiments,   \* experiments[e]: None or its stored status
    scorecards,    \* overall scores, oldest first
    req,           \* req[r]: the request in progress
    calls

labVars == <<catalog, versions, deployments, experiments, scorecards, req, calls>>

StrategyStatus == {"DEVELOPMENT", "TESTING", "PAPER", "LIVE", "RETIRED"}

VALID_TRANSITIONS ==
    [s \in StrategyStatus |->
        CASE s = "DEVELOPMENT" -> <<"TESTING", "RETIRED">>
          [] s = "TESTING"     -> <<"PAPER", "DEVELOPMENT", "RETIRED">>
          [] s = "PAPER"       -> <<"LIVE", "TESTING", "RETIRED">>
          [] s = "LIVE"        -> <<"RETIRED">>
          [] s = "RETIRED"     -> << >>]

\* The first forward successor: non_retired_next[0].
NextStatus(s) ==
    IF s \in {"LIVE", "RETIRED"} THEN None ELSE VALID_TRANSITIONS[s][1]

StrategyCatalog(status, version) == [status |-> status, version |-> version]

NoRequest == [op |-> None, at |-> "idle", doc |-> None, to |-> None]

LabInit ==
    /\ catalog = None
    /\ versions = {}
    /\ deployments = {}
    /\ experiments = [e \in Experiments |-> None]
    /\ scorecards = << >>
    /\ req = [r \in Requests |-> NoRequest]
    /\ calls = 0
-----------------------------------------------------------------------------
Done(r) == req' = [req EXCEPT ![r] = NoRequest]
Begin(r, op, at, to) ==
    /\ req[r] = NoRequest /\ calls < MaxCalls
    /\ calls' = calls + 1
    /\ req' = [req EXCEPT ![r] = [op |-> op, at |-> at, doc |-> catalog, to |-> to]]
At(r, op, at) == req[r].op = op /\ req[r].at = at
Step(r, at) == req' = [req EXCEPT ![r].at = at]

\* Any database call may raise: the request ends there.
CallFails(r) ==
    /\ req[r] # NoRequest
    /\ Done(r)
    /\ UNCHANGED <<catalog, versions, deployments, experiments, scorecards, calls>>

\* register_strategy: refused when the entry exists, also by the unique
\* index on strategy_id when it was inserted meanwhile.
RegisterRead(r) ==
    /\ catalog = None
    /\ Begin(r, "register", "insert", None)
    /\ UNCHANGED <<catalog, versions, deployments, experiments, scorecards>>

RegisterInsert(r) ==
    /\ At(r, "register", "insert") /\ catalog = None
    /\ catalog' = StrategyCatalog("DEVELOPMENT", FirstVersion)
    /\ Step(r, "version")
    /\ UNCHANGED <<versions, deployments, experiments, scorecards, calls>>

RegisterVersion(r) ==
    /\ At(r, "register", "version") /\ FirstVersion \notin versions
    /\ versions' = versions \union {FirstVersion}
    /\ Done(r)
    /\ UNCHANGED <<catalog, deployments, experiments, scorecards, calls>>

\* add_version: the label must be new, in the check and in the unique index;
\* then the catalog document that was read is saved with it.
AddVersionRead(r, v) ==
    /\ catalog # None /\ v \notin versions
    /\ Begin(r, "add_version", "insert", v)
    /\ UNCHANGED <<catalog, versions, deployments, experiments, scorecards>>

AddVersionInsert(r) ==
    /\ At(r, "add_version", "insert") /\ req[r].to \notin versions
    /\ versions' = versions \union {req[r].to}
    /\ Step(r, "save")
    /\ UNCHANGED <<catalog, deployments, experiments, scorecards, calls>>

AddVersionSave(r) ==
    /\ At(r, "add_version", "save")
    /\ catalog' = [req[r].doc EXCEPT !.version = req[r].to]
    /\ Done(r)
    /\ UNCHANGED <<versions, deployments, experiments, scorecards, calls>>

\* promote_strategy: read, gate, deployment row, save.
PromoteRead(r) ==
    /\ catalog # None /\ NextStatus(catalog.status) # None
    /\ Begin(r, "promote", "gate", NextStatus(catalog.status))
    /\ UNCHANGED <<catalog, versions, deployments, experiments, scorecards>>

\* Mutant of GateOpen: LIVE asks for a scorecard, whatever its score.
GateOpenAnyScore(to) ==
    /\ to = "PAPER" => \E e \in Experiments : experiments[e] = "COMPLETED"
    /\ to = "LIVE" => scorecards # << >>

\* PAPER needs a COMPLETED experiment, LIVE a latest scorecard of 50 or more.
GateOpen(to) ==
    /\ to = "PAPER" => \E e \in Experiments : experiments[e] = "COMPLETED"
    /\ to = "LIVE" => /\ scorecards # << >>
                      /\ scorecards[Len(scorecards)] >= PassMark

PromoteGate(r) ==
    /\ At(r, "promote", "gate")
    /\ IF GateOpen(req[r].to) THEN Step(r, "deploy") ELSE Done(r)
    /\ UNCHANGED <<catalog, versions, deployments, experiments, scorecards, calls>>

\* retire_strategy: RETIRED is a successor of every other status.
RetireRead(r) ==
    /\ catalog # None /\ catalog.status # "RETIRED"
    /\ Begin(r, "retire", "deploy", "RETIRED")
    /\ UNCHANGED <<catalog, versions, deployments, experiments, scorecards>>

CreateDeployment(r) ==
    /\ req[r].at = "deploy"
    /\ deployments' = deployments \union {<<req[r].doc.status, req[r].to>>}
    /\ Step(r, "status")
    /\ UNCHANGED <<catalog, versions, experiments, scorecards, calls>>

SaveStatus(r) ==
    /\ req[r].at = "status"
    /\ catalog' = [req[r].doc EXCEPT !.status = req[r].to]
    /\ Done(r)
    /\ UNCHANGED <<versions, deployments, experiments, scorecards, calls>>

\* create_experiment.
CreateExperiment(e) ==
    /\ catalog # None /\ experiments[e] = None
    /\ experiments' = [experiments EXCEPT ![e] = "PENDING"]
    /\ UNCHANGED <<catalog, versions, deployments, scorecards, req, calls>>

\* run_experiment: RUNNING is saved, then COMPLETED, with no backtest in
\* between (backtest_run_id is "pending_execution").
RunExperiment(r, e) ==
    /\ experiments[e] # None
    /\ Begin(r, "experiment", "finish", e)
    /\ experiments' = [experiments EXCEPT ![e] = "RUNNING"]
    /\ UNCHANGED <<catalog, versions, deployments, scorecards>>

FinishExperiment(r) ==
    /\ At(r, "experiment", "finish")
    /\ experiments' = [experiments EXCEPT ![req[r].to] = "COMPLETED"]
    /\ Done(r)
    /\ UNCHANGED <<catalog, versions, deployments, scorecards, calls>>

\* link_experiment_results.
LinkExperimentResults(e) ==
    /\ experiments[e] # None
    /\ experiments' = [experiments EXCEPT ![e] = "COMPLETED"]
    /\ UNCHANGED <<catalog, versions, deployments, scorecards, req, calls>>

\* compute_scorecard: always a new document.
ComputeScorecard ==
    /\ catalog # None /\ Len(scorecards) < MaxScorecards
    /\ \E s \in Scores : scorecards' = Append(scorecards, s)
    /\ UNCHANGED <<catalog, versions, deployments, experiments, req, calls>>

RequestStep(r) ==
    \/ RegisterRead(r) \/ RegisterInsert(r) \/ RegisterVersion(r)
    \/ \E v \in Versions : AddVersionRead(r, v)
    \/ AddVersionInsert(r) \/ AddVersionSave(r)
    \/ PromoteRead(r) \/ PromoteGate(r) \/ RetireRead(r)
    \/ CreateDeployment(r) \/ SaveStatus(r)
    \/ \E e \in Experiments : RunExperiment(r, e)
    \/ FinishExperiment(r) \/ CallFails(r)

LabNext ==
    \/ \E r \in Requests : RequestStep(r)
    \/ \E e \in Experiments : CreateExperiment(e) \/ LinkExperimentResults(e)
    \/ ComputeScorecard

LabSpec == LabInit /\ [][LabNext]_labVars
-----------------------------------------------------------------------------
(* Properties. *)

Requires(to) == CASE to = "TESTING" -> "DEVELOPMENT"
                  [] to = "PAPER" -> "TESTING"
                  [] to = "LIVE" -> "PAPER"

\* What the deployment log, the experiments and the scorecards show.
Reached(s) == <<Requires(s), s>> \in deployments
Tested == \E e \in Experiments : experiments[e] \in {"RUNNING", "COMPLETED"}
Scored == \E i \in 1 .. Len(scorecards) : scorecards[i] >= PassMark
Earned(status) ==
    /\ status \in {"TESTING", "PAPER", "LIVE"} => Reached("TESTING")
    /\ status \in {"PAPER", "LIVE"} => Reached("PAPER") /\ Tested
    /\ status = "LIVE" => Reached("LIVE") /\ Scored

\* A catalog entry says TESTING, PAPER or LIVE only if the deployment log
\* shows the step that led there and every step before it, and the gates on
\* the way: an experiment was run before PAPER, a scorecard of 50 or more
\* was computed before LIVE.  It holds although requests overlap, save stale
\* documents over one another and fail half way.
LiveIsEarned == catalog # None => Earned(catalog.status)
=============================================================================
