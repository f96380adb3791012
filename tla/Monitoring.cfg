CONSTANTS
  Components = {"mongodb", "broker_angelone", "websocket_manager", "scheduler", "signal_engine", "portfolio_engine", "execution_engine", "paper_trading_engine", "reconciliation_engine"}
  Slots = {1, 2, 3}
  Clients = {job, request, op}
  NumChecks = 2
  Watched <- MCWatched
  Job = job
  Request = request
  Operators = {op}
  Threshold = 2
  MaxTroubles = 2
  None = None
SPECIFICATION Spec
INVARIANTS OneOpenIncident
PROPERTIES PersistentFailureEscalates RecoveryResolves OutageIsAnnounced
