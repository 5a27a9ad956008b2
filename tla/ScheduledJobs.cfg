SPECIFICATION Spec
CONSTANTS
  Entries = {"nightly-session-prune", "scheduled-reports", "due-connectors", "nightly-finops-passes", "integrations-sweep"}
  Workers = {w1}
  WorkerQueues = {"default", "pricing", "ingestion"}
  NoEntry = NoEntry
  MaxTicks = 1
  MaxLosses = 0
CHECK_DEADLOCK FALSE
PROPERTIES ScheduledJobsRun
