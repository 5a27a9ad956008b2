SPECIFICATION Spec
CONSTANTS
  Entries = {"scheduled-reports", "due-connectors", "nightly-finops-passes", "integrations-sweep"}
  Workers = {w1, w2}
  WorkerQueues = {"celery"}
  NoEntry = NoEntry
  MaxTicks = 2
  MaxLosses = 1
CHECK_DEADLOCK FALSE
INVARIANTS NothingLost
PROPERTIES ServedJobsRun
