SPECIFICATION Spec
CONSTANTS
  weekly = weekly
  monthly = monthly
  Schedules <- MCSchedules
  Every <- MCEvery
  Offset <- MCOffset
  Report <- MCReport
  Workers = {w1, w2}
  Flushers = {f1}
  Mailed <- MCMailed
  Month = 2
  MaxTime = 2
  MaxLosses = 1
  NoObject = NoObject
INVARIANTS ReportWasStored NextFollowsJob MailNotLost
PROPERTIES DueIsServed
