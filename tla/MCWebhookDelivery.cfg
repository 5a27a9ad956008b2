SPECIFICATION FairSpec
CONSTANTS
  Deliveries = {1, 2}
  e1 = e1
  e2 = e2
  Endpoints = {e1, e2}
  EndpointOf <- MCEndpointOf
  Answers <- MCAnswers
  AllowPrivate = FALSE
  Sweeps = {w1, w2}
  BatchSize = 1
  MaxAttempts = 3
  MaxLosses = 1
CHECK_DEADLOCK FALSE
INVARIANTS OutcomesAreTrue
PROPERTIES SettledStaysSettled EveryDeliverySettles
