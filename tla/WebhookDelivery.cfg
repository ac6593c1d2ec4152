\* Two workers and two deliveries, and a restart, lost write or requeued dead letter.
SPECIFICATION FairSpec
CONSTANTS
  e1 = e1
  e2 = e2
  d1 = d1
  d2 = d2
  w1 = w1
  w2 = w2
  Nothing = Nothing
  Endpoints = {e1}
  Deliveries = {d1, d2}
  Workers = {w1, w2}
  MaxRetries = 2
  BatchLimit = 2
  MaxDisturbances = 1
INVARIANTS
  OutcomesEarned
PROPERTIES
  NoPostAfterAcknowledgement
  EveryDeliveryEnds
\* Every delivery may have ended.
CHECK_DEADLOCK FALSE
