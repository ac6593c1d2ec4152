\* Two processes drain two deliveries, or retry two failed payments.
SPECIFICATION MCSpec
CONSTANTS
  e1 = e1
  d1 = d1
  d2 = d2
  w1 = w1
  w2 = w2
  x1 = x1
  x2 = x2
  Nothing = Nothing
  Endpoints = {e1}
  Deliveries = {d1, d2}
  Dispatchers = {w1, w2}
  Events = {x1, x2}
  Workers = {w1, w2}
  MaxRetries = 2
  NoEvent = NoEvent
  EventTypes = {"RENEWAL", "CANCELLATION"}
  Wants <- MCWants
  MaxAttempts = 2
  MaxDisturbances = 1
  MaxMishaps = 2
INVARIANTS
  DispatchSound
  DunningSound
PROPERTIES
  WorkEnds
\* Everything may have been delivered, recovered or given up.
CHECK_DEADLOCK FALSE
