\* Two workers, two attempts, every fault; and lists of two parts in a cron field.
SPECIFICATION MCSpec
CONSTANTS
  j1 = j1
  j2 = j2
  w1 = w1
  w2 = w2
  NoJob = NoJob
  Jobs = {j1, j2}
  Workers = {w1, w2}
  MaxAttempts = 2
  TypeOf <- AllMail
  Priority <- Urgent
  Environment = {"crash", "panic", "lost"}
  Fields <- MCFields
  Numbers = {0, 2, 3, 7, 254}
  MaxParts = 2
INVARIANTS
  QueueSound
  StatusTruthful
PROPERTIES
  JobsEndOnce
  ImplementsLedger
  FieldsAreRead
\* Every job may have ended.
CHECK_DEADLOCK FALSE
