\* Three calls, two at a time, in two processes, one of whose streams is listened to; or
\* two users and two calls about them.
SPECIFICATION MCSpec
CONSTANTS
  i1 = i1
  i2 = i2
  p1 = p1
  p2 = p2
  s1 = s1
  a = a
  b = b
  c1 = c1
  u1 = u1
  u2 = u2
  r1 = r1
  r2 = r2
  Absent = Absent
  Gone = Gone
  Instances = {i1, i2}
  Callers = {p1, p2}
  Listeners = {s1}
  Values = {a, b}
  Ids = {1, 2}
  Existing = 0
  Capacity = 1
  BatchSize = 2
  MaxWrites = 3
  MaxCuts = 1
  Channels = {c1}
  Users = {u1, u2}
  Clients = {r1, r2}
  Timeout = 3
  Interval = 1
  Slack = 1
INVARIANTS
  StreamsSound
  PresenceSound
SYMMETRY Alike
\* All calls may have been made.
CHECK_DEADLOCK FALSE
