\* One user, whose windows may be dropped once each: users outside of the model
\* take up the caches.
CONSTANTS
  Users = {u1}
  Calls = {c1}
  Limit <- OneAndTwo
  Duration <- ShortDuration
  Idle <- ShortIdle
  Capacity = 0
  CountMax = 3
  Serialized = TRUE
  Second = 2
  MaxTime = 6
  MaxEvictions = 1
SPECIFICATION NoticeSpec
INVARIANTS
  TypeOK
  DoubleBurstBound
PROPERTIES
  NeverLimitedEarly
  WaitingHelps
