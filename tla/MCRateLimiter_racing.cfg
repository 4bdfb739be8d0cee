\* The limit as rate_limit.rs documents it, with calls that overlap.
CONSTANTS
  Users = {u1}
  Calls = {c1, c2}
  Limit <- OneEach
  Duration <- ShortDuration
  Idle <- ShortIdle
  Capacity = 1
  CountMax = 2
  Serialized = FALSE
  Second = 2
  MaxTime = 3
  MaxEvictions = 0
SPECIFICATION NoticeSpec
INVARIANT DoubleBurstBound
