\* Anything may happen: panics and failing requests.
CONSTANTS
  MayPanic = TRUE
  MayFail = TRUE
SPECIFICATION Spec
INVARIANTS
  TypeOK
  OneStream
  OneLateIndicator
PROPERTIES
  TaskEndsAfterReturn
\* The handler may run for ever, and ends for good.
CHECK_DEADLOCK FALSE
