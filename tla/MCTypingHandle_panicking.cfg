\* The handler may panic.
CONSTANTS
  MayPanic = TRUE
  MayFail = FALSE
SPECIFICATION Spec
PROPERTY TaskEndsInTheEnd
\* The handler may run for ever, and ends for good.
CHECK_DEADLOCK FALSE
