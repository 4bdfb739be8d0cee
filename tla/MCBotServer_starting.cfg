\* Every file with one deviation, every environment with up to two keys.
CONSTANTS
  Files <- SomeFiles
  Environments <- SomeEnvironments
  Runs = {r1, r2}
SPECIFICATION Spec
INVARIANTS
  TypeOK
  RunsAsWritten
  RejectedWithReason
  LimitedAsWritten
\* A bot that was rejected does nothing more.
CHECK_DEADLOCK FALSE
