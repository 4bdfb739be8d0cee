\* A text and a reaction with two message IDs, of one user.
CONSTANTS
  Tasks = {t1, t2}
  Reactions = {t2}
  MaxIds = 2
  Plans <- AllPlans
SPECIFICATION Spec
INVARIANTS
  TypeOK
  InOrder
  AnnouncedOnce
  FewOrphans
PROPERTIES
  ConcludedForGood
  EveryContextConcluded
\* When all messages are processed, nothing is left to do.
CHECK_DEADLOCK FALSE
