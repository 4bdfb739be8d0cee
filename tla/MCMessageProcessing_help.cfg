\* One text, to which the answer is the help.
CONSTANTS
  Tasks = {t1}
  Reactions = {}
  MaxIds = 1
  Plans <- HelpOnly
SPECIFICATION Spec
INVARIANT HelpIsInline
\* When all messages are processed, nothing is left to do.
CHECK_DEADLOCK FALSE
