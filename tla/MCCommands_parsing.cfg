SPECIFICATION Spec
CONSTANTS
  Pieces <- MCPieces
  Names <- MCNames
  GroupIds = {g1, g2}
  Ungrouped = Ungrouped
  MaxCommands = 2
  MaxGroups = 2
  MaxText = 4
  MaxOverrides = 2
INVARIANTS
  TypeOK
  ListedIsDispatched
  ListedOnce
  NothingIsLost
  QuotedIsTheSame
  PageFollowsCalls
