\* One message of every content, whose sender is listed or not, delivered by
\* calls that overlap, with every fault.
CONSTANTS
  u1 = u1
  u2 = u2
  Requests = {r1, r2}
  Messages = {m1}
  NoMessage = NoMessage
  Users = {u1, u2}
  Sender <- OneSender
  AllowLists = {{}, {u1}, {u2}}
  RateLimiting = TRUE
  Contents = {"forged", "unparsable", "garbled", "reaction", "silent", "text"}
  MaxForgotten = 1
  MaxExpiries = 1
  MaxRestarts = 1
  MaxLost = 1
  MaxIds = 1
  Plans <- ShortPlans
SPECIFICATION BotSpec
INVARIANTS
  UnlistedIsOnlyDenied
  AnsweredIsRead
  SilenceHasAReason
PROPERTIES
  ImplementsConversation
  EveryMessageEnds
\* When everything is acknowledged, the server waits for the next call.
CHECK_DEADLOCK FALSE
