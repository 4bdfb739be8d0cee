\* Two messages of one user, texts or refused on the way, each delivered by calls
\* that overlap, with one fault next to evictions and expiries.
CONSTANTS
  u1 = u1
  Requests = {r1, r2}
  Messages = {m1, m2}
  NoMessage = NoMessage
  Users = {u1}
  Sender <- OneSender
  AllowLists = {{}}
  RateLimiting = TRUE
  Contents = {"forged", "unparsable", "garbled", "text"}
  MaxForgotten = 1
  MaxExpiries = 1
  MaxRestarts = 1
  MaxLost = 1
SPECIFICATION Spec
CONSTRAINT FewFaults
SYMMETRY OneSenderSymmetry
INVARIANTS
  TypeOK
  OneFate
  AcknowledgedIsSettled
  ReceiptsComeFirst
  ChargedOnce
  LimitedIsTold
  FewNotices
\* When everything is acknowledged, the server waits for the next call.
CHECK_DEADLOCK FALSE
