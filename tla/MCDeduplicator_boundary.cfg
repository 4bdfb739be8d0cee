\* What BotServer::run configures: the time to live equals the default of
\* max_webhook_age_seconds.  Exact clocks, no restart, no eviction.
CONSTANTS
  Requests = {r1}
  Senders = {s1}
  MessageIds = {i1}
  Ttl = 2
  MaxAge = 2
  Capacity = 1
  MaxLead = 0
  MaxSkew = 0
  MaxLag = 0
  MaxTime = 5
  MaxForgotten = 0
SPECIFICATION Spec
INVARIANT AtMostOnce
