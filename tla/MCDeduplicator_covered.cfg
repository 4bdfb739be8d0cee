\* Ttl is one more than the sum of the other four: the tightest instance in
\* which the retention covers the acceptance of a message.
CONSTANTS
  Requests = {r1, r2}
  Senders = {s1, s2}
  MessageIds = {i1}
  Ttl = 5
  MaxAge = 1
  Capacity = 1
  MaxLead = 1
  MaxSkew = 1
  MaxLag = 1
  MaxTime = 7
  MaxForgotten = 1
SPECIFICATION Spec
SYMMETRY Symmetry
INVARIANTS
  TypeOK
  AtMostOnce
  NoMistakenIdentity
PROPERTIES
  ImplementsInbox
