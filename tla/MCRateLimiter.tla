--------------------------- MODULE MCRateLimiter ---------------------------
(***************************************************************************)
(* RateLimitNotice, and with it RateLimiter, on small instances: the cfg   *)
(* files give one number for each kind of window.                          *)
(***************************************************************************)
EXTENDS RateLimitNotice

PerKind(minute, hour) == [k \in Kinds |-> IF k = "minute" THEN minute ELSE hour]

\* A minute of two ticks and an hour of four, each idle one tick later.
ShortDuration == PerKind(2, 4)
ShortIdle == PerKind(3, 5)

OneEach == PerKind(1, 1)
OneAndTwo == PerKind(1, 2)

=============================================================================
