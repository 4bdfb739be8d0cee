-------------------------- MODULE RateLimitNotice --------------------------
(***************************************************************************)
(* The rate limiter with what it tells a user it refuses (rate_limit.rs):  *)
(* to try again when the rest of the window is over, a time that is cut    *)
(* down to whole seconds.                                                  *)
(***************************************************************************)
EXTENDS RateLimiter

CONSTANT Second      \* ticks of the clock in a second

ASSUME RateLimitNoticeAssumption == Second \in Nat \ {0}

VARIABLE told  \* told[k][u]: when k's window last refused u, the seconds to wait,
               \* and how many of u's messages it had let pass by then

noticeVars == <<vars, told>>

NotTold == [at |-> -1, wait |-> 0, passed |-> 0]

NoticeInit ==
  /\ Init
  /\ told = [k \in Kinds |-> [u \in Users |-> NotTold]]

\* Faulty: the time that has passed, not the time that is left.
TimeElapsed(w, k) == now - w.started

\* Window::time_remaining.
TimeRemaining(w, k) ==
  IF now - w.started < Duration[k] THEN Duration[k] - (now - w.started) ELSE 0

Hour == Duration["hour"] \div Second

\* format_duration: whole seconds, and from an hour on whole hours.
FormatDuration(d) ==
  LET seconds == d \div Second
  IN  IF seconds < Hour THEN seconds ELSE (seconds \div Hour) * Hour

\* A call is refused, and the user told to try again.
Refuse(c, k) ==
  /\ WriteLimited(c, k)
  /\ told' = [told EXCEPT ![k][call[c].user] =
                [at |-> now,
                 wait |-> FormatDuration(TimeRemaining(Incremented(call[c].window, k), k)),
                 passed |-> Len(passed[k][call[c].user])]]

NoticeNext ==
  \/ /\ \/ Tick
        \/ \E c \in Calls, u \in Users : Begin(c, u)
        \/ \E c \in Calls, k \in Kinds : Read(c, k)
        \/ \E c \in Calls, k \in Kinds : WritePassed(c, k)
        \/ \E k \in Kinds, u \in Users : Evict(k, u)
     /\ UNCHANGED told
  \/ \E c \in Calls, k \in Kinds : Refuse(c, k)

NoticeSpec == NoticeInit /\ [][NoticeNext]_noticeVars

-----------------------------------------------------------------------------

\* A user who was refused and tries again once the time that was told is over,
\* and one second more, is not refused by the same window, whatever the user
\* sent in the meantime: another Limit[k] messages must have passed before
\* (rate_limit.rs: "Try again in ...").  The second makes up for the fraction
\* that is cut off; without it a user who obeys may be refused again.
WaitingHelps ==
  [][\A c \in Calls, k \in Kinds :
       LET u == call[c].user
       IN  WriteLimited(c, k) /\ told[k][u] # NotTold
             /\ now >= told[k][u].at + (told[k][u].wait + 1) * Second
           => Len(passed[k][u]) - told[k][u].passed >= Limit[k]]_noticeVars

=============================================================================
