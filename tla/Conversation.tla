---------------------------- MODULE Conversation ----------------------------
(***************************************************************************)
(* What the server promises about a message, without handlers, caches and  *)
(* tasks: the bot takes it up once, and once more each time the server has *)
(* lost its memory of it, and the user receives something only while the   *)
(* bot is at work on the message.                                          *)
(*                                                                         *)
(* Bot implements this module.                                             *)
(***************************************************************************)
EXTENDS Naturals

CONSTANT Messages

VARIABLES
  taken,      \* taken[m]: how often the bot began to work on m
  finished,   \* finished[m]: how often that came to an end, good or bad
  forgotten,  \* forgotten[m]: how often the server forgot that it had seen m
  received    \* received[m]: how many responses to m the user has got

vars == <<taken, finished, forgotten, received>>

Init ==
  /\ taken = [m \in Messages |-> 0]
  /\ finished = [m \in Messages |-> 0]
  /\ forgotten = [m \in Messages |-> 0]
  /\ received = [m \in Messages |-> 0]

AtWork(m) == finished[m] < taken[m]

Take(m) ==
  /\ taken[m] <= forgotten[m]
  /\ taken' = [taken EXCEPT ![m] = @ + 1]
  /\ UNCHANGED <<finished, forgotten, received>>

\* A response may be the last thing the bot does for a message.
Respond(m) ==
  /\ AtWork(m)
  /\ received' = [received EXCEPT ![m] = @ + 1]
  /\ finished' \in {finished, [finished EXCEPT ![m] = @ + 1]}
  /\ UNCHANGED <<taken, forgotten>>

Finish(m) ==
  /\ AtWork(m)
  /\ finished' = [finished EXCEPT ![m] = @ + 1]
  /\ UNCHANGED <<taken, forgotten, received>>

Forget(S) ==
  forgotten' = [m \in Messages |-> IF m \in S THEN forgotten[m] + 1 ELSE forgotten[m]]

\* The memory of one message is lost while the server goes on ...
Evict(m) == Forget({m}) /\ UNCHANGED <<taken, finished, received>>

\* ... or that of many, and all work with it.
Restart(S) == Forget(S) /\ finished' = taken /\ UNCHANGED <<taken, received>>

Next ==
  \/ \E m \in Messages : Take(m)
  \/ \E m \in Messages : Respond(m)
  \/ \E m \in Messages : Finish(m)
  \/ \E m \in Messages : Evict(m)
  \/ \E S \in SUBSET Messages : Restart(S)

Spec == Init /\ [][Next]_vars

=============================================================================
