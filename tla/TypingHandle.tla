---------------------------- MODULE TypingHandle ----------------------------
(***************************************************************************)
(* The typing indicator of one message in processing (server/handler.rs),  *)
(* and the part of process_text_message and process_location_message that  *)
(* creates, lends and stops it (server/mod.rs).                            *)
(*                                                                         *)
(* The bot's handler may start a task that repeats the indicator; when the *)
(* handler returns, the server aborts that task and resets the indicator.  *)
(* Aborting only marks a task: it ends at its next await, and nobody waits *)
(* for it to end.  The requests of the two go to the Gateway on their own  *)
(* and may overtake each other.                                            *)
(***************************************************************************)
EXTENDS Naturals

CONSTANTS
  MayPanic,    \* TRUE: the bot's handler may panic
  MayFail      \* TRUE: a request to the Gateway may fail

ASSUME TypingHandleAssumption ==
  /\ MayPanic \in BOOLEAN
  /\ MayFail \in BOOLEAN

VARIABLES
  processing, \* where processing of the message is
  slot,       \* the handle's mutex holds a JoinHandle
  task,       \* where the repeating task is
  aborted,    \* the task is marked to end
  wire,       \* requests on their way: "typing", "notTyping"
  shown,      \* the user sees the indicator
  spawned,    \* how often a task was spawned
  late        \* how many requests it issued after it was marked

vars == <<processing, slot, task, aborted, wire, shown, spawned, late>>

Packets == {"typing", "notTyping"}

TypeOK ==
  /\ processing \in {"handler", "returned", "stopping", "resetting", "finished", "panicked"}
  /\ slot \in BOOLEAN
  /\ task \in {"none", "ticking", "encoding", "sending", "gone"}
  /\ aborted \in BOOLEAN
  /\ wire \subseteq Packets
  /\ shown \in BOOLEAN
  /\ spawned \in Nat
  /\ late \in Nat

\* TypingHandle::new, and the handler is called with a reference to it.
Init ==
  /\ processing = "handler"
  /\ slot = FALSE
  /\ task = "none"
  /\ aborted = FALSE
  /\ wire = {}
  /\ shown = FALSE
  /\ spawned = 0
  /\ late = 0

-----------------------------------------------------------------------------

\* Faulty: a second call spawns a second task.
SendAgain ==
  /\ processing = "handler"
  /\ slot' = TRUE
  /\ task' = "ticking"
  /\ spawned < 2
  /\ spawned' = spawned + 1
  /\ UNCHANGED <<processing, aborted, wire, shown, late>>

\* TypingHandle::send, called by the bot's handler at any time.
Send ==
  /\ processing = "handler"
  /\ ~slot
  /\ slot' = TRUE
  /\ task' = "ticking"
  /\ spawned' = spawned + 1
  /\ UNCHANGED <<processing, aborted, wire, shown, late>>

\* The handler returns, with an action or an error.
HandlerReturns ==
  /\ processing = "handler"
  /\ processing' = "returned"
  /\ UNCHANGED <<slot, task, aborted, wire, shown, spawned, late>>

\* The handler panics.  The handle is dropped with the task that processes the
\* message; dropping a JoinHandle detaches its task.
HandlerPanics ==
  /\ processing = "handler"
  /\ MayPanic
  /\ processing' = "panicked"
  /\ slot' = FALSE
  /\ UNCHANGED <<task, aborted, wire, shown, spawned, late>>

\* Faulty: the JoinHandle is dropped, which detaches the task.
StopByDropping ==
  /\ processing = "returned"
  /\ slot
  /\ slot' = FALSE
  /\ processing' = "stopping"
  /\ UNCHANGED <<task, aborted, wire, shown, spawned, late>>

\* TypingHandle::stop takes the JoinHandle, if there is one, and aborts.
StopRepeating ==
  /\ processing = "returned"
  /\ slot
  /\ slot' = FALSE
  /\ aborted' = TRUE
  /\ processing' = "stopping"
  /\ UNCHANGED <<task, wire, shown, spawned, late>>

StopWithoutTask ==
  /\ processing = "returned"
  /\ ~slot
  /\ processing' = "finished"
  /\ UNCHANGED <<slot, task, aborted, wire, shown, spawned, late>>

\* ... issues the request that resets the indicator ...
SendReset ==
  /\ processing = "stopping"
  /\ wire' = wire \cup {"notTyping"}
  /\ processing' = "resetting"
  /\ UNCHANGED <<slot, task, aborted, shown, spawned, late>>

\* ... and waits for the outcome of that request.
ResetAnswered ==
  /\ processing = "resetting"
  /\ "notTyping" \notin wire
  /\ processing' = "finished"
  /\ UNCHANGED <<slot, task, aborted, wire, shown, spawned, late>>

-----------------------------------------------------------------------------

\* interval.tick() completes: the task runs up to its next await.
TaskTick ==
  /\ task = "ticking"
  /\ ~aborted
  /\ task' = "encoding"
  /\ UNCHANGED <<processing, slot, aborted, wire, shown, spawned, late>>

\* Faulty: the request holds a status that is none of the two.
TaskSendsNonsense ==
  /\ task = "encoding"
  /\ wire' = wire \cup {"nonsense"}
  /\ task' = "sending"
  /\ late' = IF aborted THEN late + 1 ELSE late
  /\ UNCHANGED <<processing, slot, aborted, shown, spawned>>

\* It issues the request, whether or not it was marked in the meantime.
TaskSend ==
  /\ task = "encoding"
  /\ wire' = wire \cup {"typing"}
  /\ task' = "sending"
  /\ late' = IF aborted THEN late + 1 ELSE late
  /\ UNCHANGED <<processing, slot, aborted, shown, spawned>>

\* Faulty: the next indicator follows at once, without an await.
TaskRepeatsAtOnce ==
  /\ task = "sending"
  /\ "typing" \notin wire
  /\ late < 2
  /\ task' = "encoding"
  /\ UNCHANGED <<processing, slot, aborted, wire, shown, spawned, late>>

\* The request is answered, or failed.
TaskAnswered ==
  /\ task = "sending"
  /\ ~aborted
  /\ "typing" \notin wire
  /\ task' = "ticking"
  /\ UNCHANGED <<processing, slot, aborted, wire, shown, spawned, late>>

\* A marked task ends at an await; a request it has issued goes on.
TaskEnds ==
  /\ task \in {"ticking", "sending"}
  /\ aborted
  /\ task' = "gone"
  /\ UNCHANGED <<processing, slot, aborted, wire, shown, spawned, late>>

\* A request reaches the user.
Arrive(p) ==
  /\ p \in wire
  /\ wire' = wire \ {p}
  /\ shown' = (p = "typing")
  /\ UNCHANGED <<processing, slot, task, aborted, spawned, late>>

\* A request fails, or its message could not be encoded; either is only logged.
Fail(p) ==
  /\ p \in wire
  /\ MayFail
  /\ wire' = wire \ {p}
  /\ UNCHANGED <<processing, slot, task, aborted, shown, spawned, late>>

Stop == StopRepeating \/ StopWithoutTask \/ SendReset \/ ResetAnswered

Repeat == TaskTick \/ TaskSend \/ TaskAnswered \/ TaskEnds

Network == \E p \in Packets : Arrive(p) \/ Fail(p)

Next ==
  \/ Send
  \/ HandlerReturns
  \/ HandlerPanics
  \/ Stop
  \/ Repeat
  \/ Network

\* The runtime schedules both tasks, and every request comes to an end.  The
\* bot's handler need not return.
Spec ==
  /\ Init /\ [][Next]_vars
  /\ WF_vars(Stop)
  /\ WF_vars(Repeat)
  /\ WF_vars(Network)

-----------------------------------------------------------------------------

Idle == task \in {"none", "gone"}

\* When the bot's handler has returned, processing goes on to its end, and the
\* repeating task ends, whatever becomes of the requests.
TaskEndsAfterReturn == processing = "returned" ~> processing = "finished" /\ Idle

\* When processing is over, by a panic too, the repeating task ends
\* (handler.rs: when processing completes, success or failure, the server
\* automatically stops the indicator).
TaskEndsInTheEnd == processing \in {"finished", "panicked"} ~> Idle

\* However often the handler calls send, the user gets one stream of
\* indicators, and a reset only after one was started (handler.rs: calling this
\* multiple times is a no-op; stop is safe even if send was never called).
OneStream ==
  /\ spawned <= 1
  /\ processing \in {"stopping", "resetting"} \/ "notTyping" \in wire => spawned = 1

\* Aborting without waiting lets at most one more indicator out.
OneLateIndicator == late <= 1

=============================================================================
