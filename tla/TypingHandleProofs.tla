------------------------- MODULE TypingHandleProofs -------------------------
(***************************************************************************)
(* The typing indicator, whether or not handlers panic and requests fail:  *)
(* one stream of indicators, and at most one after it was stopped.         *)
(***************************************************************************)
EXTENDS TypingHandle, TLAPS

\* As long as the handler runs, the handle remembers what was spawned.
Remembered == processing = "handler" => ~aborted /\ (~slot => spawned = 0)

\* The handle holds, and a reset follows, a task that was spawned.
Spawned ==
  /\ spawned \in {0, 1}
  /\ slot => spawned = 1
  /\ processing \in {"stopping", "resetting"} \/ "notTyping" \in wire => spawned = 1

\* A task that was marked is in its last round: it has issued its late request
\* and will not encode another one.
LastRound ==
  /\ late # 0 => aborted /\ task \in {"sending", "gone"}
  /\ late \in {0, 1}

IInv == TypeOK /\ Remembered /\ Spawned /\ LastRound

\* All the arithmetic there is.
LEMMA ZeroOne == 0 \in Nat /\ 1 \in Nat /\ 0 # 1 /\ 0 + 1 = 1
OBVIOUS

LEMMA InitIInv == Init => IInv
BY ZeroOne, Zenon DEF Init, IInv, TypeOK, Remembered, Spawned, LastRound, Packets

LEMMA NextIInv == IInv /\ [Next]_vars => IInv'
<1> SUFFICES ASSUME IInv, [Next]_vars PROVE IInv'
  OBVIOUS
<1> USE ZeroOne DEF IInv
<1>1. CASE Send
  <2>1. TypeOK'
    BY <1>1 DEF Send, TypeOK, Spawned, Packets
  <2>2. Remembered'
    BY <1>1 DEF Send, Remembered
  <2>3. Spawned'
    BY <1>1 DEF Send, Spawned, Remembered
  <2>4. LastRound'
    BY <1>1 DEF Send, LastRound, Remembered
  <2> QED
    BY <2>1, <2>2, <2>3, <2>4
<1>2. CASE HandlerReturns
  <2>1. TypeOK'
    BY <1>2 DEF HandlerReturns, TypeOK, Spawned, Packets
  <2>2. Remembered'
    BY <1>2 DEF HandlerReturns, Remembered
  <2>3. Spawned'
    BY <1>2 DEF HandlerReturns, Spawned, Remembered
  <2>4. LastRound'
    BY <1>2 DEF HandlerReturns, LastRound, Remembered
  <2> QED
    BY <2>1, <2>2, <2>3, <2>4
<1>3. CASE HandlerPanics
  <2>1. TypeOK'
    BY <1>3 DEF HandlerPanics, TypeOK, Spawned, Packets
  <2>2. Remembered'
    BY <1>3 DEF HandlerPanics, Remembered
  <2>3. Spawned'
    BY <1>3 DEF HandlerPanics, Spawned, Remembered
  <2>4. LastRound'
    BY <1>3 DEF HandlerPanics, LastRound, Remembered
  <2> QED
    BY <2>1, <2>2, <2>3, <2>4
<1>4. CASE StopRepeating
  <2>1. TypeOK'
    BY <1>4 DEF StopRepeating, TypeOK, Spawned, Packets
  <2>2. Remembered'
    BY <1>4 DEF StopRepeating, Remembered
  <2>3. Spawned'
    BY <1>4 DEF StopRepeating, Spawned, Remembered
  <2>4. LastRound'
    BY <1>4 DEF StopRepeating, LastRound, Remembered
  <2> QED
    BY <2>1, <2>2, <2>3, <2>4
<1>5. CASE StopWithoutTask
  <2>1. TypeOK'
    BY <1>5 DEF StopWithoutTask, TypeOK, Spawned, Packets
  <2>2. Remembered'
    BY <1>5 DEF StopWithoutTask, Remembered
  <2>3. Spawned'
    BY <1>5 DEF StopWithoutTask, Spawned, Remembered
  <2>4. LastRound'
    BY <1>5 DEF StopWithoutTask, LastRound, Remembered
  <2> QED
    BY <2>1, <2>2, <2>3, <2>4
<1>6. CASE SendReset
  <2>1. TypeOK'
    BY <1>6 DEF SendReset, TypeOK, Spawned, Packets
  <2>2. Remembered'
    BY <1>6 DEF SendReset, Remembered
  <2>3. Spawned'
    BY <1>6 DEF SendReset, Spawned, Remembered
  <2>4. LastRound'
    BY <1>6 DEF SendReset, LastRound, Remembered
  <2> QED
    BY <2>1, <2>2, <2>3, <2>4
<1>7. CASE ResetAnswered
  <2>1. TypeOK'
    BY <1>7 DEF ResetAnswered, TypeOK, Spawned, Packets
  <2>2. Remembered'
    BY <1>7 DEF ResetAnswered, Remembered
  <2>3. Spawned'
    BY <1>7 DEF ResetAnswered, Spawned, Remembered
  <2>4. LastRound'
    BY <1>7 DEF ResetAnswered, LastRound, Remembered
  <2> QED
    BY <2>1, <2>2, <2>3, <2>4
<1>8. CASE TaskTick
  <2>1. TypeOK'
    BY <1>8 DEF TaskTick, TypeOK, Spawned, Packets
  <2>2. Remembered'
    BY <1>8 DEF TaskTick, Remembered
  <2>3. Spawned'
    BY <1>8 DEF TaskTick, Spawned, Remembered
  <2>4. LastRound'
    BY <1>8 DEF TaskTick, LastRound, Remembered
  <2> QED
    BY <2>1, <2>2, <2>3, <2>4
<1>9. CASE TaskSend
  <2>1. TypeOK'
    BY <1>9 DEF TaskSend, TypeOK, Spawned, Packets
  <2>2. Remembered'
    BY <1>9 DEF TaskSend, Remembered
  <2>3. Spawned'
    BY <1>9 DEF TaskSend, Spawned, Remembered
  <2>4. LastRound'
    BY <1>9 DEF TaskSend, LastRound, Remembered
  <2> QED
    BY <2>1, <2>2, <2>3, <2>4
<1>10. CASE TaskAnswered
  <2>1. TypeOK'
    BY <1>10 DEF TaskAnswered, TypeOK, Spawned, Packets
  <2>2. Remembered'
    BY <1>10 DEF TaskAnswered, Remembered
  <2>3. Spawned'
    BY <1>10 DEF TaskAnswered, Spawned, Remembered
  <2>4. LastRound'
    BY <1>10 DEF TaskAnswered, LastRound, Remembered
  <2> QED
    BY <2>1, <2>2, <2>3, <2>4
<1>11. CASE TaskEnds
  <2>1. TypeOK'
    BY <1>11 DEF TaskEnds, TypeOK, Spawned, Packets
  <2>2. Remembered'
    BY <1>11 DEF TaskEnds, Remembered
  <2>3. Spawned'
    BY <1>11 DEF TaskEnds, Spawned, Remembered
  <2>4. LastRound'
    BY <1>11 DEF TaskEnds, LastRound, Remembered
  <2> QED
    BY <2>1, <2>2, <2>3, <2>4
<1>12. ASSUME NEW p \in Packets, Arrive(p) \/ Fail(p) PROVE IInv'
  <2>1. TypeOK'
    BY <1>12 DEF Arrive, Fail, TypeOK, Spawned, Packets
  <2>2. Remembered'
    BY <1>12 DEF Arrive, Fail, Remembered
  <2>3. Spawned'
    BY <1>12 DEF Arrive, Fail, Spawned, Remembered
  <2>4. LastRound'
    BY <1>12 DEF Arrive, Fail, LastRound, Remembered
  <2> QED
    BY <2>1, <2>2, <2>3, <2>4
<1>13. CASE UNCHANGED vars
  <2>1. TypeOK'
    BY <1>13 DEF vars, TypeOK, Spawned, Packets
  <2>2. Remembered'
    BY <1>13 DEF vars, Remembered
  <2>3. Spawned'
    BY <1>13 DEF vars, Spawned, Remembered
  <2>4. LastRound'
    BY <1>13 DEF vars, LastRound, Remembered
  <2> QED
    BY <2>1, <2>2, <2>3, <2>4
<1> QED
  BY <1>1, <1>2, <1>3, <1>4, <1>5, <1>6, <1>7, <1>8, <1>9, <1>10, <1>11, <1>12, <1>13
  DEF Next, Stop, Repeat, Network

LEMMA Invariance == Spec => []IInv
BY InitIInv, NextIInv, PTL DEF Spec

\* The variables of the typing handle keep their types.
THEOREM TypingHandleTypeOK == Spec => []TypeOK
<1>1. IInv => TypeOK
  BY DEF IInv
<1> QED
  BY <1>1, Invariance, PTL

\* However often the handler calls send, one task is spawned; the indicator is
\* reset only if it was (handler.rs, TypingHandle::send and stop).
THEOREM TypingHandleOneStream == Spec => []OneStream
<1>1. IInv => OneStream
  BY DEF IInv, Spawned, OneStream
<1> QED
  BY <1>1, Invariance, PTL

\* Aborting without waiting lets at most one more indicator out: what follows the
\* request is an await, where a marked task ends (handler.rs, TypingHandle::stop).
THEOREM TypingHandleOneLateIndicator == Spec => []OneLateIndicator
<1>1. IInv => OneLateIndicator
  BY DEF IInv, LastRound, OneLateIndicator
<1> QED
  BY <1>1, Invariance, PTL

=============================================================================
