------------------------- MODULE RateLimiterProofs -------------------------
(***************************************************************************)
(* Theorems about the rate limiter, for any number of users, any limits,   *)
(* durations and capacities:                                               *)
(*   - nobody is limited early, however calls overlap;                     *)
(*   - calls that do not overlap for one user respect twice the limit;     *)
(*   - who waits as long as told, and the second that was cut off, is let  *)
(*     through, again for calls that do not overlap.                       *)
(* P stands for the history passed[k][u] throughout.                       *)
(***************************************************************************)
EXTENDS RateLimitNotice, FiniteSetTheorems, TLAPS

\* How many passes a window accounts for: its count, which goes on growing
\* when the limit is exceeded, up to the limit.
Counted(w, k) == IF w.count < Limit[k] THEN w.count ELSE Limit[k]

\* Every pass a copy of a window accounts for did happen since it started.
Justified(w, k, P, t) ==
  /\ w.started <= t
  /\ Counted(w, k) <= Len(P)
  /\ \A i \in 1..Len(P) : i > Len(P) - Counted(w, k) => P[i] >= w.started

\* Passes a window does not account for are older than it, and all but Limit[k]
\* of those are older by a whole duration.
Spaced(w, k, P) ==
  \A i \in 1..Len(P) :
    /\ i <= Len(P) - Counted(w, k) => P[i] <= w.started
    /\ i <= Len(P) - Counted(w, k) - Limit[k] => P[i] + Duration[k] <= w.started

Bounded(k, P) ==
  \A i, j \in 1..Len(P) : i + 2 * Limit[k] <= j => P[j] >= P[i] + Duration[k]

-----------------------------------------------------------------------------

\* Facts about check_and_increment that hold whatever the caches do.

LEMMA NewIsWindow ==
  ASSUME now \in Nat
  PROVE  NewWindow \in Window /\ NewWindow.count = 0 /\ NewWindow.started = now
  BY RateLimiterAssumption DEF NewWindow, Window

LEMMA IncrementedIsWindow ==
  ASSUME now \in Nat, NEW k \in Kinds, NEW w \in Window
  PROVE  Incremented(w, k) \in Window
<1>1. 1 \in 0..CountMax
  BY RateLimiterAssumption
<1> QED
  BY <1>1, RateLimiterAssumption DEF Incremented, Window

LEMMA JustifiedNew ==
  ASSUME now \in Nat, NEW k \in Kinds, NEW P \in Seq(Nat)
  PROVE  Justified(NewWindow, k, P, now)
  BY NewIsWindow, RateLimiterAssumption DEF Justified, Counted

\* A copy stays justified when another call passes, and as time goes by.
LEMMA JustifiedLater ==
  ASSUME NEW t \in Nat, NEW s \in Nat, t <= s, NEW k \in Kinds,
         NEW w \in Window, NEW P \in Seq(Nat), Justified(w, k, P, t)
  PROVE  Justified(w, k, P, s) /\ Justified(w, k, Append(P, t), t)
<1> DEFINE Q == Append(P, t)
           n == Len(P)
           a == Counted(w, k)
<1>1. n \in Nat /\ Len(Q) = n + 1 /\ \A i \in 1..n + 1 : Q[i] = IF i <= n THEN P[i] ELSE t
  OBVIOUS
<1>2. a \in Nat /\ w.started \in Nat
  BY RateLimiterAssumption DEF Counted, Window
<1>3. w.started <= t /\ a <= n /\ \A i \in 1..n : i > n - a => P[i] >= w.started
  BY DEF Justified
<1>4. Justified(w, k, P, s)
  BY <1>2, <1>3 DEF Justified
<1> HIDE DEF Q, n, a
<1>5. \A i \in 1..n + 1 : i > n + 1 - a => Q[i] >= w.started
  <2> SUFFICES ASSUME NEW i \in 1..n + 1, i > n + 1 - a PROVE Q[i] >= w.started
    OBVIOUS
  <2>1. CASE i = n + 1
    BY <1>1, <1>2, <1>3, <2>1
  <2>2. CASE i # n + 1
    BY <1>1, <1>2, <1>3, <2>2
  <2> QED
    BY <2>1, <2>2
<1>6. Justified(w, k, Q, t)
  BY <1>1, <1>2, <1>3, <1>5 DEF Justified, a
<1> QED
  BY <1>4, <1>6 DEF Q

LEMMA JustifiedPassed ==
  ASSUME now \in Nat, NEW k \in Kinds, NEW w \in Window, NEW P \in Seq(Nat),
         Justified(w, k, P, now), Admits(w, k)
  PROVE  Justified(Incremented(w, k), k, Append(P, now), now)
<1> DEFINE v == Incremented(w, k)
<1>1. /\ Len(Append(P, now)) = Len(P) + 1
      /\ \A i \in 1..Len(P) + 1 : Append(P, now)[i] = IF i <= Len(P) THEN P[i] ELSE now
  OBVIOUS
<1>2. \A i \in 1..Len(P) : P[i] \in Nat
  OBVIOUS
<1>3. CASE now - w.started >= Duration[k]
  <2>1. Counted(v, k) = 1 /\ v.started = now
    BY <1>3, RateLimiterAssumption DEF Incremented, Counted
  <2> QED
    BY <1>1, <1>2, <2>1 DEF Justified
<1>4. CASE ~(now - w.started >= Duration[k])
  <2>1. /\ v.started = w.started /\ w.started \in Nat
        /\ Counted(w, k) \in Nat
        /\ Counted(v, k) <= Counted(w, k) + 1 /\ Counted(v, k) \in Nat
    BY <1>4, RateLimiterAssumption, SMTT(30) DEF Incremented, Counted, Window
  <2> QED
    BY <1>1, <1>2, <2>1 DEF Justified
<1> QED
  BY <1>3, <1>4

LEMMA JustifiedLimited ==
  ASSUME now \in Nat, NEW k \in Kinds, NEW w \in Window, NEW P \in Seq(Nat),
         Justified(w, k, P, now), ~Admits(w, k)
  PROVE  /\ Counted(w, k) = Limit[k]
         /\ now - w.started < Duration[k]
         /\ Justified(Incremented(w, k), k, P, now)
<1> DEFINE v == Incremented(w, k)
<1>1. w.count \in Nat /\ w.started \in Nat /\ w.count <= CountMax
  BY RateLimiterAssumption DEF Window
<1>2. /\ now - w.started < Duration[k]
      /\ v = [w EXCEPT !.count = IF w.count < CountMax THEN w.count + 1 ELSE CountMax]
      /\ ~(v.count <= Limit[k])
  BY <1>1, RateLimiterAssumption DEF Admits, Incremented
<1>3. v.count = (IF w.count < CountMax THEN w.count + 1 ELSE CountMax)
      /\ v.started = w.started
  BY <1>2 DEF Window
<1>4. Counted(w, k) = Limit[k] /\ Counted(v, k) = Limit[k]
  BY <1>1, <1>2, <1>3, RateLimiterAssumption DEF Counted
<1> QED
  BY <1>2, <1>3, <1>4 DEF Justified

-----------------------------------------------------------------------------

\* Type correctness.

LEMMA NestedExcept ==
  ASSUME NEW T, NEW f \in [Kinds -> [Users -> T]], NEW x,
         NEW k \in Kinds, NEW u \in Users, NEW j \in Kinds, NEW v \in Users
  PROVE  [f EXCEPT ![k][u] = x][j][v] = IF j = k /\ v = u THEN x ELSE f[j][v]
  OBVIOUS

LEMMA CallIsCall ==
  ASSUME TypeOK, NEW c \in Calls, call[c] # NoCall
  PROVE  /\ call[c] \in Call
         /\ call[c].user \in Users
         /\ call[c].window \in Window
         /\ call[c].stage \in Stages
  BY DEF TypeOK, Call

LEMMA InitTypeOK == Init => TypeOK
  BY DEF Init, TypeOK

LEMMA NextTypeOK == TypeOK /\ [Next]_vars => TypeOK'
<1> SUFFICES ASSUME TypeOK, [Next]_vars PROVE TypeOK'
  OBVIOUS
<1>1. CASE Tick
  BY <1>1 DEF Tick, TypeOK
<1>2. ASSUME NEW c \in Calls, NEW u \in Users, Begin(c, u) PROVE TypeOK'
  <2>1. [stage |-> <<"read", "minute">>, user |-> u, window |-> NewWindow] \in Call
    BY NewIsWindow DEF TypeOK, Call, Stages, Kinds
  <2> QED
    BY <1>2, <2>1 DEF Begin, TypeOK
<1>3. ASSUME NEW c \in Calls, NEW k \in Kinds, Read(c, k) PROVE TypeOK'
  <2> DEFINE u == call[c].user
             w == IF Cached(k, u) THEN window[k][u] ELSE NewWindow
  <2>1. call[c] \in Call /\ u \in Users
    BY <1>3, CallIsCall DEF Read
  <2>2. w \in Window
    BY <2>1, NewIsWindow DEF TypeOK, Cached
  <2>3. [call[c] EXCEPT !.stage = <<"write", k>>, !.window = w] \in Call
    BY <2>1, <2>2 DEF Call, Stages
  <2>4. call' \in [Calls -> Call \cup {NoCall}]
    BY <1>3, <2>3 DEF Read, TypeOK
  <2>5. touched' \in [Kinds -> [Users -> Nat]]
    <3>1. touched' = touched \/ touched' = [touched EXCEPT ![k][u] = now]
      BY <1>3 DEF Read, Touch
    <3>2. [touched EXCEPT ![k][u] = now] \in [Kinds -> [Users -> Nat]]
      BY <2>1 DEF TypeOK
    <3> QED
      BY <3>1, <3>2 DEF TypeOK
  <2> QED
    BY <1>3, <2>4, <2>5 DEF Read, TypeOK
<1>4. ASSUME NEW c \in Calls, NEW k \in Kinds, WritePassed(c, k) PROVE TypeOK'
  <2> DEFINE u == call[c].user
  <2>1. call[c] \in Call /\ u \in Users /\ call[c].window \in Window
    BY <1>4, CallIsCall DEF WritePassed
  <2>2. Incremented(call[c].window, k) \in Window
    BY <2>1, IncrementedIsWindow DEF TypeOK
  <2>3. window' \in [Kinds -> [Users -> Window \cup {NoWindow}]]
    BY <1>4, <2>1, <2>2 DEF WritePassed, TypeOK
  <2>4. [call[c] EXCEPT !.stage = <<"read", "hour">>] \in Call
    BY <2>1 DEF Call, Stages, Kinds
  <2>5. call' \in [Calls -> Call \cup {NoCall}]
    BY <1>4, <2>4 DEF WritePassed, TypeOK
  <2>6. touched' \in [Kinds -> [Users -> Nat]]
    BY <1>4, <2>1 DEF WritePassed, Touch, TypeOK
  <2>7. passed' \in [Kinds -> [Users -> Seq(Nat)]]
    <3>1. Append(passed[k][u], now) \in Seq(Nat)
      BY <2>1 DEF TypeOK
    <3> QED
      BY <1>4, <2>1, <3>1 DEF WritePassed, TypeOK
  <2> QED
    BY <1>4, <2>3, <2>5, <2>6, <2>7 DEF WritePassed, TypeOK
<1>5. ASSUME NEW c \in Calls, NEW k \in Kinds, WriteLimited(c, k) PROVE TypeOK'
  <2> DEFINE u == call[c].user
  <2>1. u \in Users /\ call[c].window \in Window
    BY <1>5, CallIsCall DEF WriteLimited
  <2>2. Incremented(call[c].window, k) \in Window
    BY <2>1, IncrementedIsWindow DEF TypeOK
  <2>3. window' \in [Kinds -> [Users -> Window \cup {NoWindow}]]
    BY <1>5, <2>1, <2>2 DEF WriteLimited, TypeOK
  <2>4. call' \in [Calls -> Call \cup {NoCall}]
    BY <1>5 DEF WriteLimited, TypeOK
  <2>5. touched' \in [Kinds -> [Users -> Nat]]
    BY <1>5, <2>1 DEF WriteLimited, Touch, TypeOK
  <2> QED
    BY <1>5, <2>3, <2>4, <2>5 DEF WriteLimited, TypeOK
<1>6. ASSUME NEW k \in Kinds, NEW u \in Users, Evict(k, u) PROVE TypeOK'
  BY <1>6 DEF Evict, TypeOK
<1>7. CASE UNCHANGED vars
  BY <1>7 DEF vars, TypeOK
<1> QED
  BY <1>1, <1>2, <1>3, <1>4, <1>5, <1>6, <1>7 DEF Next

\* The type invariant.
THEOREM RateLimiterTypeOK == Spec => []TypeOK
  BY InitTypeOK, NextTypeOK, PTL DEF Spec

-----------------------------------------------------------------------------

\* Nobody is limited early.

\* Calls overlap freely, so a window may be written back over a newer one;
\* what each copy accounts for happened nevertheless.
EntriesJustified ==
  \A k \in Kinds, u \in Users :
    window[k][u] # NoWindow => Justified(window[k][u], k, passed[k][u], now)

CopiesJustified ==
  \A c \in Calls, k \in Kinds :
    call[c] # NoCall /\ call[c].stage = <<"write", k>>
      => Justified(call[c].window, k, passed[k][call[c].user], now)

EarlyInv == TypeOK /\ EntriesJustified /\ CopiesJustified

LEMMA StagesDistinct ==
  \A j, k \in Kinds : /\ <<"write", j>> # <<"read", k>>
                       /\ <<"write", j>> = <<"write", k>> => j = k
  OBVIOUS

\* A pass of call c disturbs no copy that another call holds, nor the entries.
LEMMA PassKeepsJustified ==
  ASSUME EarlyInv, NEW k \in Kinds, NEW u \in Users,
         passed' = [passed EXCEPT ![k][u] = Append(@, now)],
         NEW j \in Kinds, NEW v \in Users, NEW w \in Window,
         Justified(w, j, passed[j][v], now)
  PROVE  Justified(w, j, passed'[j][v], now)
<1>1. passed[k][u] \in Seq(Nat) /\ now \in Nat
  BY DEF EarlyInv, TypeOK
<1>2. CASE j = k /\ v = u
  <2>1. passed'[j][v] = Append(passed[j][v], now)
    BY <1>2 DEF EarlyInv, TypeOK
  <2> QED
    BY <1>1, <1>2, <2>1, JustifiedLater
<1>3. CASE ~(j = k /\ v = u)
  <2>1. passed'[j][v] = passed[j][v]
    BY <1>3 DEF EarlyInv, TypeOK
  <2> QED
    BY <2>1
<1> QED
  BY <1>2, <1>3

LEMMA InitEarlyInv == Init => EarlyInv
  BY InitTypeOK DEF Init, EarlyInv, EntriesJustified, CopiesJustified

LEMMA NextEarlyInv == EarlyInv /\ [Next]_vars => EarlyInv'
<1> SUFFICES ASSUME EarlyInv, [Next]_vars PROVE EarlyInv'
  OBVIOUS
<1>1. TypeOK /\ TypeOK' /\ now \in Nat
  BY NextTypeOK DEF EarlyInv, TypeOK
<1>2. CASE Tick
  <2>1. /\ now + 1 \in Nat /\ now' = now + 1
        /\ UNCHANGED <<window, call, passed>>
    BY <1>1, <1>2 DEF Tick
  <2>2. EntriesJustified'
    <3> SUFFICES ASSUME NEW k \in Kinds, NEW u \in Users, window[k][u] # NoWindow
                 PROVE  Justified(window[k][u], k, passed[k][u], now + 1)
      BY <2>1 DEF EntriesJustified
    <3>1. window[k][u] \in Window /\ passed[k][u] \in Seq(Nat)
      BY <1>1 DEF TypeOK
    <3>2. Justified(window[k][u], k, passed[k][u], now)
      BY DEF EarlyInv, EntriesJustified
    <3> QED
      BY <1>1, <2>1, <3>1, <3>2, JustifiedLater
  <2>3. CopiesJustified'
    <3> SUFFICES ASSUME NEW c \in Calls, NEW k \in Kinds,
                        call[c] # NoCall, call[c].stage = <<"write", k>>
                 PROVE  Justified(call[c].window, k, passed[k][call[c].user], now + 1)
      BY <2>1 DEF CopiesJustified
    <3>1. call[c].window \in Window /\ passed[k][call[c].user] \in Seq(Nat)
      BY <1>1, CallIsCall DEF TypeOK
    <3>2. Justified(call[c].window, k, passed[k][call[c].user], now)
      BY DEF EarlyInv, CopiesJustified
    <3> QED
      BY <1>1, <2>1, <3>1, <3>2, JustifiedLater
  <2> QED
    BY <1>1, <2>2, <2>3 DEF EarlyInv
<1>3. ASSUME NEW c \in Calls, NEW u \in Users, Begin(c, u) PROVE EarlyInv'
  <2>1. \A d \in Calls : IF d = c THEN call'[d].stage = <<"read", "minute">>
                                  ELSE call'[d] = call[d]
    BY <1>1, <1>3 DEF Begin, TypeOK
  <2>2. CopiesJustified'
    BY <1>3, <2>1, StagesDistinct DEF Begin, EarlyInv, CopiesJustified, Kinds
  <2> QED
    BY <1>1, <1>3, <2>2 DEF Begin, EarlyInv, EntriesJustified
<1>4. ASSUME NEW c \in Calls, NEW k \in Kinds, Read(c, k) PROVE EarlyInv'
  <2> DEFINE u == call[c].user
             w == IF Cached(k, u) THEN window[k][u] ELSE NewWindow
  <2>1. call[c] \in Call /\ u \in Users /\ passed[k][u] \in Seq(Nat)
    BY <1>1, <1>4, CallIsCall DEF Read, TypeOK
  <2>2. Justified(w, k, passed[k][u], now)
    BY <1>1, <2>1, JustifiedNew DEF EarlyInv, EntriesJustified, Cached
  <2>3. /\ call'[c].stage = <<"write", k>> /\ call'[c].window = w /\ call'[c].user = u
        /\ \A d \in Calls \ {c} : call'[d] = call[d]
    BY <1>1, <1>4, <2>1 DEF Read, TypeOK, Call
  <2>4. CopiesJustified'
    <3> SUFFICES ASSUME NEW d \in Calls, NEW j \in Kinds,
                        call'[d] # NoCall, call'[d].stage = <<"write", j>>
                 PROVE  Justified(call'[d].window, j, passed[j][call'[d].user], now)
      BY <1>4 DEF Read, CopiesJustified
    <3>1. CASE d = c
      BY <2>2, <2>3, <3>1, StagesDistinct
    <3>2. CASE d # c
      BY <2>3, <3>2 DEF EarlyInv, CopiesJustified
    <3> QED
      BY <3>1, <3>2
  <2> QED
    BY <1>1, <1>4, <2>4 DEF Read, EarlyInv, EntriesJustified
<1>5. ASSUME NEW c \in Calls, NEW k \in Kinds, WritePassed(c, k) PROVE EarlyInv'
  <2> DEFINE u == call[c].user
             w == Incremented(call[c].window, k)
  <2>1. /\ call[c] \in Call /\ u \in Users /\ call[c].window \in Window
        /\ passed[k][u] \in Seq(Nat)
    BY <1>1, <1>5, CallIsCall DEF WritePassed, TypeOK
  <2>2. /\ passed' = [passed EXCEPT ![k][u] = Append(@, now)]
        /\ window' = [window EXCEPT ![k][u] = w]
        /\ now' = now
    BY <1>5 DEF WritePassed
  <2>3. Justified(w, k, passed'[k][u], now)
    <3>1. Justified(call[c].window, k, passed[k][u], now)
      BY <1>5 DEF WritePassed, EarlyInv, CopiesJustified
    <3>2. passed'[k][u] = Append(passed[k][u], now)
      BY <1>1, <2>1, <2>2 DEF TypeOK
    <3> QED
      BY <1>1, <1>5, <2>1, <3>1, <3>2, JustifiedPassed DEF WritePassed
  <2>4. EntriesJustified'
    <3> SUFFICES ASSUME NEW j \in Kinds, NEW v \in Users, window'[j][v] # NoWindow
                 PROVE  Justified(window'[j][v], j, passed'[j][v], now)
      BY <2>2 DEF EntriesJustified
    <3>1. CASE j = k /\ v = u
      BY <1>1, <2>1, <2>2, <2>3, <3>1 DEF TypeOK
    <3>2. CASE ~(j = k /\ v = u)
      <4>1. window'[j][v] = window[j][v]
        BY <1>1, <2>1, <2>2, <3>2 DEF TypeOK
      <4>2. window[j][v] \in Window
        BY <1>1, <4>1 DEF TypeOK
      <4>3. Justified(window[j][v], j, passed[j][v], now)
        BY <4>1 DEF EarlyInv, EntriesJustified
      <4> QED
        BY <2>1, <2>2, <4>1, <4>2, <4>3, PassKeepsJustified
    <3> QED
      BY <3>1, <3>2
  <2>5. CopiesJustified'
    <3> SUFFICES ASSUME NEW d \in Calls, NEW j \in Kinds,
                        call'[d] # NoCall, call'[d].stage = <<"write", j>>
                 PROVE  Justified(call'[d].window, j, passed'[j][call'[d].user], now)
      BY <2>2 DEF CopiesJustified
    <3>1. d # c
      <4>1. call'[c] = NoCall \/ call'[c].stage = <<"read", "hour">>
        BY <1>1, <1>5, <2>1 DEF WritePassed, TypeOK, Call
      <4> QED
        BY <4>1, StagesDistinct DEF Kinds
    <3>2. call'[d] = call[d] /\ call[d] # NoCall
      BY <1>1, <1>5, <3>1 DEF WritePassed, TypeOK
    <3>3. call[d].window \in Window /\ call[d].user \in Users
      BY <1>1, <3>2, CallIsCall
    <3>4. Justified(call[d].window, j, passed[j][call[d].user], now)
      BY <3>2 DEF EarlyInv, CopiesJustified
    <3> QED
      BY <2>1, <2>2, <3>2, <3>3, <3>4, PassKeepsJustified
  <2> QED
    BY <1>1, <2>4, <2>5 DEF EarlyInv
<1>6. ASSUME NEW c \in Calls, NEW k \in Kinds, WriteLimited(c, k) PROVE EarlyInv'
  <2> DEFINE u == call[c].user
             w == Incremented(call[c].window, k)
  <2>1. /\ u \in Users /\ call[c].window \in Window
        /\ passed[k][u] \in Seq(Nat)
    BY <1>1, <1>6, CallIsCall DEF WriteLimited, TypeOK
  <2>2. Justified(w, k, passed[k][u], now)
    BY <1>1, <1>6, <2>1, JustifiedLimited DEF WriteLimited, EarlyInv, CopiesJustified
  <2>3. EntriesJustified'
    BY <1>1, <1>6, <2>1, <2>2 DEF WriteLimited, TypeOK, EarlyInv, EntriesJustified
  <2>4. CopiesJustified'
    BY <1>1, <1>6 DEF WriteLimited, TypeOK, EarlyInv, CopiesJustified
  <2> QED
    BY <1>1, <2>3, <2>4 DEF EarlyInv
<1>7. ASSUME NEW k \in Kinds, NEW u \in Users, Evict(k, u) PROVE EarlyInv'
  BY <1>1, <1>7 DEF Evict, TypeOK, EarlyInv, EntriesJustified, CopiesJustified
<1>8. CASE UNCHANGED vars
  BY <1>1, <1>8 DEF vars, EarlyInv, EntriesJustified, CopiesJustified
<1> QED
  BY <1>2, <1>3, <1>4, <1>5, <1>6, <1>7, <1>8 DEF Next

\* A refusal finds the last Limit[k] passes within the window's duration.
LEMMA LimitedAfterLimit ==
  ASSUME EarlyInv, NEW c \in Calls, NEW k \in Kinds, WriteLimited(c, k)
  PROVE  Cardinality(Recent(k, call[c].user)) >= Limit[k]
<1> DEFINE u == call[c].user
           w == call[c].window
           P == passed[k][u]
           n == Len(P)
<1>1. /\ u \in Users /\ w \in Window /\ P \in Seq(Nat) /\ now \in Nat
  BY CallIsCall DEF WriteLimited, EarlyInv, TypeOK
<1>2. /\ Counted(w, k) = Limit[k] /\ now - w.started < Duration[k]
      /\ Justified(w, k, P, now)
  BY <1>1, JustifiedLimited DEF WriteLimited, EarlyInv, CopiesJustified
<1>3. Limit[k] \in Nat /\ Limit[k] <= n /\ n \in Nat
  BY <1>1, <1>2, RateLimiterAssumption DEF Justified
<1> HIDE DEF n, P, w, u
<1>4. (n - Limit[k] + 1)..n \subseteq Recent(k, u)
  <2> SUFFICES ASSUME NEW i \in (n - Limit[k] + 1)..n PROVE i \in Recent(k, u)
    OBVIOUS
  <2>1. i \in 1..Len(P) /\ i > Len(P) - Counted(w, k)
    BY <1>2, <1>3 DEF n
  <2>2. P[i] \in Nat /\ w.started \in Nat /\ Duration[k] \in Nat /\ P[i] >= w.started
    BY <1>1, <1>2, <2>1, RateLimiterAssumption, SMTT(30) DEF Justified, Window
  <2>3. now - P[i] < Duration[k]
    BY <1>1, <1>2, <2>2
  <2> QED
    BY <2>1, <2>3 DEF Recent, P
<1>5. IsFiniteSet(Recent(k, u))
  <2>1. IsFiniteSet(1..n)
    BY <1>3, FS_Interval
  <2>2. Recent(k, u) \in SUBSET (1..n)
    BY DEF Recent, P, n
  <2> QED
    BY <2>1, <2>2, FS_Subset
<1>6. Cardinality((n - Limit[k] + 1)..n) = Limit[k]
  <2>1. Limit[k] > 0
    BY RateLimiterAssumption
  <2>2. n - Limit[k] + 1 \in Int /\ n \in Int /\ ~(n - Limit[k] + 1 > n)
        /\ n - (n - Limit[k] + 1) + 1 = Limit[k]
    BY <1>3, <2>1
  <2> QED
    BY <2>2, FS_Interval
<1>7. Cardinality((n - Limit[k] + 1)..n) <= Cardinality(Recent(k, u))
  BY <1>4, <1>5, FS_Subset
<1>8. Cardinality(Recent(k, u)) \in Nat
  BY <1>5, FS_CardinalityType
<1> QED
  BY <1>3, <1>6, <1>7, <1>8 DEF u

\* Nobody is limited early: a message is refused only when Limit[k] messages
\* of the user passed within the duration of the window that refuses it,
\* whichever way calls overlap and entries are dropped.
THEOREM RateLimiterNeverLimitedEarly == Spec => NeverLimitedEarly
<1>1. EarlyInv /\ [Next]_vars =>
        [\A c \in Calls, k \in Kinds :
           WriteLimited(c, k) => Cardinality(Recent(k, call[c].user)) >= Limit[k]]_vars
  BY LimitedAfterLimit
<1> QED
  BY <1>1, InitEarlyInv, NextEarlyInv, PTL DEF Spec, NeverLimitedEarly

-----------------------------------------------------------------------------

\* Twice the limit, when the calls for one user do not overlap.

\* u32::MAX as a limit would never be exceeded: the count saturates there.
LimitsCountable == \A k \in Kinds : Limit[k] < CountMax

NotLater(P, t) == \A i \in 1..Len(P) : P[i] <= t

\* A window that replaces one whose duration is over.
LEMMA SpacedAnew ==
  ASSUME now \in Nat, NEW k \in Kinds, NEW w \in Window, NEW P \in Seq(Nat),
         Spaced(w, k, P), NotLater(P, now), w.started + Duration[k] <= now
  PROVE  Spaced(NewWindow, k, P)
<1>1. /\ Counted(NewWindow, k) = 0 /\ NewWindow.started = now
      /\ Counted(w, k) \in Nat /\ Counted(w, k) <= Limit[k]
      /\ w.started \in Nat /\ Limit[k] \in Nat /\ Duration[k] \in Nat
  BY NewIsWindow, RateLimiterAssumption DEF Counted, Window
<1>2. Len(P) \in Nat /\ \A i \in 1..Len(P) : P[i] \in Nat
  OBVIOUS
<1>3. \A i \in 1..Len(P) : P[i] <= now
  BY DEF NotLater
<1>4. ASSUME NEW i \in 1..Len(P), i <= Len(P) - Limit[k]
      PROVE  P[i] + Duration[k] <= now
  <2>1. P[i] <= w.started
    BY <1>1, <1>2, <1>4 DEF Spaced
  <2> QED
    BY <1>1, <1>2, <2>1
<1> QED
  BY <1>1, <1>2, <1>3, <1>4 DEF Spaced

LEMMA SpacedPassed ==
  ASSUME now \in Nat, LimitsCountable,
         NEW k \in Kinds, NEW w \in Window, NEW P \in Seq(Nat),
         Spaced(w, k, P), Bounded(k, P), NotLater(P, now),
         Justified(w, k, P, now), Admits(w, k)
  PROVE  /\ Spaced(Incremented(w, k), k, Append(P, now))
         /\ Bounded(k, Append(P, now))
         /\ NotLater(Append(P, now), now)
<1> DEFINE v == Incremented(w, k)
           Q == Append(P, now)
           n == Len(P)
           a == Counted(w, k)
           L == Limit[k]
           D == Duration[k]
<1>1. /\ n \in Nat /\ Len(Q) = n + 1
      /\ \A i \in 1..n : P[i] \in Nat
      /\ \A i \in 1..n + 1 : Q[i] = IF i <= n THEN P[i] ELSE now
  OBVIOUS
<1>2. /\ a \in Nat /\ a <= L /\ L \in Nat /\ L > 0 /\ L < CountMax
      /\ D \in Nat /\ w.started \in Nat /\ CountMax \in Nat /\ w.count \in Nat
  BY RateLimiterAssumption DEF Counted, Window, LimitsCountable
<1>3. /\ \A i \in 1..n : i <= n - a => P[i] <= w.started
      /\ \A i \in 1..n : i <= n - a - L => P[i] + D <= w.started
      /\ \A i \in 1..n : P[i] <= now
      /\ \A i, j \in 1..n : i + 2 * L <= j => P[j] >= P[i] + D
      /\ w.started <= now /\ a <= n
  BY DEF Spaced, NotLater, Bounded, Justified
\* What the new pass needs of the passes before it.
<1>4. CASE now - w.started >= D
  <2>1. Counted(v, k) = 1 /\ v.started = now
    BY <1>4, RateLimiterAssumption DEF Incremented, Counted
  <2> HIDE DEF v, Q, n, a, L, D
  <2>2. ASSUME NEW i \in 1..n, i <= n - L PROVE P[i] + D <= now
    <3>1. P[i] <= w.started
      BY <1>1, <1>2, <1>3, <2>2
    <3> QED
      BY <1>1, <1>2, <1>4, <3>1
  <2>3. \A i, j \in 1..n + 1 : i + 2 * L <= j => Q[j] >= Q[i] + D
    <3> SUFFICES ASSUME NEW i \in 1..n + 1, NEW j \in 1..n + 1, i + 2 * L <= j
                 PROVE  Q[j] >= Q[i] + D
      OBVIOUS
    <3>1. i \in 1..n /\ Q[i] = P[i]
      BY <1>1, <1>2
    <3>2. CASE j = n + 1
      BY <1>1, <1>2, <2>2, <3>1, <3>2
    <3>3. CASE j \in 1..n
      BY <1>1, <1>3, <3>1, <3>3, SMTT(30)
    <3> QED
      BY <1>1, <3>2, <3>3
  <2>4. \A i \in 1..n + 1 : /\ i <= n + 1 - 1 => Q[i] <= now
                            /\ i <= n + 1 - 1 - L => Q[i] + D <= now
    <3> SUFFICES ASSUME NEW i \in 1..n, i <= n + 1 - 1
                 PROVE  Q[i] <= now /\ (i <= n - L => Q[i] + D <= now)
      BY <1>1, <1>2
    <3> QED
      BY <1>1, <1>2, <1>3, <2>2
  <2>5. \A i \in 1..n + 1 : Q[i] <= now
    BY <1>1, <1>3
  <2>6. Spaced(v, k, Q)
    BY <1>1, <1>2, <2>1, <2>4 DEF Spaced, L, D
  <2>7. Bounded(k, Q) /\ NotLater(Q, now)
    BY <1>1, <2>3, <2>5 DEF Bounded, NotLater, L, D
  <2> QED
    BY <2>6, <2>7 DEF v, Q
<1>5. CASE ~(now - w.started >= D)
  <2>1. Counted(v, k) = a + 1 /\ v.started = w.started /\ a + 1 <= L
    BY <1>2, <1>5 DEF Incremented, Admits, Counted, Window
  <2> HIDE DEF v, Q, n, a, L, D
  <2>2. \A i \in 1..n : i <= n + 1 - 2 * L => P[i] + D <= w.started
    BY <1>1, <1>2, <1>3, <2>1
  <2>3. \A i, j \in 1..n + 1 : i + 2 * L <= j => Q[j] >= Q[i] + D
    BY <1>1, <1>2, <1>3, <2>2, SMTT(30)
  <2>4. \A i \in 1..n + 1 :
          /\ i <= n + 1 - (a + 1) => Q[i] <= w.started
          /\ i <= n + 1 - (a + 1) - L => Q[i] + D <= w.started
    <3> SUFFICES ASSUME NEW i \in 1..n, i <= n - a
                 PROVE  Q[i] <= w.started /\ (i <= n - a - L => Q[i] + D <= w.started)
      BY <1>1, <1>2
    <3> QED
      BY <1>1, <1>2, <1>3
  <2>5. \A i \in 1..n + 1 : Q[i] <= now
    BY <1>1, <1>3
  <2>6. Spaced(v, k, Q)
    BY <1>1, <1>2, <2>1, <2>4 DEF Spaced, L, D
  <2>7. Bounded(k, Q) /\ NotLater(Q, now)
    BY <1>1, <2>3, <2>5 DEF Bounded, NotLater, L, D
  <2> QED
    BY <2>6, <2>7 DEF v, Q
<1> QED
  BY <1>4, <1>5

LEMMA SpacedLimited ==
  ASSUME now \in Nat, NEW k \in Kinds, NEW w \in Window, NEW P \in Seq(Nat),
         Spaced(w, k, P), ~Admits(w, k)
  PROVE  Spaced(Incremented(w, k), k, P)
<1> DEFINE v == Incremented(w, k)
<1>1. w.count \in Nat /\ w.started \in Nat /\ w.count <= CountMax
  BY RateLimiterAssumption DEF Window
<1>2. /\ v = [w EXCEPT !.count = IF w.count < CountMax THEN w.count + 1 ELSE CountMax]
      /\ ~(v.count <= Limit[k])
  BY <1>1, RateLimiterAssumption DEF Admits, Incremented
<1>3. v.count = (IF w.count < CountMax THEN w.count + 1 ELSE CountMax)
      /\ v.started = w.started
  BY <1>2 DEF Window
<1>4. Counted(w, k) = Limit[k] /\ Counted(v, k) = Limit[k]
  BY <1>1, <1>2, <1>3, RateLimiterAssumption DEF Counted
<1> QED
  BY <1>3, <1>4 DEF Spaced

\* An entry was last touched after its window started.
EntriesTouched ==
  \A k \in Kinds, u \in Users : window[k][u] # NoWindow =>
    /\ window[k][u].started <= touched[k][u]
    /\ touched[k][u] <= now

OneCallPerUser ==
  \A c, d \in Calls :
    call[c] # NoCall /\ call[d] # NoCall /\ call[c].user = call[d].user => c = d

\* What the history of (k, u) satisfies ...
HistoryBounded(k, u) ==
  /\ Bounded(k, passed[k][u])
  /\ NotLater(passed[k][u], now)

\* ... and how the entry, and the copy of the call in progress, relate to it.
EntrySpaced(k, u) ==
  /\ window[k][u] = NoWindow => passed[k][u] = << >>
  /\ window[k][u] # NoWindow => Spaced(window[k][u], k, passed[k][u])

CopySpaced(c, k) ==
  call[c] # NoCall /\ call[c].stage = <<"write", k>>
    => Spaced(call[c].window, k, passed[k][call[c].user])

\* The inductive invariant.  A dropped entry breaks the relation between the
\* window and the history for good, so it is claimed of the others only.
BurstInv ==
  /\ EarlyInv
  /\ EntriesTouched
  /\ OneCallPerUser
  /\ \A k \in Kinds, u \in Users : evicted[k][u] = 0 =>
       /\ HistoryBounded(k, u)
       /\ EntrySpaced(k, u)
       /\ \A c \in Calls : call[c] # NoCall /\ call[c].user = u => CopySpaced(c, k)

LEMMA InitBurstInv == Init => BurstInv
<1> SUFFICES ASSUME Init PROVE BurstInv
  OBVIOUS
<1>1. \A k \in Kinds, u \in Users : passed[k][u] = << >> /\ window[k][u] = NoWindow
  BY DEF Init
<1>2. \A k \in Kinds, u \in Users : HistoryBounded(k, u) /\ EntrySpaced(k, u)
  BY <1>1 DEF HistoryBounded, EntrySpaced, Bounded, NotLater
<1> QED
  BY <1>1, <1>2, InitEarlyInv DEF Init, BurstInv, EntriesTouched, OneCallPerUser

LEMMA NextEntriesTouched == EarlyInv /\ EntriesTouched /\ [Next]_vars => EntriesTouched'
<1> SUFFICES ASSUME EarlyInv, EntriesTouched, [Next]_vars PROVE EntriesTouched'
  OBVIOUS
<1>1. TypeOK /\ now \in Nat
  BY DEF EarlyInv, TypeOK
<1>2. CASE Tick
  <2> SUFFICES ASSUME NEW k \in Kinds, NEW u \in Users, window[k][u] # NoWindow
               PROVE  window[k][u].started <= touched[k][u] /\ touched[k][u] <= now + 1
    BY <1>2 DEF Tick, EntriesTouched
  <2>1. touched[k][u] \in Nat
    BY <1>1 DEF TypeOK
  <2> QED
    BY <1>1, <2>1 DEF EntriesTouched
<1>3. ASSUME NEW c \in Calls, NEW u \in Users, Begin(c, u) PROVE EntriesTouched'
  BY <1>3 DEF Begin, EntriesTouched
<1>4. ASSUME NEW c \in Calls, NEW k \in Kinds, Read(c, k) PROVE EntriesTouched'
  <2>1. /\ window' = window /\ now' = now
        /\ \/ touched' = touched
           \/ touched' = [touched EXCEPT ![k][call[c].user] = now]
    BY <1>4 DEF Read, Touch
  <2>2. \A j \in Kinds, v \in Users :
          touched'[j][v] = touched[j][v] \/ touched'[j][v] = now
    <3>1. call[c].user \in Users
      BY <1>1, <1>4, CallIsCall DEF Read
    <3>2. touched \in [Kinds -> [Users -> Nat]]
      BY <1>1 DEF TypeOK
    <3> QED
      BY <2>1, <3>1, <3>2, NestedExcept
  <2> SUFFICES ASSUME NEW j \in Kinds, NEW v \in Users, window[j][v] # NoWindow
               PROVE  window[j][v].started <= touched'[j][v] /\ touched'[j][v] <= now
    BY <2>1 DEF EntriesTouched
  <2>3. window[j][v].started <= now
    BY DEF EarlyInv, EntriesJustified, Justified
  <2> QED
    BY <1>1, <2>2, <2>3 DEF EntriesTouched
<1>5. ASSUME NEW c \in Calls, NEW k \in Kinds,
             WritePassed(c, k) \/ WriteLimited(c, k)
      PROVE  EntriesTouched'
  <2> DEFINE u == call[c].user
             w == Incremented(call[c].window, k)
  <2>1. u \in Users /\ call[c].window \in Window
    BY <1>1, <1>5, CallIsCall DEF WritePassed, WriteLimited
  <2>2. w.started <= now
    <3>1. call[c].window.started <= now
      BY <1>5 DEF WritePassed, WriteLimited, EarlyInv, CopiesJustified, Justified
    <3> QED
      BY <1>1, <2>1, <3>1 DEF Incremented, Window
  <2>3. /\ window' = [window EXCEPT ![k][u] = w]
        /\ touched' = [touched EXCEPT ![k][u] = now]
        /\ now' = now
    BY <1>5 DEF WritePassed, WriteLimited, Touch
  <2> HIDE DEF u, w
  <2> SUFFICES ASSUME NEW j \in Kinds, NEW v \in Users, window'[j][v] # NoWindow
               PROVE  window'[j][v].started <= touched'[j][v] /\ touched'[j][v] <= now
    BY <2>3 DEF EntriesTouched
  <2>4. CASE j = k /\ v = u
    BY <1>1, <2>1, <2>2, <2>3, <2>4 DEF TypeOK
  <2>5. CASE ~(j = k /\ v = u)
    <3>1. window'[j][v] = window[j][v] /\ touched'[j][v] = touched[j][v]
      BY <1>1, <2>1, <2>3, <2>5 DEF TypeOK
    <3> QED
      BY <3>1 DEF EntriesTouched
  <2> QED
    BY <2>4, <2>5
<1>6. ASSUME NEW k \in Kinds, NEW u \in Users, Evict(k, u) PROVE EntriesTouched'
  BY <1>1, <1>6 DEF Evict, TypeOK, EntriesTouched
<1>7. CASE UNCHANGED vars
  BY <1>7 DEF vars, EntriesTouched
<1> QED
  BY <1>2, <1>3, <1>4, <1>5, <1>6, <1>7 DEF Next

LEMMA NextOneCallPerUser ==
  ASSUME Serialized, EarlyInv, OneCallPerUser, [Next]_vars
  PROVE  OneCallPerUser'
<1>1. TypeOK
  BY DEF EarlyInv
<1>2. ASSUME NEW c \in Calls, NEW u \in Users, Begin(c, u) PROVE OneCallPerUser'
  <2>1. /\ call'[c].user = u
        /\ \A d \in Calls \ {c} : call'[d] = call[d]
        /\ \A d \in Calls : call[d] # NoCall => call[d].user # u
    BY <1>1, <1>2 DEF Begin, TypeOK
  <2> QED
    BY <2>1 DEF OneCallPerUser
<1>3. ASSUME NEW c \in Calls, call[c] # NoCall,
             call'[c] = NoCall \/ call'[c].user = call[c].user,
             \A d \in Calls \ {c} : call'[d] = call[d]
      PROVE  OneCallPerUser'
  BY <1>3 DEF OneCallPerUser
<1>4. ASSUME NEW c \in Calls, NEW k \in Kinds,
             Read(c, k) \/ WritePassed(c, k) \/ WriteLimited(c, k)
      PROVE  OneCallPerUser'
  <2>1. call[c] # NoCall /\ call[c] \in Call
    BY <1>1, <1>4, CallIsCall DEF Read, WritePassed, WriteLimited
  <2>2. call'[c] = NoCall \/ call'[c].user = call[c].user
    BY <1>1, <1>4, <2>1 DEF Read, WritePassed, WriteLimited, TypeOK, Call
  <2>3. \A d \in Calls \ {c} : call'[d] = call[d]
    BY <1>1, <1>4 DEF Read, WritePassed, WriteLimited, TypeOK
  <2> QED
    BY <1>3, <2>1, <2>2, <2>3
<1>5. ASSUME call' = call PROVE OneCallPerUser'
  BY <1>5 DEF OneCallPerUser
<1> QED
  BY <1>2, <1>4, <1>5 DEF Next, Tick, Evict, vars

LEMMA NextBurstInv ==
  ASSUME Serialized, LimitsCountable, BurstInv, [Next]_vars
  PROVE  BurstInv'
<1>1. /\ EarlyInv /\ EarlyInv' /\ EntriesTouched /\ EntriesTouched'
      /\ OneCallPerUser /\ OneCallPerUser'
  BY NextEarlyInv, NextEntriesTouched, NextOneCallPerUser DEF BurstInv
<1>2. TypeOK /\ TypeOK' /\ now \in Nat
  BY <1>1 DEF EarlyInv, TypeOK
<1> SUFFICES ASSUME NEW k \in Kinds, NEW u \in Users, evicted'[k][u] = 0
             PROVE  /\ HistoryBounded(k, u)'
                    /\ EntrySpaced(k, u)'
                    /\ \A c \in Calls :
                         call'[c] # NoCall /\ call'[c].user = u => CopySpaced(c, k)'
  BY <1>1 DEF BurstInv
<1> DEFINE P == passed[k][u]
<1>3. P \in Seq(Nat) /\ window[k][u] \in Window \cup {NoWindow}
  BY <1>2 DEF TypeOK
<1>4. evicted[k][u] = 0 /\ (window'[k][u] = NoWindow => window[k][u] = NoWindow)
  <2>1. CASE \E j \in Kinds, v \in Users : Evict(j, v)
    BY <1>2, <2>1 DEF Evict, TypeOK
  <2>2. ASSUME NEW c \in Calls, NEW j \in Kinds, WritePassed(c, j) \/ WriteLimited(c, j)
        PROVE  /\ evicted' = evicted
               /\ window'[k][u] = NoWindow => window[k][u] = NoWindow
    <3>1. evicted' = evicted
          /\ window' = [window EXCEPT ![j][call[c].user] = Incremented(call[c].window, j)]
      BY <2>2 DEF WritePassed, WriteLimited
    <3>2. call[c].window \in Window
      BY <1>2, <2>2, CallIsCall DEF WritePassed, WriteLimited
    <3>3. Incremented(call[c].window, j) # NoWindow
      BY <1>2, <3>2, IncrementedIsWindow DEF Window, NoWindow
    <3> QED
      BY <1>2, <3>1, <3>3 DEF TypeOK
  <2>3. CASE evicted' = evicted /\ window' = window
    BY <2>3
  <2> QED
    BY <2>1, <2>2, <2>3 DEF Next, Tick, Begin, Read, vars
<1>5. /\ Bounded(k, P) /\ NotLater(P, now)
      /\ EntrySpaced(k, u)
      /\ \A c \in Calls : call[c] # NoCall /\ call[c].user = u => CopySpaced(c, k)
  BY <1>4 DEF BurstInv, HistoryBounded
\* Steps that leave the history and the entry alone, and change no copy of k.
<1>6. ASSUME passed'[k][u] = P, window'[k][u] = window[k][u],
             now' = now \/ now' = now + 1,
             NEW c \in Calls, call'[c] # NoCall, call'[c].user = u,
             \/ call'[c] = call[c]
             \/ call'[c].stage # <<"write", k>>
      PROVE  CopySpaced(c, k)'
  BY <1>5, <1>6 DEF CopySpaced
<1>7. ASSUME passed'[k][u] = P, window'[k][u] = window[k][u],
             now' = now \/ now' = now + 1
      PROVE  HistoryBounded(k, u)' /\ EntrySpaced(k, u)'
  <2>1. NotLater(P, now')
    <3>1. \A i \in 1..Len(P) : P[i] \in Nat
      BY <1>3
    <3> QED
      BY <1>2, <1>5, <1>7, <3>1 DEF NotLater
  <2> QED
    BY <1>5, <1>7, <2>1 DEF HistoryBounded, EntrySpaced
<1>8. CASE Tick
  BY <1>6, <1>7, <1>8 DEF Tick
<1>9. ASSUME NEW d \in Calls, NEW v \in Users, Begin(d, v)
      PROVE  /\ HistoryBounded(k, u)' /\ EntrySpaced(k, u)'
             /\ \A c \in Calls :
                  call'[c] # NoCall /\ call'[c].user = u => CopySpaced(c, k)'
  <2>1. \A c \in Calls : call'[c] = call[c] \/ call'[c].stage = <<"read", "minute">>
    BY <1>2, <1>9 DEF Begin, TypeOK
  <2>2. UNCHANGED <<now, window, passed>>
    BY <1>9 DEF Begin
  <2> QED
    BY <1>6, <1>7, <2>1, <2>2, StagesDistinct DEF Kinds
<1>10. ASSUME NEW d \in Calls, NEW j \in Kinds, Read(d, j)
       PROVE  /\ HistoryBounded(k, u)' /\ EntrySpaced(k, u)'
              /\ \A c \in Calls :
                   call'[c] # NoCall /\ call'[c].user = u => CopySpaced(c, k)'
  <2> DEFINE w == IF Cached(j, call[d].user) THEN window[j][call[d].user] ELSE NewWindow
  <2>1. UNCHANGED <<now, window, passed>>
    BY <1>10 DEF Read
  <2>2. /\ \A c \in Calls \ {d} : call'[c] = call[c]
        /\ call[d] # NoCall /\ call[d] \in Call
        /\ call'[d].stage = <<"write", j>>
        /\ call'[d].window = w /\ call'[d].user = call[d].user
    <3>1. call[d] # NoCall /\ call[d] \in Call
      BY <1>2, <1>10, CallIsCall DEF Read
    <3> QED
      BY <1>2, <1>10, <3>1 DEF Read, TypeOK, Call
  <2>3. CASE j = k /\ call[d].user = u
    <3>1. Spaced(w, k, P)
      <4>1. CASE Cached(k, u)
        BY <1>5, <2>3, <4>1 DEF Cached, EntrySpaced
      <4>2. CASE window[k][u] = NoWindow
        <5>1. P = << >> /\ w = NewWindow
          BY <1>5, <2>3, <4>2 DEF Cached, EntrySpaced
        <5> QED
          BY <5>1 DEF Spaced
      <4>3. CASE window[k][u] # NoWindow /\ ~Cached(k, u)
        <5>1. Spaced(window[k][u], k, P) /\ window[k][u] \in Window /\ w = NewWindow
          BY <1>3, <1>5, <2>3, <4>3 DEF EntrySpaced
        <5>2. /\ window[k][u].started <= touched[k][u]
              /\ now - touched[k][u] >= Idle[k]
              /\ touched[k][u] \in Nat /\ Idle[k] \in Nat
          <6>1. window[k][u].started <= touched[k][u] /\ touched[k][u] \in Nat
            BY <1>1, <1>2, <4>3 DEF EntriesTouched, TypeOK
          <6>2. ~(now - touched[k][u] < Idle[k]) /\ Idle[k] \in Nat
            BY <4>3, RateLimiterAssumption DEF Cached
          <6> QED
            BY <1>2, <6>1, <6>2
        <5>3. window[k][u].started + Duration[k] <= now
          BY <1>2, <5>1, <5>2, RateLimiterAssumption DEF Window
        <5> QED
          BY <1>2, <1>3, <1>5, <5>1, <5>3, SpacedAnew
      <4> QED
        BY <4>1, <4>2, <4>3
    <3>2. CopySpaced(d, k)'
      BY <2>1, <2>2, <2>3, <3>1 DEF CopySpaced
    <3> QED
      BY <1>6, <1>7, <2>1, <2>2, <3>2
  <2>4. CASE ~(j = k /\ call[d].user = u)
    BY <1>6, <1>7, <2>1, <2>2, <2>4, StagesDistinct
  <2> QED
    BY <2>3, <2>4
<1>11. ASSUME NEW d \in Calls, NEW j \in Kinds,
              WritePassed(d, j) \/ WriteLimited(d, j)
       PROVE  /\ HistoryBounded(k, u)' /\ EntrySpaced(k, u)'
              /\ \A c \in Calls :
                   call'[c] # NoCall /\ call'[c].user = u => CopySpaced(c, k)'
  <2> DEFINE v == call[d].user
             w == call[d].window
  <2>1. /\ call[d] # NoCall /\ call[d].stage = <<"write", j>>
        /\ call[d] \in Call /\ v \in Users /\ w \in Window
    BY <1>2, <1>11, CallIsCall DEF WritePassed, WriteLimited
  <2>2. /\ \A c \in Calls \ {d} : call'[c] = call[c]
        /\ call'[d] = NoCall \/ (/\ call'[d].stage = <<"read", "hour">>
                                 /\ call'[d].user = v)
    <3>1. CASE WritePassed(d, j)
      BY <1>2, <2>1, <3>1 DEF WritePassed, TypeOK, Call
    <3>2. CASE WriteLimited(d, j)
      BY <1>2, <2>1, <3>2 DEF WriteLimited, TypeOK
    <3> QED
      BY <1>11, <3>1, <3>2
  <2>3. now' = now /\ window' = [window EXCEPT ![j][v] = Incremented(w, j)]
    BY <1>11 DEF WritePassed, WriteLimited
  <2>4. passed' = [passed EXCEPT ![j][v] = Append(@, now)] \/ passed' = passed
    BY <1>11 DEF WritePassed, WriteLimited
  <2> HIDE DEF v, w
  <2>5. CASE j = k /\ v = u
    <3>1. window'[k][u] = Incremented(w, k) /\ Incremented(w, k) # NoWindow
      <4>1. Incremented(w, k) # NoWindow
        BY <1>2, <2>1, IncrementedIsWindow DEF Window, NoWindow
      <4> QED
        BY <1>2, <2>3, <2>5, <4>1 DEF TypeOK
    <3>2. Spaced(w, k, P) /\ Justified(w, k, P, now)
      BY <1>1, <1>5, <2>1, <2>5 DEF CopySpaced, EarlyInv, CopiesJustified, v, w
    \* The user's only call is the one that writes.
    <3>3. ASSUME NEW c \in Calls, call'[c] # NoCall, call'[c].user = u
          PROVE  CopySpaced(c, k)'
      <4>1. c = d
        BY <1>1, <2>1, <2>2, <2>5, <3>3 DEF OneCallPerUser, v
      <4> QED
        BY <2>2, <3>3, <4>1, StagesDistinct DEF CopySpaced, Kinds
    <3>4. CASE WritePassed(d, j)
      <4>1. Admits(w, k) /\ passed'[k][u] = Append(P, now)
        BY <1>2, <2>5, <3>4 DEF WritePassed, TypeOK, v, w
      <4>2. /\ Spaced(Incremented(w, k), k, passed'[k][u])
            /\ Bounded(k, passed'[k][u]) /\ NotLater(passed'[k][u], now)
        BY <1>2, <1>3, <1>5, <2>1, <3>2, <4>1, SpacedPassed
      <4> QED
        BY <2>3, <3>1, <3>3, <4>2 DEF HistoryBounded, EntrySpaced
    <3>5. CASE WriteLimited(d, j)
      <4>1. ~Admits(w, k) /\ passed' = passed
        BY <2>5, <3>5 DEF WriteLimited, v, w
      <4>2. Spaced(Incremented(w, k), k, P)
        BY <1>2, <1>3, <2>1, <3>2, <4>1, SpacedLimited
      <4> QED
        BY <1>5, <2>3, <3>1, <3>3, <4>1, <4>2 DEF HistoryBounded, EntrySpaced
    <3> QED
      BY <1>11, <3>4, <3>5
  <2>6. CASE ~(j = k /\ v = u)
    <3>1. passed'[k][u] = P
      <4>1. passed \in [Kinds -> [Users -> Seq(Nat)]]
        BY <1>2 DEF TypeOK
      <4>2. [passed EXCEPT ![j][v] = Append(passed[j][v], now)][k][u] = P
        BY <2>1, <2>6, <4>1, NestedExcept
      <4> QED
        BY <2>4, <4>2
    <3>2. window'[k][u] = window[k][u]
      BY <1>2, <2>1, <2>3, <2>6, NestedExcept DEF TypeOK
    <3> QED
      BY <1>6, <1>7, <2>2, <2>3, <3>1, <3>2, StagesDistinct DEF Kinds
  <2> QED
    BY <2>5, <2>6
<1>12. ASSUME NEW j \in Kinds, NEW v \in Users, Evict(j, v)
       PROVE  /\ HistoryBounded(k, u)' /\ EntrySpaced(k, u)'
              /\ \A c \in Calls :
                   call'[c] # NoCall /\ call'[c].user = u => CopySpaced(c, k)'
  <2>1. ~(j = k /\ v = u)
    BY <1>2, <1>4, <1>12 DEF Evict, TypeOK
  <2>2. UNCHANGED <<now, call, passed>> /\ window'[k][u] = window[k][u]
    BY <1>2, <1>12, <2>1 DEF Evict, TypeOK
  <2> QED
    BY <1>6, <1>7, <2>2
<1>13. CASE UNCHANGED vars
  BY <1>6, <1>7, <1>13 DEF vars
<1> QED
  BY <1>8, <1>9, <1>10, <1>11, <1>12, <1>13 DEF Next

\* When the calls for one user do not overlap, at most twice the limit of the
\* user's messages pass within any span of the window's duration, whatever
\* the limits, durations and idle times are.
THEOREM RateLimiterDoubleBurstBound ==
  ASSUME Serialized, LimitsCountable
  PROVE  Spec => []DoubleBurstBound
<1>1. BurstInv /\ [Next]_vars => BurstInv'
  BY NextBurstInv
<1>2. BurstInv => DoubleBurstBound
  BY DEF BurstInv, HistoryBounded, Bounded, DoubleBurstBound
<1> QED
  BY <1>1, <1>2, InitBurstInv, PTL DEF Spec

-----------------------------------------------------------------------------

\* What the user is told.  An hour is not cut down further, and no window is
\* longer than that.
HoursAreLongest ==
  /\ Second <= Duration["hour"]
  /\ Duration["minute"] <= Duration["hour"]

LEMMA WholeSeconds ==
  ASSUME NEW d \in Nat, NEW s \in Nat \ {0}
  PROVE  d \div s \in Nat /\ (d \div s) * s <= d /\ d < (d \div s + 1) * s
  OBVIOUS

LEMMA DivMonotone ==
  ASSUME NEW d \in Nat, NEW e \in Nat, d <= e, NEW s \in Nat \ {0}
  PROVE  d \div s <= e \div s
  OBVIOUS

LEMMA WaitCoversRest ==
  ASSUME HoursAreLongest, NEW d \in Nat, d <= Duration["hour"]
  PROVE  FormatDuration(d) = d \div Second
<1> DEFINE seconds == d \div Second
<1>1. Duration["hour"] \in Nat /\ Second \in Nat \ {0} /\ 1 <= Hour
  BY RateLimiterAssumption, RateLimitNoticeAssumption, DivMonotone
     DEF HoursAreLongest, Kinds, Hour
<1>2. seconds <= Hour /\ seconds \in Nat /\ Hour \in Nat
  BY <1>1, DivMonotone, WholeSeconds DEF Hour
<1> HIDE DEF seconds
<1>3. FormatDuration(d) = IF seconds < Hour THEN seconds ELSE (seconds \div Hour) * Hour
  BY DEF FormatDuration, seconds
<1>4. Hour \div Hour = 1
  BY <1>1, <1>2
<1>5. seconds = Hour => (seconds \div Hour) * Hour = seconds
  BY <1>2, <1>4
<1> QED
  BY <1>2, <1>3, <1>5 DEF seconds

-----------------------------------------------------------------------------

\* A window that may not refuse u any more before another Limit[k] messages
\* pass: all it accounts for passed since it last refused u, or it is over when
\* the time that was told is.
Harmless(w, k, u) ==
  \/ told[k][u].passed + Counted(w, k) <= Len(passed[k][u])
  \/ w.started + Duration[k] < told[k][u].at + (told[k][u].wait + 1) * Second

Notice == [at : Int, wait : Nat, passed : Nat]

NoticeInv ==
  /\ EarlyInv
  /\ OneCallPerUser
  /\ told \in [Kinds -> [Users -> Notice]]
  /\ \A k \in Kinds, u \in Users :
       /\ told[k][u].passed <= Len(passed[k][u])
       /\ window[k][u] # NoWindow => Harmless(window[k][u], k, u)
       /\ \A c \in Calls :
            call[c] # NoCall /\ call[c].user = u /\ call[c].stage = <<"write", k>>
              => Harmless(call[c].window, k, u)

LEMMA InitNoticeInv == NoticeInit => NoticeInv
<1> SUFFICES ASSUME NoticeInit PROVE NoticeInv
  OBVIOUS
<1>1. EarlyInv /\ OneCallPerUser
  BY InitBurstInv DEF NoticeInit, BurstInv
<1>2. told \in [Kinds -> [Users -> Notice]]
  BY DEF NoticeInit, Notice, NotTold
<1>3. \A k \in Kinds, u \in Users :
        /\ told[k][u].passed = 0 /\ passed[k][u] = << >>
        /\ window[k][u] = NoWindow
        /\ \A c \in Calls : call[c] = NoCall
  BY DEF NoticeInit, NotTold, Init
<1> QED
  BY <1>1, <1>2, <1>3 DEF NoticeInv

LEMMA NoticeStep == NoticeNext => Next
  BY DEF NoticeNext, Refuse, Next

\* The step that refuses u tells how long its window still lasts.
LEMMA RefusedIsHarmless ==
  ASSUME EarlyInv, HoursAreLongest, told \in [Kinds -> [Users -> Notice]],
         NEW c \in Calls, NEW k \in Kinds, Refuse(c, k),
         NEW u \in Users, u = call[c].user
  PROVE  /\ told'[k][u] \in Notice
         /\ told'[k][u].passed = Len(passed[k][u])
         /\ window'[k][u].started + Duration[k]
              < told'[k][u].at + (told'[k][u].wait + 1) * Second
<1> DEFINE w == call[c].window
           rest == Duration[k] - (now - w.started)
<1>1. TypeOK /\ now \in Nat /\ call[c] # NoCall /\ w \in Window
  BY CallIsCall DEF EarlyInv, TypeOK, Refuse, WriteLimited
<1>2. w.started \in Nat /\ w.started <= now
  BY <1>1 DEF Refuse, WriteLimited, EarlyInv, CopiesJustified, Justified, Window
<1>3. /\ ~(now - w.started >= Duration[k])
      /\ Duration[k] \in Nat
      /\ Duration[k] <= Duration["hour"]
  BY RateLimiterAssumption DEF HoursAreLongest, Kinds, Refuse, WriteLimited, Admits
<1>4. rest \in Nat /\ rest <= Duration["hour"] /\ now + rest = w.started + Duration[k]
  BY <1>1, <1>2, <1>3, RateLimiterAssumption DEF Kinds
<1>5. Incremented(w, k).started = w.started
  BY <1>1, <1>3 DEF Incremented, Window
<1>6. TimeRemaining(Incremented(w, k), k) = rest
  BY <1>1, <1>2, <1>3, <1>5 DEF TimeRemaining
<1> HIDE DEF rest
<1>7. FormatDuration(rest) \in Nat /\ rest < (FormatDuration(rest) + 1) * Second
  BY <1>4, WaitCoversRest, WholeSeconds, RateLimitNoticeAssumption
<1>8. told'[k][u] = [at |-> now, wait |-> FormatDuration(rest),
                     passed |-> Len(passed[k][u])]
  BY <1>6 DEF Refuse
<1>9. window'[k][u].started = w.started
  BY <1>1, <1>5 DEF Refuse, WriteLimited, TypeOK
<1>10. Len(passed[k][u]) \in Nat
  BY <1>1 DEF TypeOK
<1>11. told'[k][u] \in Notice
  BY <1>1, <1>7, <1>8, <1>10 DEF Notice
<1>12. now + rest < now + (FormatDuration(rest) + 1) * Second
  BY <1>1, <1>4, <1>7, RateLimitNoticeAssumption
<1> QED
  BY <1>4, <1>8, <1>9, <1>11, <1>12

\* A pass is accounted for in the window, and in the history.
LEMMA PassKeepsHarmless ==
  ASSUME TypeOK, TypeOK', told \in [Kinds -> [Users -> Notice]], told' = told,
         NEW k \in Kinds, NEW u \in Users, NEW w \in Window, Harmless(w, k, u),
         told[k][u].passed <= Len(passed[k][u]),
         passed'[k][u] = Append(passed[k][u], now),
         NEW v \in Window, v = Incremented(w, k)
  PROVE  Harmless(v, k, u)'
<1>1. /\ Len(passed'[k][u]) = Len(passed[k][u]) + 1
      /\ Len(passed[k][u]) \in Nat
  BY DEF TypeOK
<1>2. told[k][u].passed \in Nat /\ w.started \in Nat
  BY DEF Notice, Window
<1>3. \/ v.started = w.started /\ Counted(v, k) <= Counted(w, k) + 1
      \/ Counted(v, k) <= 1
  BY RateLimiterAssumption DEF Incremented, Window, Counted
<1>4. Counted(v, k) \in Nat /\ Counted(w, k) \in Nat
  BY RateLimiterAssumption DEF Counted, Window
<1>5. Harmless(v, k, u)' <=>
        \/ told[k][u].passed + Counted(v, k) <= Len(passed'[k][u])
        \/ v.started + Duration[k] < told[k][u].at + (told[k][u].wait + 1) * Second
  BY DEF Harmless, Counted
<1>6. CASE told[k][u].passed + Counted(v, k) <= Len(passed'[k][u])
  BY <1>5, <1>6
<1>7. CASE ~(told[k][u].passed + Counted(v, k) <= Len(passed'[k][u]))
  <2>1. ~(Counted(v, k) <= 1)
    BY <1>1, <1>2, <1>4, <1>7
  <2>2. v.started = w.started /\ ~(told[k][u].passed + Counted(w, k) <= Len(passed[k][u]))
    BY <1>1, <1>2, <1>3, <1>4, <1>7, <2>1
  <2> QED
    BY <1>5, <2>2 DEF Harmless
<1> QED
  BY <1>6, <1>7

LEMMA NextNoticeInv ==
  ASSUME Serialized, HoursAreLongest, NoticeInv, [NoticeNext]_noticeVars
  PROVE  NoticeInv'
<1>1. [Next]_vars
  BY NoticeStep DEF noticeVars
<1>2. EarlyInv /\ EarlyInv' /\ OneCallPerUser /\ OneCallPerUser'
  BY <1>1, NextEarlyInv, NextOneCallPerUser DEF NoticeInv
<1>3. TypeOK /\ TypeOK' /\ told \in [Kinds -> [Users -> Notice]]
  BY <1>2 DEF EarlyInv, NoticeInv
<1>4. told' \in [Kinds -> [Users -> Notice]]
  <2>1. ASSUME NEW c \in Calls, NEW k \in Kinds, Refuse(c, k)
        PROVE  told' \in [Kinds -> [Users -> Notice]]
    <3>1. call[c].user \in Users
      BY <1>3, <2>1, CallIsCall DEF Refuse, WriteLimited
    <3>2. told'[k][call[c].user] \in Notice
      BY <1>2, <1>3, <2>1, <3>1, RefusedIsHarmless
    <3>3. PICK n : told' = [told EXCEPT ![k][call[c].user] = n]
      BY <2>1 DEF Refuse
    <3>4. n \in Notice
      BY <1>3, <3>1, <3>2, <3>3
    <3> QED
      BY <1>3, <3>1, <3>3, <3>4
  <2>2. CASE told' = told
    BY <1>3, <2>2
  <2> QED
    BY <2>1, <2>2 DEF NoticeNext, noticeVars
<1> SUFFICES ASSUME NEW k \in Kinds, NEW u \in Users
             PROVE  /\ told'[k][u].passed <= Len(passed'[k][u])
                    /\ window'[k][u] # NoWindow => Harmless(window[k][u], k, u)'
                    /\ \A c \in Calls :
                         call'[c] # NoCall /\ call'[c].user = u
                           /\ call'[c].stage = <<"write", k>>
                           => Harmless(call[c].window, k, u)'
  BY <1>2, <1>4 DEF NoticeInv
<1>5. /\ told[k][u].passed <= Len(passed[k][u])
      /\ window[k][u] # NoWindow => Harmless(window[k][u], k, u)
      /\ \A c \in Calls :
           call[c] # NoCall /\ call[c].user = u /\ call[c].stage = <<"write", k>>
             => Harmless(call[c].window, k, u)
  BY DEF NoticeInv
\* Without a pass or a refusal of u by k, a window is as harmless as before.
<1>6. ASSUME told'[k][u] = told[k][u], passed'[k][u] = passed[k][u]
      PROVE  /\ told'[k][u].passed <= Len(passed'[k][u])
             /\ window'[k][u] = window[k][u] \/ window'[k][u] = NoWindow
                  => (window'[k][u] # NoWindow => Harmless(window[k][u], k, u)')
             /\ \A c \in Calls :
                  /\ call'[c] # NoCall /\ call'[c].user = u
                  /\ call'[c].stage = <<"write", k>>
                  /\ call'[c] = call[c]
                  => Harmless(call[c].window, k, u)'
  BY <1>5, <1>6 DEF Harmless, Counted
<1>7. CASE Tick /\ told' = told
  BY <1>6, <1>7 DEF Tick
<1>8. ASSUME NEW d \in Calls, NEW v \in Users, Begin(d, v), told' = told
      PROVE  /\ told'[k][u].passed <= Len(passed'[k][u])
             /\ window'[k][u] # NoWindow => Harmless(window[k][u], k, u)'
             /\ \A c \in Calls :
                  call'[c] # NoCall /\ call'[c].user = u
                    /\ call'[c].stage = <<"write", k>>
                    => Harmless(call[c].window, k, u)'
  <2>1. \A c \in Calls : call'[c] = call[c] \/ call'[c].stage = <<"read", "minute">>
    BY <1>3, <1>8 DEF Begin, TypeOK
  <2>2. UNCHANGED <<window, passed>>
    BY <1>8 DEF Begin
  <2> QED
    BY <1>6, <1>8, <2>1, <2>2, StagesDistinct DEF Kinds
<1>9. ASSUME NEW d \in Calls, NEW j \in Kinds, Read(d, j), told' = told
      PROVE  /\ told'[k][u].passed <= Len(passed'[k][u])
             /\ window'[k][u] # NoWindow => Harmless(window[k][u], k, u)'
             /\ \A c \in Calls :
                  call'[c] # NoCall /\ call'[c].user = u
                    /\ call'[c].stage = <<"write", k>>
                    => Harmless(call[c].window, k, u)'
  <2> DEFINE w == IF Cached(j, call[d].user) THEN window[j][call[d].user] ELSE NewWindow
  <2>1. UNCHANGED <<window, passed>>
    BY <1>9 DEF Read
  <2>2. /\ \A c \in Calls \ {d} : call'[c] = call[c]
        /\ call'[d].stage = <<"write", j>>
        /\ call'[d].window = w /\ call'[d].user = call[d].user
    <3>1. call[d] # NoCall /\ call[d] \in Call
      BY <1>3, <1>9, CallIsCall DEF Read
    <3> QED
      BY <1>3, <1>9, <3>1 DEF Read, TypeOK, Call
  <2>3. CASE j = k /\ call[d].user = u
    <3>1. CASE Cached(k, u)
      <4>1. w = window[k][u] /\ window[k][u] # NoWindow
        BY <2>3, <3>1 DEF Cached
      <4>2. Harmless(call[d].window, k, u)'
        BY <1>5, <1>9, <2>1, <2>2, <4>1 DEF Harmless, Counted
      <4> QED
        BY <1>6, <1>9, <2>1, <2>2, <4>2
    <3>2. CASE ~Cached(k, u)
      <4>1. call'[d].window.count = 0
        BY <2>2, <2>3, <3>2 DEF NewWindow
      <4>2. Counted(call'[d].window, k) = 0
        BY <4>1, RateLimiterAssumption DEF Counted
      <4>3. told'[k][u].passed + Counted(call'[d].window, k) <= Len(passed'[k][u])
        BY <1>4, <1>5, <1>9, <2>1, <4>2 DEF Notice
      <4>4. Harmless(call[d].window, k, u)'
        BY <4>3 DEF Harmless, Counted
      <4> QED
        BY <1>6, <1>9, <2>1, <2>2, <4>4
    <3> QED
      BY <3>1, <3>2
  <2>4. CASE ~(j = k /\ call[d].user = u)
    BY <1>6, <1>9, <2>1, <2>2, <2>4, StagesDistinct
  <2> QED
    BY <2>3, <2>4
<1>10. ASSUME NEW d \in Calls, NEW j \in Kinds,
              \/ WritePassed(d, j) /\ told' = told
              \/ Refuse(d, j)
       PROVE  /\ told'[k][u].passed <= Len(passed'[k][u])
              /\ window'[k][u] # NoWindow => Harmless(window[k][u], k, u)'
              /\ \A c \in Calls :
                   call'[c] # NoCall /\ call'[c].user = u
                     /\ call'[c].stage = <<"write", k>>
                     => Harmless(call[c].window, k, u)'
  <2> DEFINE v == call[d].user
             w == call[d].window
  <2>1. /\ call[d] # NoCall /\ call[d].stage = <<"write", j>>
        /\ call[d] \in Call /\ v \in Users /\ w \in Window
    BY <1>3, <1>10, CallIsCall DEF Refuse, WritePassed, WriteLimited
  <2>2. /\ \A c \in Calls \ {d} : call'[c] = call[c]
        /\ call'[d] = NoCall \/ (/\ call'[d].stage = <<"read", "hour">>
                                 /\ call'[d].user = v)
    <3>1. CASE WritePassed(d, j)
      BY <1>3, <2>1, <3>1 DEF WritePassed, TypeOK, Call
    <3>2. CASE Refuse(d, j)
      BY <1>3, <2>1, <3>2 DEF Refuse, WriteLimited, TypeOK
    <3> QED
      BY <1>10, <3>1, <3>2
  <2>3. window' = [window EXCEPT ![j][v] = Incremented(w, j)]
    BY <1>10 DEF Refuse, WritePassed, WriteLimited
  <2>4. CASE j = k /\ v = u
    \* The user's only call is the one that writes.
    <3>1. ASSUME NEW c \in Calls, call'[c] # NoCall, call'[c].user = u
          PROVE  call'[c].stage # <<"write", k>>
      BY <1>2, <2>1, <2>2, <2>4, <3>1, StagesDistinct DEF OneCallPerUser, Kinds
    <3>2. PICK e \in Window : e = Incremented(w, k)
      BY <1>3, <2>1, IncrementedIsWindow DEF TypeOK
    <3>3. window'[k][u] = e
      BY <1>3, <2>3, <2>4, <3>2 DEF TypeOK
    <3>4. CASE WritePassed(d, j) /\ told' = told
      <4>1. passed'[k][u] = Append(passed[k][u], now)
        BY <1>3, <2>4, <3>4 DEF WritePassed, TypeOK
      <4>2. PICK f : f = w
        OBVIOUS
      <4>3. Harmless(f, k, u)
        BY <1>5, <2>1, <2>4, <4>2
      <4>4. Harmless(e, k, u)'
        BY <1>3, <1>5, <2>1, <3>2, <3>4, <4>1, <4>2, <4>3, PassKeepsHarmless
      <4>5. told'[k][u].passed <= Len(passed'[k][u])
        <5>1. Len(passed'[k][u]) = Len(passed[k][u]) + 1 /\ Len(passed[k][u]) \in Nat
          BY <1>3, <4>1 DEF TypeOK
        <5>2. told'[k][u].passed = told[k][u].passed /\ told[k][u].passed \in Nat
          BY <1>3, <3>4 DEF Notice
        <5> QED
          BY <1>5, <5>1, <5>2
      <4> QED
        BY <3>1, <3>3, <4>4, <4>5 DEF Harmless, Counted
    <3>5. CASE Refuse(d, j)
      <4>1. /\ told'[k][u].passed = Len(passed[k][u])
            /\ window'[k][u].started + Duration[k]
                 < told'[k][u].at + (told'[k][u].wait + 1) * Second
        BY <1>2, <1>3, <2>4, <3>5, RefusedIsHarmless
      <4>2. passed' = passed /\ Len(passed[k][u]) \in Nat
        BY <1>3, <3>5 DEF Refuse, WriteLimited, TypeOK
      <4>3. Harmless(window[k][u], k, u)'
        BY <4>1 DEF Harmless
      <4> QED
        BY <3>1, <4>1, <4>2, <4>3
    <3> QED
      BY <1>10, <3>4, <3>5
  <2>5. CASE ~(j = k /\ v = u)
    <3>1. passed'[k][u] = passed[k][u]
      <4>1. passed' = [passed EXCEPT ![j][v] = Append(@, now)] \/ passed' = passed
        BY <1>10 DEF WritePassed, Refuse, WriteLimited
      <4>2. passed \in [Kinds -> [Users -> Seq(Nat)]]
        BY <1>3 DEF TypeOK
      <4>3. [passed EXCEPT ![j][v] = Append(passed[j][v], now)][k][u] = passed[k][u]
        BY <2>1, <2>5, <4>2, NestedExcept
      <4> QED
        BY <4>1, <4>3
    <3>2. window'[k][u] = window[k][u]
      BY <1>3, <2>1, <2>3, <2>5, NestedExcept DEF TypeOK
    <3>3. told'[k][u] = told[k][u]
      BY <1>3, <1>10, <2>1, <2>5, NestedExcept DEF Refuse
    <3> QED
      BY <1>6, <2>2, <3>1, <3>2, <3>3, StagesDistinct DEF Kinds
  <2> QED
    BY <2>4, <2>5
<1>11. ASSUME NEW j \in Kinds, NEW v \in Users, Evict(j, v), told' = told
       PROVE  /\ told'[k][u].passed <= Len(passed'[k][u])
              /\ window'[k][u] # NoWindow => Harmless(window[k][u], k, u)'
              /\ \A c \in Calls :
                   call'[c] # NoCall /\ call'[c].user = u
                     /\ call'[c].stage = <<"write", k>>
                     => Harmless(call[c].window, k, u)'
  <2>1. /\ UNCHANGED <<call, passed>>
        /\ window'[k][u] = window[k][u] \/ window'[k][u] = NoWindow
    BY <1>3, <1>11 DEF Evict, TypeOK
  <2> QED
    BY <1>6, <1>11, <2>1
<1>12. CASE UNCHANGED noticeVars
  BY <1>6, <1>12 DEF noticeVars, vars
<1> QED
  BY <1>7, <1>8, <1>9, <1>10, <1>11, <1>12 DEF NoticeNext

\* A window that is still on when the time that was told is over is full of
\* messages that passed since.
LEMMA RefusedAgainAfterLimit ==
  ASSUME NoticeInv, NEW c \in Calls, NEW k \in Kinds, WriteLimited(c, k),
         NEW u, u = call[c].user,
         now >= told[k][u].at + (told[k][u].wait + 1) * Second
  PROVE  Len(passed[k][u]) - told[k][u].passed >= Limit[k]
<1> DEFINE w == call[c].window
           over == told[k][u].at + (told[k][u].wait + 1) * Second
<1>1. TypeOK /\ now \in Nat /\ u \in Users /\ w \in Window
  BY CallIsCall DEF NoticeInv, EarlyInv, TypeOK, WriteLimited
<1>2. w.started \in Nat /\ Len(passed[k][u]) \in Nat /\ told[k][u] \in Notice
  BY <1>1 DEF Window, TypeOK, NoticeInv
<1>3. over \in Int
  <2>1. told[k][u].at \in Int /\ told[k][u].wait \in Nat
    BY <1>2 DEF Notice
  <2>2. (told[k][u].wait + 1) * Second \in Int
    BY <2>1, RateLimitNoticeAssumption
  <2> QED
    BY <2>1, <2>2
<1>4. Harmless(w, k, u)
  BY <1>1 DEF NoticeInv, WriteLimited
<1>5. ~Admits(w, k)
  BY DEF WriteLimited
<1>6. Counted(w, k) = Limit[k]
  BY <1>1, <1>5, RateLimiterAssumption DEF Admits, Incremented, Counted, Window
<1>7. now < w.started + Duration[k]
  BY <1>1, <1>2, <1>5, RateLimiterAssumption DEF Admits
<1> HIDE DEF over, w
<1>8. ~(w.started + Duration[k] < over)
  <2>1. now >= over
    BY DEF over
  <2> QED
    BY <1>1, <1>2, <1>3, <1>7, <2>1, RateLimiterAssumption
<1>9. told[k][u].passed + Limit[k] <= Len(passed[k][u])
  BY <1>4, <1>6, <1>8 DEF Harmless, over
<1>10. told[k][u].passed \in Nat /\ Limit[k] \in Nat
  BY <1>2, RateLimiterAssumption DEF Notice
<1> QED
  BY <1>2, <1>9, <1>10, SMTT(30)

\* When the calls for one user do not overlap, a user who waits as long as told,
\* and the second that was cut off, is not refused again by the same window
\* before another Limit[k] messages have passed, whatever the limits and the
\* durations are, also when the caches drop windows in between.
THEOREM RateLimiterWaitingHelps ==
  ASSUME Serialized, HoursAreLongest
  PROVE  NoticeSpec => WaitingHelps
<1>1. NoticeInv /\ [NoticeNext]_noticeVars =>
        [\A c \in Calls, k \in Kinds :
           LET u == call[c].user
           IN  WriteLimited(c, k) /\ told[k][u] # NotTold
                 /\ now >= told[k][u].at + (told[k][u].wait + 1) * Second
               => Len(passed[k][u]) - told[k][u].passed >= Limit[k]]_noticeVars
  BY RefusedAgainAfterLimit
<1>2. NoticeInv /\ [NoticeNext]_noticeVars => NoticeInv'
  BY NextNoticeInv
<1> QED
  BY <1>1, <1>2, InitNoticeInv, PTL DEF NoticeSpec, WaitingHelps

=============================================================================
