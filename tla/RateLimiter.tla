---------------------------- MODULE RateLimiter ----------------------------
(***************************************************************************)
(* The per-user rate limiter (rate_limit.rs): two caches of fixed-window   *)
(* counters.  RateLimiterManager::check takes no lock: for each of the two *)
(* caches it reads the user's window, increments its own copy, and writes  *)
(* the copy back.  Webhook calls run on many threads, so two checks of one *)
(* user may interleave at each read and write.                             *)
(***************************************************************************)
EXTENDS Integers, Sequences, FiniteSets

CONSTANTS
  Users,        \* Threema IDs
  Calls,        \* calls of `check` that may be running at the same time
  Limit,        \* Limit[k]: messages_per_minute, messages_per_hour
  Duration,     \* Duration[k]: 60 s, 3600 s
  Idle,         \* Idle[k]: time_to_idle of the cache, 70 s, 3660 s
  Capacity,     \* max_capacity of each cache
  CountMax,     \* u32::MAX
  Serialized,   \* TRUE: no two calls for one user overlap
  MaxTime,      \* bound of the model: last tick
  MaxEvictions  \* bound of the model: evictions of one user from one cache

Kinds == {"minute", "hour"}

ASSUME RateLimiterAssumption ==
  /\ Limit \in [Kinds -> 1..CountMax]
  /\ Duration \in [Kinds -> Nat \ {0}]
  /\ Idle \in [Kinds -> Nat]
  /\ \A k \in Kinds : Duration[k] < Idle[k]
  /\ Capacity \in Nat
  /\ CountMax \in Nat
  /\ Serialized \in BOOLEAN
  /\ MaxTime \in Nat
  /\ MaxEvictions \in Nat

VARIABLES
  now,       \* Instant::now
  window,    \* window[k][u]: the entry of u in cache k, or NoWindow
  touched,   \* touched[k][u]: when that entry was last read or written
  call,      \* call[c]: where call c is in `check`
  passed,    \* passed[k][u]: the times at which k's window let u pass
  evicted    \* evicted[k][u]: how often cache k dropped u over its capacity

vars == <<now, window, touched, call, passed, evicted>>

NoWindow == [count |-> -1, started |-> -1]
NoCall == [stage |-> "done"]

Window == [count : 0..CountMax, started : Nat]

\* A call reads the window of one kind, and then writes it.
Stages == { <<"read", k>> : k \in Kinds } \cup { <<"write", k>> : k \in Kinds }
Call == [stage : Stages, user : Users, window : Window]

TypeOK ==
  /\ now \in Nat
  /\ window \in [Kinds -> [Users -> Window \cup {NoWindow}]]
  /\ touched \in [Kinds -> [Users -> Nat]]
  /\ call \in [Calls -> Call \cup {NoCall}]
  /\ passed \in [Kinds -> [Users -> Seq(Nat)]]
  /\ evicted \in [Kinds -> [Users -> Nat]]

Init ==
  /\ now = 0
  /\ window = [k \in Kinds |-> [u \in Users |-> NoWindow]]
  /\ touched = [k \in Kinds |-> [u \in Users |-> 0]]
  /\ call = [c \in Calls |-> NoCall]
  /\ passed = [k \in Kinds |-> [u \in Users |-> << >>]]
  /\ evicted = [k \in Kinds |-> [u \in Users |-> 0]]

-----------------------------------------------------------------------------

\* Window::new.
NewWindow == [count |-> 0, started |-> now]

\* Faulty increments, for testing the properties: no saturation ...
IncrementedPastMax(w, k) ==
  IF now - w.started >= Duration[k]
  THEN [count |-> 1, started |-> now]
  ELSE [w EXCEPT !.count = @ + 1]

\* ... and every call, a refused one too, prolongs the window.
IncrementedSliding(w, k) ==
  IF now - w.started >= Duration[k]
  THEN [count |-> 1, started |-> now]
  ELSE [count |-> IF w.count < CountMax THEN w.count + 1 ELSE CountMax, started |-> now]

\* Window::check_and_increment: the window after the call.
Incremented(w, k) ==
  IF now - w.started >= Duration[k]
  THEN [count |-> 1, started |-> now]
  ELSE [w EXCEPT !.count = IF @ < CountMax THEN @ + 1 ELSE CountMax]

\* Faulty: the count is compared before this call is counted.
AdmitsOneMore(w, k) ==
  \/ now - w.started >= Duration[k]
  \/ w.count <= Limit[k]

\* Window::check_and_increment: its verdict.
Admits(w, k) ==
  \/ now - w.started >= Duration[k]
  \/ Incremented(w, k).count <= Limit[k]

\* The cache has an entry of u that is not idle for too long.
Cached(k, u) ==
  /\ window[k][u] # NoWindow
  /\ now - touched[k][u] < Idle[k]

Touch(k, u) == touched' = [touched EXCEPT ![k][u] = now]

-----------------------------------------------------------------------------

Tick ==
  /\ now < MaxTime
  /\ now' = now + 1
  /\ UNCHANGED <<window, touched, call, passed, evicted>>

\* A call of `check` for u begins.
Begin(c, u) ==
  /\ call[c] = NoCall
  /\ Serialized => \A d \in Calls : call[d] # NoCall => call[d].user # u
  /\ call' = [call EXCEPT
                ![c] = [stage |-> <<"read", "minute">>, user |-> u, window |-> NewWindow]]
  /\ UNCHANGED <<now, window, touched, passed, evicted>>

\* cache.get(&key).unwrap_or_else(Window::new): reading an entry keeps it from
\* becoming idle.
Read(c, k) ==
  /\ call[c] # NoCall
  /\ call[c].stage = <<"read", k>>
  /\ LET u == call[c].user
     IN  /\ call' = [call EXCEPT
                       ![c].stage = <<"write", k>>,
                       ![c].window = IF Cached(k, u) THEN window[k][u] ELSE NewWindow]
         /\ IF Cached(k, u) THEN Touch(k, u) ELSE UNCHANGED touched
  /\ UNCHANGED <<now, window, passed, evicted>>

\* check_and_increment lets the call pass, and insert writes the window back (no
\* tick passes between the two); a call that passed the minute's window goes on
\* to the hour's.
WritePassed(c, k) ==
  /\ call[c] # NoCall
  /\ call[c].stage = <<"write", k>>
  /\ Admits(call[c].window, k)
  /\ LET u == call[c].user
     IN  /\ window' = [window EXCEPT ![k][u] = Incremented(call[c].window, k)]
         /\ Touch(k, u)
         /\ passed' = [passed EXCEPT ![k][u] = Append(@, now)]
  /\ call' = [call EXCEPT ![c] = IF k = "minute"
                                 THEN [@ EXCEPT !.stage = <<"read", "hour">>]
                                 ELSE NoCall]
  /\ UNCHANGED <<now, evicted>>

\* check_and_increment exceeds the limit: the window is written back all the
\* same, and the call returns Limited.
WriteLimited(c, k) ==
  /\ call[c] # NoCall
  /\ call[c].stage = <<"write", k>>
  /\ ~Admits(call[c].window, k)
  /\ LET u == call[c].user
     IN  /\ window' = [window EXCEPT ![k][u] = Incremented(call[c].window, k)]
         /\ Touch(k, u)
  /\ call' = [call EXCEPT ![c] = NoCall]
  /\ UNCHANGED <<now, passed, evicted>>

\* A cache holds more than its capacity and drops the entry of some user.
Evict(k, u) ==
  /\ Cardinality({v \in Users : window[k][v] # NoWindow}) > Capacity
  /\ window[k][u] # NoWindow
  /\ evicted[k][u] < MaxEvictions
  /\ window' = [window EXCEPT ![k][u] = NoWindow]
  /\ evicted' = [evicted EXCEPT ![k][u] = @ + 1]
  /\ UNCHANGED <<now, touched, call, passed>>

Next ==
  \/ Tick
  \/ \E c \in Calls, u \in Users : Begin(c, u)
  \/ \E c \in Calls, k \in Kinds : Read(c, k)
  \/ \E c \in Calls, k \in Kinds : WritePassed(c, k)
  \/ \E c \in Calls, k \in Kinds : WriteLimited(c, k)
  \/ \E k \in Kinds, u \in Users : Evict(k, u)

Spec == Init /\ [][Next]_vars

-----------------------------------------------------------------------------

\* Within any span of one window's duration at most 2 * Limit[k] of a user's
\* messages pass, unless the user's window was ever dropped over capacity
\* (rate_limit.rs: up to 2 * limit in a burst across a window boundary).
DoubleBurstBound ==
  \A k \in Kinds, u \in Users :
    evicted[k][u] = 0 =>
      \A i, j \in 1..Len(passed[k][u]) :
        i + 2 * Limit[k] <= j => passed[k][u][j] >= passed[k][u][i] + Duration[k]

\* Nobody is limited early: a message is refused only when the window that
\* refuses it let Limit[k] messages of the user pass within its duration.
\* This holds for overlapping calls and dropped entries too.
Recent(k, u) ==
  {i \in 1..Len(passed[k][u]) : now - passed[k][u][i] < Duration[k]}

NeverLimitedEarly ==
  [][\A c \in Calls, k \in Kinds :
       WriteLimited(c, k) => Cardinality(Recent(k, call[c].user)) >= Limit[k]]_vars

=============================================================================
