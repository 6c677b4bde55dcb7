------------------------- MODULE SlidingWindowLimiter -------------------------
(***************************************************************************)
(* The portal's rate limit (app.py of public-portal): the threads of a     *)
(* ThreadingHTTPServer call allow() for one bucket and client address.     *)
(* allow() reads the clock before it asks for the lock, so a thread may    *)
(* decide with a time that has passed, and the times in the queue need not *)
(* be in order.                                                            *)
(*                                                                         *)
(* Time is counted in ticks, several to a second, because retry_after is   *)
(* rounded to seconds.                                                     *)
(***************************************************************************)
EXTENDS Integers, Sequences, FiniteSets, FiniteSetsExt

CONSTANTS
  Thread,          \* request threads
  NoTime,          \* a thread that is not in allow()
  Limit,           \* limit
  Window,          \* window, in ticks
  TicksPerSecond,
  MaxDelay,        \* bound on the time between time.time() and the lock
  MaxTime          \* bound on the clock

ASSUME LimitAssumption == Limit \in Nat \ {0}
ASSUME TimeAssumption  == /\ Window \in Nat
                          /\ TicksPerSecond \in Nat \ {0}
                          /\ MaxDelay \in Nat
                          /\ MaxTime \in Nat
                          /\ NoTime \notin Nat

VARIABLES
  clock,      \* time.time()
  now,        \* now[t]: the time t has read
  q,          \* self._events[key]
  admitted,   \* the times at which requests were really let through
  promise     \* what a refused client was told: the time it may come back

limiterVars == <<clock, now, q, admitted, promise>>

LimiterInit ==
  /\ clock = 0
  /\ now = [t \in Thread |-> NoTime]
  /\ q = <<>>
  /\ admitted = <<>>
  /\ promise = NoTime

(* Mutant of Unexpired: a tick too early.                                  *)
Unexpired_Early(s, cutoff) ==
  LET live == {i \in DOMAIN s : s[i] > cutoff + 1}
  IN  IF live = {} THEN <<>> ELSE SubSeq(s, Min(live), Len(s))

(* while q and q[0] <= cutoff: q.popleft().                                *)
Unexpired(s, cutoff) ==
  LET live == {i \in DOMAIN s : s[i] > cutoff}
  IN  IF live = {} THEN <<>> ELSE SubSeq(s, Min(live), Len(s))

(* Mutant of RetryAfter: rounded down.                                     *)
RetryAfter_RoundedDown(n, first) == ((Window - (n - first)) \div TicksPerSecond)

(* max(1, int(window - (now - q[0])) + 1), in seconds.                     *)
RetryAfter(n, first) ==
  Max({1, ((Window - (n - first)) \div TicksPerSecond) + 1})

ReadClock(t) ==
  /\ now[t] = NoTime
  /\ now' = [now EXCEPT ![t] = clock]
  /\ UNCHANGED <<clock, q, admitted, promise>>

(* Mutant of Decide: the limit is checked with > instead of >=.            *)
Decide_OneMore(t) ==
  LET rest == Unexpired(q, now[t] - Window) IN
  /\ now[t] # NoTime
  /\ IF Len(rest) > Limit
       THEN /\ q' = rest
            /\ promise' = now[t] + RetryAfter(now[t], Head(rest)) * TicksPerSecond
            /\ UNCHANGED admitted
       ELSE /\ q' = Append(rest, now[t])
            /\ admitted' = Append(admitted, clock)
            /\ promise' = NoTime
  /\ now' = [now EXCEPT ![t] = NoTime]
  /\ UNCHANGED clock

(* with self._lock: the rest of allow() runs undisturbed.                  *)
Decide(t) ==
  LET rest == Unexpired(q, now[t] - Window) IN
  /\ now[t] # NoTime
  /\ IF Len(rest) >= Limit
       THEN /\ q' = rest
            /\ promise' = now[t] + RetryAfter(now[t], Head(rest)) * TicksPerSecond
            /\ UNCHANGED admitted
       ELSE /\ q' = Append(rest, now[t])
            /\ admitted' = Append(admitted, clock)
            /\ promise' = NoTime
  /\ now' = [now EXCEPT ![t] = NoTime]
  /\ UNCHANGED clock

(* A thread gets the lock at most MaxDelay ticks after it read the clock.  *)
Tick ==
  /\ clock < MaxTime
  /\ \A t \in Thread : now[t] # NoTime => clock - now[t] < MaxDelay
  /\ clock' = clock + 1
  /\ UNCHANGED <<now, q, admitted, promise>>

LimiterNext == Tick \/ \E t \in Thread : ReadClock(t) \/ Decide(t)

LimiterSpec == LimiterInit /\ [][LimiterNext]_limiterVars
-----------------------------------------------------------------------------
(* PROPERTIES                                                              *)

LimiterTypeOK ==
  /\ clock \in 0 .. MaxTime
  /\ now \in [Thread -> 0 .. MaxTime \cup {NoTime}]
  /\ q \in Seq(0 .. MaxTime) /\ Len(q) <= Limit
  /\ admitted \in Seq(0 .. MaxTime)
  /\ promise \in Nat \cup {NoTime}

(* The requests let through in the span of n ticks that ends at time e.    *)
AdmittedIn(n, e) == Cardinality({i \in DOMAIN admitted : admitted[i] \in (e - n + 1) .. e})

(* The README of the portal: so many requests per window and client.  A    *)
(* thread can wait between the clock and the lock, so that what holds is   *)
(* this: in a span that is shorter than the window by the longest wait,    *)
(* never more than the limit, though late threads put stale times in the   *)
(* queue and out of order.                                                 *)
LimitPerShorterWindow == AdmittedIn(Window - MaxDelay, clock) <= Limit

(* A refused client that waits for the retry_after it was given, while     *)
(* nobody else is let through, is let through.                             *)
PromiseKept ==
  [][\A t \in Thread :
       (Decide(t) /\ promise # NoTime /\ now[t] >= promise)
         => admitted' # admitted]_limiterVars
=============================================================================
