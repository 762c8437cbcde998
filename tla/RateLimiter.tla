---------------------------- MODULE RateLimiter -----------------------------
(***************************************************************************)
(* The in-memory rate limiter of one route: a counter per key that starts  *)
(* with the first request of a window and is forgotten by a cleanup (Go,   *)
(* every five minutes) or when there are too many keys (Python).           *)
(*                                                                         *)
(* ratelimit.go, ratelimit.py.  A check runs under the limiter's lock (Go) *)
(* or without an await (Python), so it is one step.  Time passes in ticks, *)
(* several to the second: the retryAfter of a refusal is in whole seconds. *)
(***************************************************************************)
EXTENDS Integers, FiniteSets, FiniteSetsExt

CONSTANTS Keys,        \* "ip:..." and "user:..." keys of the two backends
          GoKeys,      \* those in the table of ratelimit.go, the others in ratelimit.py's
          Limit,       \* requests a window allows (Max, max_requests)
          Window,      \* length of a window, in ticks
          Second,      \* ticks in a second
          MaxEntries,  \* keys Python keeps without an eviction (10000)
          MaxTime,     \* bound on the clock
          MaxRefused   \* bound on refusals in one window

ASSUME LimitAssumption  == Limit \in Nat \ {0}
ASSUME TimeAssumption   == Window \in Nat \ {0} /\ Second \in Nat \ {0} /\ MaxTime \in Nat
ASSUME KeysAssumption   == IsFiniteSet(Keys) /\ GoKeys \subseteq Keys /\ MaxEntries \in Nat
ASSUME BoundsAssumption == MaxRefused \in Nat

VARIABLES now,       \* the clock
          entries,   \* entries[k]: the window of key k, or None
          told,      \* when the last refusal of k's window told it to return, or 0
          allowed    \* history: allowed[k][t] requests of k passed at time t

vars == <<now, entries, told, allowed>>

Times == 0..MaxTime
None  == [count |-> 0, windowEnd |-> -1]

TypeOK ==
  /\ now \in Times
  /\ entries \in [Keys -> [count : 1..(Limit + MaxRefused), windowEnd : Window..(MaxTime + Window)]
                            \cup {None}]
  /\ told \in [Keys -> Nat]
  /\ allowed \in [Keys -> [Times -> Nat]]
  /\ \A k \in Keys : told[k] # 0 => entries[k].count > Limit

Init == /\ now = 0
        /\ entries = [k \in Keys |-> None]
        /\ told = [k \in Keys |-> 0]
        /\ allowed = [k \in Keys |-> [t \in Times |-> 0]]

(* now.After(e.windowEnd), now >= entry.window_end *)
Over(k, e, t) == IF k \in GoKeys THEN t > e.windowEnd ELSE t >= e.windowEnd

LargerOf(a, b) == IF a > b THEN a ELSE b

(* Mutant of RetryAfter: whole seconds, rounded down. *)
RetryAfterFloor(k, e) == (e.windowEnd - now) \div Second

(* Mutant of RetryAfter: the length of the window, not what is left of it. *)
RetryAfterWindow(k, e) == Window \div Second + 1

(***************************************************************************)
(* Go: the seconds until the end, cut off, and one more.  Python: the      *)
(* difference of the two times, each cut off to seconds; at least one.     *)
(***************************************************************************)
RetryAfter(k, e) ==
  IF k \in GoKeys THEN (e.windowEnd - now) \div Second + 1
                   ELSE LargerOf(1, e.windowEnd \div Second - now \div Second)

-----------------------------------------------------------------------------
Known == {k \in Keys : entries[k] # None}

(* cleanup, _evict_expired: the windows that are over. *)
Evicted == {k \in Known : Over(k, entries[k], now)}

Without(S) == [k \in Keys |-> IF k \in S THEN None ELSE entries[k]]

(* Python evicts on the way into a check, when there are too many keys. *)
Kept(k) ==
  IF k \notin GoKeys /\ Cardinality(Known \ GoKeys) > MaxEntries
    THEN Without(Evicted \ GoKeys) ELSE entries

Pass(k) == allowed' = [allowed EXCEPT ![k][now] = @ + 1]

Told(es) == [k \in Keys |-> IF es[k] = None THEN 0 ELSE told[k]]

(* The first request of a key, or the first after its window. *)
NewWindow(k) ==
  /\ Kept(k)[k] = None \/ Over(k, Kept(k)[k], now)
  /\ entries' = [Kept(k) EXCEPT ![k] = [count |-> 1, windowEnd |-> now + Window]]
  /\ told' = [Told(Kept(k)) EXCEPT ![k] = 0]
  /\ Pass(k)
  /\ UNCHANGED now

(* Mutant of Counted: the request beyond the limit passes as well. *)
CountedFrom0(k) ==
  LET e == Kept(k)[k] IN
  /\ e # None /\ ~Over(k, e, now)
  /\ e.count <= Limit
  /\ entries' = [Kept(k) EXCEPT ![k].count = @ + 1]
  /\ told' = Told(Kept(k))
  /\ Pass(k)
  /\ UNCHANGED now

(* A further request of the window, within the limit. *)
Counted(k) ==
  LET e == Kept(k)[k] IN
  /\ e # None /\ ~Over(k, e, now)
  /\ e.count < Limit
  /\ entries' = [Kept(k) EXCEPT ![k].count = @ + 1]
  /\ told' = Told(Kept(k))
  /\ Pass(k)
  /\ UNCHANGED now

(* 429: the request is counted all the same. *)
Refused(k) ==
  LET e == Kept(k)[k] IN
  /\ e # None /\ ~Over(k, e, now)
  /\ e.count \in Limit..(Limit + MaxRefused - 1)
  /\ entries' = [Kept(k) EXCEPT ![k].count = @ + 1]
  /\ told' = [Told(Kept(k)) EXCEPT ![k] = now + Second * RetryAfter(k, e)]
  /\ UNCHANGED <<now, allowed>>

(* Go's ticker.  Python has none. *)
Cleanup ==
  /\ Evicted \cap GoKeys # {}
  /\ entries' = Without(Evicted \cap GoKeys)
  /\ told' = Told(Without(Evicted \cap GoKeys))
  /\ UNCHANGED <<now, allowed>>

TimePasses ==
  /\ now < MaxTime
  /\ now' = now + 1
  /\ UNCHANGED <<entries, told, allowed>>

Next == \/ \E k \in Keys : NewWindow(k) \/ Counted(k) \/ Refused(k)
        \/ Cleanup
        \/ TimePasses

Spec == Init /\ [][Next]_vars

-----------------------------------------------------------------------------
PassedIn(k, first, last) ==
  MapThenSumSet(LAMBDA t : allowed[k][t], Times \cap first..last)

(* The last instant of a span of one window that starts at t. *)
SpanEnd(k, t) == IF k \in GoKeys THEN t + Window ELSE t + Window - 1

(***************************************************************************)
(* However requests fall on windows, cleanups and evictions, no span of    *)
(* one window's length sees twice the limit: a window starts with a        *)
(* request, so a span that reaches into the next one has lost that.        *)
(***************************************************************************)
LessThanTwice ==
  \A k \in Keys, t \in Times : PassedIn(k, t, SpanEnd(k, t)) <= 2 * Limit - 1

(***************************************************************************)
(* "Too many requests. Try again in %d seconds.": a client of the Go       *)
(* backend that does so finds the window it was refused in over.  (Python  *)
(* cuts both times off before it subtracts them, and its hint may be too   *)
(* short.)                                                                 *)
(***************************************************************************)
RetrySuffices ==
  \A k \in GoKeys : told[k] # 0 => Over(k, entries[k], told[k])

(***************************************************************************)
(* The same message, of either backend: the hint is less than a second     *)
(* short of the window's end, and at most a second beyond it, however long *)
(* ago it was given and whatever was counted, cleaned up or evicted since. *)
(***************************************************************************)
HintsClose ==
  \A k \in Keys : told[k] # 0 => /\ entries[k].windowEnd - Second < told[k]
                                 /\ told[k] <= entries[k].windowEnd + Second
=============================================================================
