------------------------- MODULE RateLimiterProofs --------------------------
(***************************************************************************)
(* A client of the Go backend that returns when it was told to finds its   *)
(* window over, and no key passes twice the limit within the length of a   *)
(* window, for any length of a window and any fraction of a second.  Then  *)
(* the types: what a window counts and when it ends stay within bounds.    *)
(* Last, how far off the hints of both backends are.                       *)
(***************************************************************************)
EXTENDS RateLimiter, SumTheorems, TLAPS

Windows == [count : Nat, windowEnd : Int]

Inv == /\ now \in Nat
       /\ entries \in [Keys -> Windows]
       /\ told \in [Keys -> Int]
       /\ RetrySuffices

(* int(until.Seconds()) + 1: what is cut off is less than the second added. *)
LEMMA RoundedUp ==
  ASSUME NEW n \in Nat, NEW d \in Nat \ {0}
  PROVE  n \div d + 1 \in Int /\ n < d * (n \div d + 1)
<1>1. n \div d \in Int /\ n % d \in 0..(d - 1) /\ n = (d * (n \div d)) + (n % d)
  OBVIOUS
<1>2. d * (n \div d + 1) = d * (n \div d) + d
  BY <1>1
<1> QED BY <1>1, <1>2

(* Python's hint is an integer as well, whatever it is worth. *)
LEMMA HintIsInteger ==
  ASSUME Inv, NEW k \in Keys, NEW e \in Windows
  PROVE  now + Second * RetryAfter(k, e) \in Int
<1>1. /\ now \in Int /\ e.windowEnd \in Int /\ Second \in Nat \ {0}
      /\ e.windowEnd - now \in Int
  BY TimeAssumption DEF Inv, Windows
<1>2. /\ (e.windowEnd - now) \div Second \in Int
      /\ e.windowEnd \div Second \in Int /\ now \div Second \in Int
  BY <1>1
<1>3. RetryAfter(k, e) \in Int
  BY <1>2 DEF RetryAfter, LargerOf
<1> QED BY <1>1, <1>3

LEMMA InitInv == Init => Inv
  BY KeysAssumption DEF Init, Inv, Windows, None, RetrySuffices

(* An eviction or a cleanup takes the hint with the window. *)
LEMMA WithoutInv ==
  ASSUME Inv, NEW S \in SUBSET Keys
  PROVE  /\ Without(S) \in [Keys -> Windows]
         /\ Told(Without(S)) \in [Keys -> Int]
         /\ \A k \in GoKeys : Told(Without(S))[k] # 0
              => Over(k, Without(S)[k], Told(Without(S))[k])
  BY KeysAssumption DEF Inv, Without, Told, Windows, None, RetrySuffices, Over

(* What a check finds when it looks its key up. *)
LEMMA KeptInv ==
  ASSUME Inv, NEW k \in Keys
  PROVE  /\ Kept(k) \in [Keys -> Windows]
         /\ Told(Kept(k)) \in [Keys -> Int]
         /\ \A j \in GoKeys : Told(Kept(k))[j] # 0
              => Over(j, Kept(k)[j], Told(Kept(k))[j])
<1>1. CASE Kept(k) = Without(Evicted \ GoKeys)
  BY <1>1, WithoutInv DEF Evicted, Known
<1>2. CASE Kept(k) = entries
  BY <1>2, KeysAssumption DEF Told, Inv, RetrySuffices
<1> QED BY <1>1, <1>2 DEF Kept

LEMMA NewWindowInv ==
  ASSUME Inv, NEW k \in Keys, NewWindow(k) PROVE Inv'
<1> DEFINE w == [count |-> 1, windowEnd |-> now + Window]
<1>1. /\ entries' = [Kept(k) EXCEPT ![k] = w]
      /\ told' = [Told(Kept(k)) EXCEPT ![k] = 0]
      /\ now' = now
  BY DEF NewWindow
<1>2. w \in Windows
  BY TimeAssumption DEF Inv, Windows
<1> HIDE DEF w
<1>3. entries' \in [Keys -> Windows] /\ told' \in [Keys -> Int] /\ now' \in Nat
  BY <1>1, <1>2, KeptInv DEF Inv
<1>4. ASSUME NEW j \in GoKeys, told'[j] # 0 PROVE Over(j, entries'[j], told'[j])
  BY <1>1, <1>4, KeptInv, KeysAssumption
<1> QED BY <1>3, <1>4 DEF Inv, RetrySuffices, Over

(* Counting a request leaves the window's end, and so the hint, as it was. *)
LEMMA CountedInv ==
  ASSUME Inv, NEW k \in Keys, Counted(k) PROVE Inv'
<1>1. /\ entries' = [Kept(k) EXCEPT ![k].count = @ + 1]
      /\ told' = Told(Kept(k))
      /\ now' = now
  BY DEF Counted
<1>2. entries' \in [Keys -> Windows] /\ told' \in [Keys -> Int] /\ now' \in Nat
  <2>1. [Kept(k)[k] EXCEPT !.count = @ + 1] \in Windows
    BY KeptInv DEF Windows
  <2>2. entries' = [Kept(k) EXCEPT ![k] = [Kept(k)[k] EXCEPT !.count = @ + 1]]
    BY <1>1
  <2> QED BY <1>1, <2>1, <2>2, KeptInv DEF Inv
<1>3. ASSUME NEW j \in GoKeys, told'[j] # 0 PROVE Over(j, entries'[j], told'[j])
  <2>1. entries'[j].windowEnd = Kept(k)[j].windowEnd
    BY <1>1, KeptInv, KeysAssumption DEF Windows
  <2> QED BY <2>1, <1>1, <1>3, KeptInv DEF Over
<1> QED BY <1>2, <1>3 DEF Inv, RetrySuffices, Over

LEMMA RefusedInv ==
  ASSUME Inv, NEW k \in Keys, Refused(k) PROVE Inv'
<1> DEFINE e == Kept(k)[k]
           back == now + Second * RetryAfter(k, e)
<1>1. /\ entries' = [Kept(k) EXCEPT ![k].count = @ + 1]
      /\ told' = [Told(Kept(k)) EXCEPT ![k] = back]
      /\ now' = now
      /\ ~Over(k, e, now)
  BY DEF Refused
<1>2. e \in Windows
  BY KeptInv
<1>3. back \in Int
  BY <1>2, HintIsInteger
<1>4. k \in GoKeys => back > e.windowEnd
  <2>1. SUFFICES ASSUME k \in GoKeys PROVE back > e.windowEnd
    OBVIOUS
  <2> HIDE DEF e
  <2>2. e.windowEnd \in Int /\ now \in Int /\ e.windowEnd - now \in Nat
    BY <1>1, <1>2, <2>1 DEF Windows, Inv, Over
  <2>3. /\ (e.windowEnd - now) \div Second + 1 \in Int
        /\ e.windowEnd - now < Second * ((e.windowEnd - now) \div Second + 1)
    BY <2>2, RoundedUp, TimeAssumption
  <2>4. RetryAfter(k, e) = (e.windowEnd - now) \div Second + 1
    BY <2>1 DEF RetryAfter
  <2>5. Second * RetryAfter(k, e) \in Int
    BY <2>3, <2>4, TimeAssumption
  <2> QED BY <2>2, <2>3, <2>4, <2>5
<1> HIDE DEF back
<1>5. entries' \in [Keys -> Windows] /\ told' \in [Keys -> Int] /\ now' \in Nat
  BY <1>1, <1>3, KeptInv DEF Inv, Windows
<1>6. ASSUME NEW j \in GoKeys, told'[j] # 0 PROVE Over(j, entries'[j], told'[j])
  <2>1. entries'[j].windowEnd = Kept(k)[j].windowEnd
    BY <1>1, KeptInv, KeysAssumption DEF Windows
  <2>2. CASE j = k
    BY <2>1, <2>2, <1>1, <1>4, KeptInv DEF Over
  <2>3. CASE j # k
    BY <2>1, <2>3, <1>1, <1>6, KeptInv, KeysAssumption DEF Over
  <2> QED BY <2>2, <2>3
<1> QED BY <1>5, <1>6 DEF Inv, RetrySuffices, Over

LEMMA CleanupInv == ASSUME Inv, Cleanup PROVE Inv'
<1> DEFINE S == Evicted \cap GoKeys
<1>1. S \in SUBSET Keys
  BY DEF Evicted, Known
<1>2. entries' = Without(S) /\ told' = Told(Without(S)) /\ now' = now
  BY DEF Cleanup
<1> HIDE DEF S
<1> QED BY <1>1, <1>2, WithoutInv DEF Inv, RetrySuffices, Over

LEMMA NextInv == Inv /\ [Next]_vars => Inv'
<1> SUFFICES ASSUME Inv, [Next]_vars PROVE Inv'
  OBVIOUS
<1>1. ASSUME NEW k \in Keys, NewWindow(k) PROVE Inv'
  BY <1>1, NewWindowInv
<1>2. ASSUME NEW k \in Keys, Counted(k) PROVE Inv'
  BY <1>2, CountedInv
<1>3. ASSUME NEW k \in Keys, Refused(k) PROVE Inv'
  BY <1>3, RefusedInv
<1>4. CASE Cleanup
  BY <1>4, CleanupInv
<1>5. CASE TimePasses \/ UNCHANGED vars
  BY <1>5 DEF Inv, TimePasses, vars, RetrySuffices, Over
<1> QED BY <1>1, <1>2, <1>3, <1>4, <1>5 DEF Next

(* The retryAfter of a 429 answer of the Go backend is long enough. *)
THEOREM GoRetrySuffices == Spec => []RetrySuffices
<1>1. Spec => []Inv
  BY InitInv, NextInv, PTL DEF Spec
<1>2. Inv => RetrySuffices
  BY DEF Inv
<1> QED BY <1>1, <1>2, PTL

-----------------------------------------------------------------------------
(***************************************************************************)
(* LessThanTwice, key by key.  f is what passed of a key and when, e its   *)
(* window, n the time.  Length is how far a span reaches beyond its first  *)
(* instant: a window that starts at t is over after t + Length(k) in both  *)
(* backends.                                                               *)
(***************************************************************************)
Passed(f, first, last) == Sum(f, Times \cap first..last)
Length(k) == IF k \in GoKeys THEN Window ELSE Window - 1
Start(e)  == e.windowEnd - Window

(* No window is open: nothing has passed at this instant, and less than the *)
(* limit in any span that reaches it.                                       *)
Quiet(k, f, n) ==
  \A t \in Times : /\ t >= n => f[t] = 0
                   /\ t + Length(k) >= n => Passed(f, t, MaxTime) <= Limit - 1

(* A window has let pass what it counted, its first request included, and  *)
(* the spans that reach into it had less than the limit before it started. *)
Limited(k, f, e, n) ==
  LET s == Start(e) IN
  /\ s \in 0..n
  /\ f[s] >= 1
  /\ Passed(f, s, s + Length(k)) <= e.count
  /\ Passed(f, s, s + Length(k)) <= Limit
  /\ \A t \in Times : t > s + Length(k) => f[t] = 0
  /\ \A t \in Times : t < s /\ t + Length(k) >= s => Passed(f, t, s - 1) <= Limit - 1

KeyOK(k, f, e, n) ==
  /\ \A t \in Times : t > n => f[t] = 0
  /\ IF e = None THEN Quiet(k, f, n) ELSE Limited(k, f, e, n)
  /\ \A t \in Times : Passed(f, t, t + Length(k)) <= 2 * Limit - 1

SpanInv ==
  /\ now \in Times
  /\ entries \in [Keys -> Windows]
  /\ allowed \in [Keys -> [Times -> Nat]]
  /\ \A k \in Keys : KeyOK(k, allowed[k], entries[k], now)

LEMMA TimesFinite ==
  /\ IsFiniteSet(Times) /\ Times \subseteq Nat /\ MaxTime \in Nat
  /\ Limit \in Nat \ {0} /\ \A k : Length(k) \in Nat
<1>1. IsFiniteSet(Times)
  BY FS_Interval, TimeAssumption DEF Times
<1> QED BY <1>1, TimeAssumption, LimitAssumption DEF Times, Length

LEMMA OverIsLater ==
  ASSUME NEW k \in Keys, NEW e \in Windows, NEW n \in Times
  PROVE  Over(k, e, n) <=> n > Start(e) + Length(k)
BY TimesFinite, TimeAssumption DEF Over, Start, Length, Windows

LEMMA PassedNat ==
  ASSUME NEW f \in [Times -> Nat], NEW a, NEW b
  PROVE  Passed(f, a, b) \in Nat
BY TimesFinite, SumNat DEF Passed

LEMMA TakeOut ==
  ASSUME NEW f \in [Times -> Nat], NEW A \in SUBSET Times, NEW t \in A
  PROVE  Sum(f, A) = f[t] + Sum(f, A \ {t})
<1>1. IsFiniteSet(Times)
  BY TimesFinite
<1> QED BY <1>1, SumRemove

(* A span that counts, where anything passed, what the other counts. *)
LEMMA PassedAtMost ==
  ASSUME NEW f \in [Times -> Nat], NEW g \in [Times -> Nat],
         NEW a, NEW b, NEW c, NEW d,
         \A t \in Times \cap a..b : f[t] # 0 => t \in c..d /\ f[t] <= g[t]
  PROVE  Passed(f, a, b) <= Passed(g, c, d)
<1>1. Times \cap a..b \in SUBSET Times /\ Times \cap c..d \in SUBSET Times
  OBVIOUS
<1>2. \A t \in Times \cap a..b : f[t] # 0 => t \in Times \cap c..d /\ f[t] <= g[t]
  OBVIOUS
<1> QED BY <1>1, <1>2, TimesFinite, SumAtMost DEF Passed

(* One request more adds one to the spans it falls into. *)
More(f, n) == [f EXCEPT ![n] = @ + 1]

LEMMA PassedMore ==
  ASSUME NEW f \in [Times -> Nat], NEW n \in Times, NEW a, NEW b
  PROVE  /\ More(f, n) \in [Times -> Nat]
         /\ Passed(More(f, n), a, b) <= Passed(f, a, b) + 1
         /\ n \notin a..b => Passed(More(f, n), a, b) <= Passed(f, a, b)
<1> DEFINE g == More(f, n)
           A == Times \cap a..b
<1>1. g \in [Times -> Nat] /\ g[n] = f[n] + 1 /\ \A t \in Times : t # n => g[t] = f[t]
  BY DEF More
<1> HIDE DEF g, A
<1>5. A \in SUBSET Times
  BY DEF A
<1>2. n \notin a..b => Passed(g, a, b) <= Passed(f, a, b)
  BY <1>1, PassedAtMost
<1>3. CASE n \in A
  <2>1. /\ Sum(g, A) = g[n] + Sum(g, A \ {n})
        /\ Sum(f, A) = f[n] + Sum(f, A \ {n})
    BY <1>5, <1>1, <1>3, TakeOut
  <2>2. Sum(g, A \ {n}) <= Sum(f, A \ {n})
    <3>1. A \ {n} \in SUBSET Times
      BY <1>5
    <3>2. \A x \in A \ {n} : g[x] # 0 => x \in A \ {n} /\ g[x] <= f[x]
      BY <1>5, <1>1
    <3> QED BY <1>1, <3>1, <3>2, TimesFinite, SumAtMost
  <2>3. /\ Sum(g, A \ {n}) \in Nat /\ Sum(f, A \ {n}) \in Nat
        /\ f[n] \in Nat
    BY <1>5, <1>1, TimesFinite, SumNat
  <2>4. Sum(g, A) <= Sum(f, A) + 1
    BY <1>1, <2>1, <2>2, <2>3
  <2> QED BY <1>1, <1>2, <2>4 DEF Passed, g, A
<1>4. CASE n \notin A
  BY <1>1, <1>2, <1>4, PassedNat DEF g, A
<1> QED BY <1>3, <1>4

LEMMA PassedSplit ==
  ASSUME NEW f \in [Times -> Nat], NEW a \in Int, NEW b \in Int, NEW s \in Int,
         a <= s, s <= b
  PROVE  Passed(f, a, b) <= Passed(f, a, s - 1) + Passed(f, s, b)
<1>1. Times \cap a..b = (Times \cap a..(s - 1)) \cup (Times \cap s..b)
  BY TimesFinite
<1> QED BY <1>1, TimesFinite, SumUnion DEF Passed

-----------------------------------------------------------------------------
(* A window that is over leaves its key quiet: its first request lies      *)
(* before every span that reaches now.                                     *)
LEMMA OverIsQuiet ==
  ASSUME NEW k \in Keys, NEW f \in [Times -> Nat], NEW e \in Windows, NEW n \in Times,
         KeyOK(k, f, e, n), e = None \/ Over(k, e, n)
  PROVE  Quiet(k, f, n) /\ KeyOK(k, f, None, n)
<1>1. CASE e = None
  BY <1>1 DEF KeyOK
<1>2. CASE e # None
  <2> DEFINE s == Start(e)
             len == Length(k)
             A == Times \cap s..(s + len)
  <2>1. Limited(k, f, e, n) /\ n > s + len
    BY <1>2, OverIsLater DEF KeyOK
  <2>2. s \in Nat /\ s \in Times /\ len \in Nat /\ n \in Nat /\ Limit \in Nat
    BY <2>1, TimesFinite DEF Limited, Times
  <2> HIDE DEF s, len
  <2>3. ASSUME NEW t \in Times, t >= n PROVE f[t] = 0
    BY <2>1, <2>2, <2>3, TimesFinite DEF Limited, s, len
  <2>4. ASSUME NEW t \in Times, t + len >= n PROVE Passed(f, t, MaxTime) <= Limit - 1
    <3>1. t \in Nat /\ t > s
      BY <2>1, <2>2, <2>4, TimesFinite
    <3>2. \A x \in Times \cap t..MaxTime : f[x] # 0 => x \in A \ {s} /\ f[x] <= f[x]
      BY <2>1, <2>2, <3>1, TimesFinite DEF Limited, s, len
    <3>3. Passed(f, t, MaxTime) <= Sum(f, A \ {s})
      <4> HIDE DEF A
      <4>1. A \ {s} \in SUBSET Times /\ Times \cap t..MaxTime \in SUBSET Times
        BY DEF A
      <4> QED BY <3>2, <4>1, TimesFinite, SumAtMost DEF Passed
    <3>4. s \in A /\ A \in SUBSET Times
      BY <2>2
    <3>5. Sum(f, A) = f[s] + Sum(f, A \ {s})
      <4> HIDE DEF A
      <4> QED BY <3>4, TakeOut
    <3>6. Sum(f, A) <= Limit /\ f[s] >= 1
      BY <2>1 DEF Limited, Passed, s, len
    <3>7. /\ Sum(f, A) \in Nat /\ Sum(f, A \ {s}) \in Nat /\ f[s] \in Nat
          /\ Passed(f, t, MaxTime) \in Nat
      BY <2>2, <3>4, TimesFinite, SumNat, PassedNat
    <3> QED BY <2>2, <3>3, <3>5, <3>6, <3>7
  <2>5. Quiet(k, f, n)
    BY <2>3, <2>4 DEF Quiet, len
  <2> QED BY <2>5 DEF KeyOK
<1> QED BY <1>1, <1>2

(* The first request of a window: the spans that reach it were quiet. *)
LEMMA FirstRequest ==
  ASSUME NEW k \in Keys, NEW f \in [Times -> Nat], NEW e, NEW n \in Times,
         KeyOK(k, f, e, n), Quiet(k, f, n)
  PROVE  KeyOK(k, More(f, n), [count |-> 1, windowEnd |-> n + Window], n)
<1> DEFINE g == More(f, n)
           w == [count |-> 1, windowEnd |-> n + Window]
           len == Length(k)
<1>1. g \in [Times -> Nat] /\ g[n] = f[n] + 1 /\ \A t \in Times : t # n => g[t] = f[t]
  BY DEF More
<1>2. /\ n \in Nat /\ len \in Nat /\ Limit \in Nat \ {0} /\ MaxTime \in Nat
      /\ Times \subseteq Nat /\ \A t \in Times : t <= MaxTime
  BY TimesFinite DEF Times
<1>3. Start(w) = n /\ w # None /\ w.count = 1
  BY <1>2, TimeAssumption DEF Start, None
<1>4. \A t \in Times : t > n => g[t] = 0
  BY <1>1, <1>2 DEF KeyOK
<1>5. f[n] \in Nat /\ g[n] >= 1
  BY <1>1
<1> HIDE DEF g, w, len
<1>6. Passed(g, n, n + len) <= 1
  <2>1. Passed(f, n, n + len) <= Passed(f, 1, 0)
    <3>1. \A t \in Times \cap n..(n + len) : f[t] = 0
      BY <1>2 DEF Quiet
    <3> QED BY <3>1, PassedAtMost
  <2>2. Passed(f, 1, 0) = 0
    <3>1. Times \cap 1..0 = {}
      OBVIOUS
    <3> QED BY <3>1, SumEmpty DEF Passed
  <2>3. Passed(g, n, n + len) <= Passed(f, n, n + len) + 1
    BY PassedMore DEF g
  <2> QED BY <1>1, <2>1, <2>2, <2>3, PassedNat
<1>7. ASSUME NEW t \in Times, t < n, t + len >= n PROVE Passed(g, t, n - 1) <= Limit - 1
  <2>1. Passed(g, t, n - 1) <= Passed(f, t, MaxTime)
    BY <1>1, <1>2, PassedAtMost
  <2>2. Passed(f, t, MaxTime) <= Limit - 1
    BY <1>7 DEF Quiet, len
  <2> QED BY <1>1, <1>2, <2>1, <2>2, PassedNat
<1>8. ASSUME NEW t \in Times PROVE Passed(g, t, t + len) <= 2 * Limit - 1
  <2>1. /\ Passed(g, t, t + len) \in Nat /\ Passed(f, t, t + len) \in Nat
        /\ Passed(f, t, MaxTime) \in Nat
    BY <1>1, PassedNat
  <2>2. CASE n \notin t..(t + len)
    <3>1. Passed(g, t, t + len) <= Passed(f, t, t + len)
      BY <2>2, PassedMore DEF g
    <3>2. Passed(f, t, t + len) <= 2 * Limit - 1
      BY DEF KeyOK, len
    <3> QED BY <1>2, <2>1, <3>1, <3>2
  <2>3. CASE n \in t..(t + len)
    <3>1. Passed(g, t, t + len) <= Passed(f, t, t + len) + 1
      BY PassedMore DEF g
    <3>2. Passed(f, t, t + len) <= Passed(f, t, MaxTime)
      BY <1>2, PassedAtMost
    <3>3. Passed(f, t, MaxTime) <= Limit - 1
      BY <1>2, <2>3 DEF Quiet, len
    <3> QED BY <1>2, <2>1, <3>1, <3>2, <3>3
  <2> QED BY <2>2, <2>3
<1>9. Limited(k, g, w, n)
  <2>1. n \in 0..n /\ Passed(g, n, n + len) <= Limit
    BY <1>1, <1>2, <1>6, PassedNat
  <2>2. \A t \in Times : t > n + len => g[t] = 0
    BY <1>2, <1>4
  <2> QED BY <1>3, <1>5, <1>6, <1>7, <2>1, <2>2 DEF Limited, len
<1> QED BY <1>3, <1>4, <1>8, <1>9 DEF KeyOK, g, w, len

(* A request the window counts: a span that began before the window adds *)
(* what it had by then to at most the limit.                             *)
LEMMA FurtherRequest ==
  ASSUME NEW k \in Keys, NEW f \in [Times -> Nat], NEW e \in Windows, NEW n \in Times,
         KeyOK(k, f, e, n), e # None, ~Over(k, e, n), e.count < Limit,
         NEW w \in Windows, w.count = e.count + 1, w.windowEnd = e.windowEnd, w # None
  PROVE  KeyOK(k, More(f, n), w, n)
<1> DEFINE g == More(f, n)
           s == Start(e)
           len == Length(k)
<1>1. g \in [Times -> Nat] /\ g[n] = f[n] + 1 /\ \A t \in Times : t # n => g[t] = f[t]
  BY DEF More
<1>2. /\ n \in Nat /\ len \in Nat /\ Limit \in Nat \ {0} /\ MaxTime \in Nat
      /\ Times \subseteq Nat
  BY TimesFinite
<1>3. Limited(k, f, e, n) /\ n <= s + len /\ Start(w) = s
  <2>1. s \in Int
    BY TimeAssumption DEF Start, Windows
  <2> QED BY <1>2, <2>1, OverIsLater DEF KeyOK, Start
<1>4. s \in 0..n /\ s \in Nat /\ s \in Times /\ s <= n
  BY <1>2, <1>3 DEF Limited, Times
<1> HIDE DEF g, s, len
<1>5. \A t \in Times : t > n => g[t] = 0
  BY <1>1, <1>2 DEF KeyOK
<1>6. g[s] >= 1
  <2>1. f[s] >= 1 /\ f[s] \in Nat
    BY <1>3, <1>4 DEF Limited, s
  <2> QED BY <1>1, <1>4, <2>1
<1>7. Passed(g, s, s + len) <= w.count /\ Passed(g, s, s + len) <= Limit
  <2>1. Passed(g, s, s + len) <= Passed(f, s, s + len) + 1
    BY PassedMore DEF g
  <2>2. Passed(f, s, s + len) <= e.count
    BY <1>3 DEF Limited, s, len
  <2>3. e.count \in Nat /\ w.count = e.count + 1 /\ e.count < Limit
    BY DEF Windows
  <2>4. Passed(g, s, s + len) \in Nat /\ Passed(f, s, s + len) \in Nat
    BY <1>1, PassedNat
  <2> QED BY <1>2, <2>1, <2>2, <2>3, <2>4
<1>8. ASSUME NEW t \in Times, t < s, t + len >= s PROVE Passed(g, t, s - 1) <= Limit - 1
  <2>1. n \notin t..(s - 1)
    BY <1>2, <1>4
  <2>2. Passed(g, t, s - 1) <= Passed(f, t, s - 1)
    BY <2>1, PassedMore DEF g
  <2>3. Passed(f, t, s - 1) <= Limit - 1
    BY <1>3, <1>8 DEF Limited, s, len
  <2>4. Passed(g, t, s - 1) \in Nat /\ Passed(f, t, s - 1) \in Nat
    BY <1>1, PassedNat
  <2> QED BY <1>2, <2>2, <2>3, <2>4
<1>9. \A t \in Times : t > s + len => g[t] = 0
  BY <1>2, <1>3, <1>4, <1>5
<1>10. ASSUME NEW t \in Times PROVE Passed(g, t, t + len) <= 2 * Limit - 1
  <2>1. /\ Passed(g, t, t + len) \in Nat /\ Passed(f, t, t + len) \in Nat
        /\ Passed(g, s, s + len) \in Nat /\ Passed(g, t, s - 1) \in Nat
        /\ Passed(g, s, t + len) \in Nat /\ t \in Nat
    BY <1>1, <1>2, PassedNat
  <2>2. CASE n \notin t..(t + len)
    <3>1. Passed(g, t, t + len) <= Passed(f, t, t + len)
      BY <2>2, PassedMore DEF g
    <3>2. Passed(f, t, t + len) <= 2 * Limit - 1
      BY DEF KeyOK, len
    <3> QED BY <1>2, <2>1, <3>1, <3>2
  <2>3. CASE n \in t..(t + len) /\ t >= s
    <3>1. ASSUME NEW x \in Times \cap t..(t + len), g[x] # 0
          PROVE  x \in s..(s + len) /\ g[x] <= g[x]
      <4>1. x \in Nat /\ g[x] \in Nat /\ x >= t /\ ~(x > s + len)
        BY <1>1, <1>2, <1>9, <2>1, <3>1
      <4> QED BY <1>2, <1>4, <2>1, <2>3, <4>1
    <3>2. Passed(g, t, t + len) <= Passed(g, s, s + len)
      BY <1>1, <3>1, PassedAtMost
    <3> QED BY <1>2, <1>7, <2>1, <3>2
  <2>4. CASE n \in t..(t + len) /\ t < s
    <3>1. t + len >= s /\ t + len < s + len
      BY <1>2, <1>4, <2>1, <2>4
    <3>2. Passed(g, t, t + len) <= Passed(g, t, s - 1) + Passed(g, s, t + len)
      <4>1. t \in Int /\ t + len \in Int /\ s \in Int /\ t <= s /\ s <= t + len
        BY <1>2, <1>4, <2>1, <2>4, <3>1
      <4> QED BY <1>1, <4>1, PassedSplit
    <3>3. Passed(g, s, t + len) <= Passed(g, s, s + len)
      <4>1. \A x \in Times \cap s..(t + len) : g[x] # 0 => x \in s..(s + len) /\ g[x] <= g[x]
        <5> SUFFICES ASSUME NEW x \in Times \cap s..(t + len)
                     PROVE  x \in s..(s + len) /\ g[x] <= g[x]
          OBVIOUS
        <5>1. x \in Nat /\ g[x] \in Nat /\ x >= s /\ x <= t + len
          BY <1>1, <1>2, <1>4, <2>1
        <5> QED BY <1>2, <1>4, <2>1, <3>1, <5>1
      <4> QED BY <1>1, <4>1, PassedAtMost
    <3>4. Passed(g, t, s - 1) <= Limit - 1
      BY <1>8, <2>4, <3>1
    <3> QED BY <1>2, <1>7, <2>1, <3>2, <3>3, <3>4
  <2> QED BY <1>2, <1>4, <2>1, <2>2, <2>3, <2>4
<1>11. Limited(k, g, w, n)
  BY <1>3, <1>4, <1>6, <1>7, <1>8, <1>9 DEF Limited, len
<1> QED BY <1>5, <1>10, <1>11 DEF KeyOK, g, len

(* A refusal and the time that passes let nothing pass. *)
LEMMA NothingPasses ==
  ASSUME NEW k \in Keys, NEW f \in [Times -> Nat], NEW e \in Windows, NEW n \in Times,
         KeyOK(k, f, e, n)
  PROVE  /\ n + 1 \in Times => KeyOK(k, f, e, n + 1)
         /\ \A w \in Windows : /\ e # None /\ w # None
                               /\ w.count = e.count + 1 /\ w.windowEnd = e.windowEnd
                               => KeyOK(k, f, w, n)
<1>1. n \in Nat /\ Times \subseteq Nat /\ Length(k) \in Nat
  BY TimesFinite
<1>2. ASSUME n + 1 \in Times PROVE KeyOK(k, f, e, n + 1)
  <2>1. CASE e = None
    BY <1>1, <2>1 DEF KeyOK, Quiet
  <2>2. CASE e # None
    BY <1>1, <2>2 DEF KeyOK, Limited
  <2> QED BY <2>1, <2>2
<1>3. ASSUME NEW w \in Windows, e # None, w # None,
             w.count = e.count + 1, w.windowEnd = e.windowEnd
      PROVE  KeyOK(k, f, w, n)
  <2>1. Limited(k, f, e, n) /\ Start(w) = Start(e)
    BY <1>3 DEF KeyOK, Start
  <2>2. Passed(f, Start(e), Start(e) + Length(k)) <= w.count
    <3>1. e.count \in Nat /\ w.count = e.count + 1
      BY <1>3 DEF Windows
    <3> QED BY <2>1, <3>1, PassedNat DEF Limited
  <2>3. Limited(k, f, w, n)
    BY <2>1, <2>2 DEF Limited
  <2> QED BY <1>3, <2>3 DEF KeyOK
<1> QED BY <1>2, <1>3

-----------------------------------------------------------------------------
LEMMA NoneIsWindow == None \in Windows /\ None.count = 0
BY DEF None, Windows

LEMMA InitSpans == ASSUME Init PROVE SpanInv
<1> DEFINE f == [t \in Times |-> 0]
<1>1. now \in Times /\ entries \in [Keys -> Windows] /\ allowed \in [Keys -> [Times -> Nat]]
  BY NoneIsWindow, TimeAssumption DEF Init, Times
<1>2. ASSUME NEW k \in Keys PROVE allowed[k] = f /\ entries[k] = None /\ now = 0
  BY DEF Init
<1>3. f \in [Times -> Nat] /\ \A t \in Times : f[t] = 0
  OBVIOUS
<1> HIDE DEF f
<1>4. ASSUME NEW a, NEW b PROVE Passed(f, a, b) = 0
  <2>1. Passed(f, a, b) <= Passed(f, 1, 0)
    BY <1>3, PassedAtMost
  <2>2. Times \cap 1..0 = {}
    OBVIOUS
  <2>3. Passed(f, 1, 0) = 0
    BY <2>2, SumEmpty DEF Passed
  <2> QED BY <1>3, <2>1, <2>3, PassedNat
<1>5. ASSUME NEW k \in Keys PROVE KeyOK(k, f, None, 0)
  BY <1>3, <1>4, TimesFinite DEF KeyOK, Quiet
<1> QED BY <1>1, <1>2, <1>5 DEF SpanInv

(* Evictions and cleanups take windows that are over, nothing else. *)
LEMMA WithoutSpans ==
  ASSUME SpanInv, NEW S, S \subseteq Evicted, NEW k \in Keys
  PROVE  /\ Without(S) \in [Keys -> Windows]
         /\ KeyOK(k, allowed[k], Without(S)[k], now)
<1>1. Without(S) \in [Keys -> Windows]
  BY NoneIsWindow DEF Without, SpanInv
<1>2. CASE k \in S
  <2>1. Without(S)[k] = None /\ Over(k, entries[k], now)
    BY <1>2 DEF Without, Evicted
  <2> QED BY <1>1, <2>1, OverIsQuiet DEF SpanInv
<1>3. CASE k \notin S
  BY <1>1, <1>3 DEF Without, SpanInv
<1> QED BY <1>1, <1>2, <1>3

LEMMA KeptSpans ==
  ASSUME SpanInv, NEW k \in Keys
  PROVE  /\ Kept(k) \in [Keys -> Windows]
         /\ \A j \in Keys : KeyOK(j, allowed[j], Kept(k)[j], now)
<1>1. CASE Kept(k) = Without(Evicted \ GoKeys)
  BY <1>1, WithoutSpans
<1>2. CASE Kept(k) = entries
  BY <1>2 DEF SpanInv
<1> QED BY <1>1, <1>2 DEF Kept

(* Counting a request, passed or refused, adds one to the window's count. *)
Bump(es, k) == [es EXCEPT ![k].count = @ + 1]

LEMMA OneMore ==
  ASSUME NEW es \in [Keys -> Windows], NEW k \in Keys, es[k] # None,
         NEW next, next = Bump(es, k)
  PROVE  /\ next \in [Keys -> Windows]
         /\ \A j \in Keys : j # k => next[j] = es[j]
         /\ next[k].count = es[k].count + 1 /\ next[k].windowEnd = es[k].windowEnd
         /\ next[k] # None
<1> DEFINE w == [es[k] EXCEPT !.count = @ + 1]
<1>1. w \in Windows /\ w.count = es[k].count + 1 /\ w.windowEnd = es[k].windowEnd
  BY DEF Windows
<1>2. next = [es EXCEPT ![k] = w]
  BY DEF Bump
<1> HIDE DEF w
<1>3. w # None
  BY <1>1, NoneIsWindow DEF Windows
<1> QED BY <1>1, <1>2, <1>3

LEMMA NewWindowSpans ==
  ASSUME SpanInv, NEW k \in Keys, NewWindow(k) PROVE SpanInv'
<1> DEFINE w == [count |-> 1, windowEnd |-> now + Window]
<1>1. /\ entries' = [Kept(k) EXCEPT ![k] = w]
      /\ allowed' = [allowed EXCEPT ![k] = More(allowed[k], now)]
      /\ now' = now
      /\ Kept(k)[k] = None \/ Over(k, Kept(k)[k], now)
  BY DEF NewWindow, Pass, More
<1>2. w \in Windows /\ now \in Times
  BY TimesFinite, TimeAssumption DEF SpanInv, Windows
<1>3. /\ Kept(k) \in [Keys -> Windows] /\ allowed[k] \in [Times -> Nat]
      /\ KeyOK(k, allowed[k], Kept(k)[k], now)
  BY KeptSpans DEF SpanInv
<1>4. KeyOK(k, More(allowed[k], now), w, now)
  BY <1>1, <1>2, <1>3, OverIsQuiet, FirstRequest
<1>5. More(allowed[k], now) \in [Times -> Nat]
  BY <1>2, <1>3, PassedMore
<1> HIDE DEF w
<1>6. /\ entries' \in [Keys -> Windows] /\ allowed' \in [Keys -> [Times -> Nat]]
      /\ entries'[k] = w /\ allowed'[k] = More(allowed[k], now)
      /\ \A j \in Keys : j # k => entries'[j] = Kept(k)[j] /\ allowed'[j] = allowed[j]
  BY <1>1, <1>2, <1>3, <1>5 DEF SpanInv
<1>7. ASSUME NEW j \in Keys PROVE KeyOK(j, allowed'[j], entries'[j], now)
  <2>1. CASE j = k
    BY <1>4, <1>6, <2>1
  <2>2. CASE j # k
    BY <1>6, <2>2, KeptSpans
  <2> QED BY <2>1, <2>2
<1> QED BY <1>1, <1>2, <1>6, <1>7 DEF SpanInv

LEMMA CountedSpans ==
  ASSUME SpanInv, NEW k \in Keys, Counted(k) PROVE SpanInv'
<1> DEFINE e == Kept(k)[k]
           es == Kept(k)
<1>1. /\ entries' = Bump(es, k)
      /\ allowed' = [allowed EXCEPT ![k] = More(allowed[k], now)]
      /\ now' = now
      /\ e # None /\ ~Over(k, e, now) /\ e.count < Limit
  BY DEF Counted, Pass, More, Bump
<1>2. /\ es \in [Keys -> Windows] /\ allowed[k] \in [Times -> Nat] /\ now \in Times
      /\ KeyOK(k, allowed[k], e, now) /\ e \in Windows
  BY KeptSpans DEF SpanInv
<1>3. /\ entries' \in [Keys -> Windows]
      /\ \A j \in Keys : j # k => entries'[j] = es[j]
      /\ entries'[k].count = e.count + 1 /\ entries'[k].windowEnd = e.windowEnd
      /\ entries'[k] # None
  <2> HIDE DEF es
  <2>1. es[k] = e
    BY DEF es
  <2> QED BY <1>1, <1>2, <2>1, OneMore
<1>4. KeyOK(k, More(allowed[k], now), entries'[k], now)
  <2> HIDE DEF e, es
  <2>1. entries'[k] \in Windows
    BY <1>3
  <2> QED BY <1>1, <1>2, <1>3, <2>1, FurtherRequest
<1>5. More(allowed[k], now) \in [Times -> Nat]
  BY <1>2, PassedMore
<1>6. /\ allowed' \in [Keys -> [Times -> Nat]] /\ allowed'[k] = More(allowed[k], now)
      /\ \A j \in Keys : j # k => allowed'[j] = allowed[j]
  BY <1>1, <1>5 DEF SpanInv
<1>7. ASSUME NEW j \in Keys PROVE KeyOK(j, allowed'[j], entries'[j], now)
  <2>1. CASE j = k
    BY <1>4, <1>6, <2>1
  <2>2. CASE j # k
    BY <1>3, <1>6, <2>2, KeptSpans
  <2> QED BY <2>1, <2>2
<1> QED BY <1>1, <1>2, <1>3, <1>6, <1>7 DEF SpanInv

LEMMA RefusedSpans ==
  ASSUME SpanInv, NEW k \in Keys, Refused(k) PROVE SpanInv'
<1> DEFINE es == Kept(k)
<1>1. /\ entries' = Bump(es, k)
      /\ allowed' = allowed /\ now' = now /\ es[k] # None
  BY DEF Refused, Bump
<1>2. /\ es \in [Keys -> Windows] /\ allowed[k] \in [Times -> Nat] /\ now \in Times
      /\ KeyOK(k, allowed[k], es[k], now) /\ es[k] \in Windows
      /\ \A j \in Keys : KeyOK(j, allowed[j], es[j], now)
  BY KeptSpans DEF SpanInv
<1> HIDE DEF es
<1>3. /\ entries' \in [Keys -> Windows]
      /\ \A j \in Keys : j # k => entries'[j] = es[j]
      /\ entries'[k].count = es[k].count + 1 /\ entries'[k].windowEnd = es[k].windowEnd
      /\ entries'[k] # None
  BY <1>1, <1>2, OneMore
<1>4. KeyOK(k, allowed[k], entries'[k], now)
  <2>1. entries'[k] \in Windows
    BY <1>3
  <2> QED BY <1>1, <1>2, <1>3, <2>1, NothingPasses
<1> QED BY <1>1, <1>2, <1>3, <1>4 DEF SpanInv

LEMMA NextSpans == SpanInv /\ [Next]_vars => SpanInv'
<1> SUFFICES ASSUME SpanInv, [Next]_vars PROVE SpanInv'
  OBVIOUS
<1>1. ASSUME NEW k \in Keys, NewWindow(k) PROVE SpanInv'
  BY <1>1, NewWindowSpans
<1>2. ASSUME NEW k \in Keys, Counted(k) PROVE SpanInv'
  BY <1>2, CountedSpans
<1>3. ASSUME NEW k \in Keys, Refused(k) PROVE SpanInv'
  BY <1>3, RefusedSpans
<1>4. CASE Cleanup
  <2> DEFINE S == Evicted \cap GoKeys
  <2>1. entries' = Without(S) /\ allowed' = allowed /\ now' = now /\ S \subseteq Evicted
    BY <1>4 DEF Cleanup
  <2> HIDE DEF S
  <2>2. \A k \in Keys : KeyOK(k, allowed[k], Without(S)[k], now)
    BY <2>1, WithoutSpans
  <2>3. Without(S) \in [Keys -> Windows]
    BY NoneIsWindow DEF Without, SpanInv
  <2> QED BY <2>1, <2>2, <2>3 DEF SpanInv
<1>5. CASE TimePasses
  <2>1. /\ now' = now + 1 /\ now + 1 \in Times
        /\ entries' = entries /\ allowed' = allowed
    BY <1>5, TimeAssumption DEF TimePasses, SpanInv, Times
  <2>2. ASSUME NEW k \in Keys PROVE KeyOK(k, allowed[k], entries[k], now + 1)
    <3>1. /\ allowed[k] \in [Times -> Nat] /\ entries[k] \in Windows /\ now \in Times
          /\ KeyOK(k, allowed[k], entries[k], now)
      BY DEF SpanInv
    <3> QED BY <2>1, <3>1, NothingPasses
  <2> QED BY <2>1, <2>2 DEF SpanInv
<1>6. CASE UNCHANGED vars
  BY <1>6 DEF SpanInv, vars
<1> QED BY <1>1, <1>2, <1>3, <1>4, <1>5, <1>6 DEF Next

(***************************************************************************)
(* No client gets twice the limit through in a span of one window's        *)
(* length, whatever the limit and the window, however its requests fall on *)
(* windows, cleanups and evictions.                                        *)
(***************************************************************************)
THEOREM SpansAreLimited == Spec => []LessThanTwice
<1>1. Spec => []SpanInv
  BY InitSpans, NextSpans, PTL DEF Spec
<1>2. SpanInv => LessThanTwice
  <2> SUFFICES ASSUME SpanInv, NEW k \in Keys, NEW t \in Times
               PROVE  PassedIn(k, t, SpanEnd(k, t)) <= 2 * Limit - 1
    BY DEF LessThanTwice
  <2>1. SpanEnd(k, t) = t + Length(k)
    BY TimesFinite, TimeAssumption DEF SpanEnd, Length
  <2>2. PassedIn(k, t, SpanEnd(k, t)) = Passed(allowed[k], t, SpanEnd(k, t))
    BY Zenon DEF PassedIn, Passed, Sum, MapThenSumSet, MapThenFoldSet
  <2>3. Passed(allowed[k], t, t + Length(k)) <= 2 * Limit - 1
    BY DEF SpanInv, KeyOK
  <2> QED BY <2>1, <2>2, <2>3
<1> QED BY <1>1, <1>2, PTL
-----------------------------------------------------------------------------
(***************************************************************************)
(* The types, with the bounds of counts and windows.                       *)
(***************************************************************************)
Entry == [count : 1..(Limit + MaxRefused), windowEnd : Window..(MaxTime + Window)] \cup {None}

(* A hint stands only beside a window that has refused. *)
HintsBeside(es, ts) == \A k \in Keys : ts[k] # 0 => es[k].count > Limit

(* Known limits and what a window of a key looks like. *)
LEMMA EntryFields ==
  ASSUME NEW e \in Entry
  PROVE  /\ Limit \in Nat \ {0} /\ MaxRefused \in Nat /\ MaxTime \in Nat
         /\ Window \in Nat \ {0} /\ Second \in Nat \ {0}
         /\ e # None => /\ e.count \in 1..(Limit + MaxRefused)
                        /\ e.windowEnd \in Window..(MaxTime + Window)
                        /\ e = [count |-> e.count, windowEnd |-> e.windowEnd]
         /\ None.count = 0
  BY LimitAssumption, TimeAssumption, BoundsAssumption DEF Entry, None

(* A hint is never of the past. *)
LEMMA HintIsNatural ==
  ASSUME NEW k \in Keys, NEW e \in Entry, e # None, NEW t \in Nat, now = t, ~Over(k, e, t)
  PROVE  now + Second * RetryAfter(k, e) \in Nat
<1>1. /\ Second \in Nat \ {0} /\ e.windowEnd \in Nat /\ e.windowEnd - now \in Nat
      /\ now \in Nat
  BY EntryFields DEF Over
<1>2. (e.windowEnd - now) \div Second \in Nat
  BY <1>1
<1>3. e.windowEnd \div Second \in Int /\ now \div Second \in Int
  BY <1>1
<1>4. RetryAfter(k, e) \in Nat
  BY <1>2, <1>3 DEF RetryAfter, LargerOf
<1> QED BY <1>1, <1>4

(* What is kept of the windows and their hints on the way into a check. *)
LEMMA KeptTypes ==
  ASSUME TypeOK, NEW S \in SUBSET Keys
  PROVE  /\ Without(S) \in [Keys -> Entry] /\ Told(Without(S)) \in [Keys -> Nat]
         /\ HintsBeside(Without(S), Told(Without(S)))
         /\ Told(entries) \in [Keys -> Nat] /\ HintsBeside(entries, Told(entries))
  BY DEF TypeOK, Entry, Without, Told, HintsBeside

LEMMA CheckTypes ==
  ASSUME TypeOK, NEW k \in Keys
  PROVE  /\ Kept(k) \in [Keys -> Entry] /\ Told(Kept(k)) \in [Keys -> Nat]
         /\ HintsBeside(Kept(k), Told(Kept(k)))
<1>1. CASE Kept(k) = Without(Evicted \ GoKeys)
  BY <1>1, KeptTypes DEF Evicted, Known
<1>2. CASE Kept(k) = entries
  BY <1>2, KeptTypes DEF TypeOK, Entry
<1> QED BY <1>1, <1>2 DEF Kept

(* A check writes the window of its key, and maybe its hint. *)
LEMMA WindowWritten ==
  ASSUME TypeOK, NEW k \in Keys, NEW e \in Entry, NEW t \in Nat, now' = now,
         entries' = [Kept(k) EXCEPT ![k] = e],
         told' = [Told(Kept(k)) EXCEPT ![k] = t],
         t # 0 => e.count > Limit,
         allowed' = allowed \/ Pass(k)
  PROVE  TypeOK'
<1>1. entries' \in [Keys -> Entry] /\ told' \in [Keys -> Nat]
  BY CheckTypes
<1>2. allowed' \in [Keys -> [Times -> Nat]] /\ now' \in Times
  <2>1. now \in Times /\ allowed \in [Keys -> [Times -> Nat]]
    BY DEF TypeOK
  <2>2. CASE Pass(k)
    <3>1. [allowed[k] EXCEPT ![now] = @ + 1] \in [Times -> Nat]
      BY <2>1
    <3>2. allowed' = [allowed EXCEPT ![k] = [allowed[k] EXCEPT ![now] = @ + 1]]
      BY <2>2 DEF Pass
    <3> QED BY <2>1, <3>1, <3>2
  <2> QED BY <2>1, <2>2
<1>3. ASSUME NEW j \in Keys, told'[j] # 0 PROVE entries'[j].count > Limit
  <2>1. CASE j = k
    BY <1>3, <2>1, CheckTypes
  <2>2. CASE j # k
    BY <1>3, <2>2, CheckTypes DEF HintsBeside
  <2> QED BY <2>1, <2>2
<1> QED BY <1>1, <1>2, <1>3 DEF TypeOK, Entry

LEMMA NextTypes == ASSUME TypeOK, [Next]_vars PROVE TypeOK'
<1>1. ASSUME NEW k \in Keys, NewWindow(k) PROVE TypeOK'
  <2> DEFINE e == [count |-> 1, windowEnd |-> now + Window]
  <2>1. e \in Entry
    BY LimitAssumption, TimeAssumption, BoundsAssumption DEF Entry, TypeOK, Times
  <2>2. /\ entries' = [Kept(k) EXCEPT ![k] = e] /\ told' = [Told(Kept(k)) EXCEPT ![k] = 0]
        /\ now' = now /\ Pass(k)
    BY <1>1 DEF NewWindow
  <2> HIDE DEF e
  <2> QED BY <2>1, <2>2, WindowWritten
<1>2. ASSUME NEW k \in Keys, Counted(k) \/ Refused(k) PROVE TypeOK'
  <2> DEFINE e == Kept(k)[k]
             more == [count |-> e.count + 1, windowEnd |-> e.windowEnd]
  <2>1. /\ e \in Entry /\ e # None /\ ~Over(k, e, now) /\ now' = now
        /\ e.count < Limit \/ e.count \in Limit..(Limit + MaxRefused - 1)
        /\ entries' = [Kept(k) EXCEPT ![k].count = @ + 1]
    BY <1>2, CheckTypes DEF Counted, Refused
  <2>2. more \in Entry
    <3>1. e.count + 1 \in 1..(Limit + MaxRefused) /\ e.windowEnd \in Window..(MaxTime + Window)
      BY <2>1, EntryFields
    <3> QED BY <3>1 DEF Entry
  <2>3. entries' = [Kept(k) EXCEPT ![k] = more]
    <3>1. [e EXCEPT !.count = @ + 1] = more
      BY <2>1, EntryFields
    <3>2. entries' = [Kept(k) EXCEPT ![k] = [e EXCEPT !.count = @ + 1]]
      BY <2>1
    <3> HIDE DEF e, more
    <3> QED BY <3>1, <3>2
  <2>4. CASE Counted(k)
    <3>1. told' = Told(Kept(k)) /\ Pass(k) /\ e.count < Limit
      BY <2>4 DEF Counted
    <3>2. Told(Kept(k))[k] = 0
      BY <3>1, <2>1, CheckTypes, EntryFields DEF HintsBeside
    <3>3. told' = [Told(Kept(k)) EXCEPT ![k] = 0]
      BY <3>1, <3>2, CheckTypes
    <3> HIDE DEF e, more
    <3> QED BY <3>1, <3>3, <2>1, <2>2, <2>3, WindowWritten
  <2>5. CASE Refused(k)
    <3> DEFINE t == now + Second * RetryAfter(k, e)
    <3>1. /\ told' = [Told(Kept(k)) EXCEPT ![k] = t] /\ allowed' = allowed
          /\ e.count \in Limit..(Limit + MaxRefused - 1)
      BY <2>5 DEF Refused
    <3>2. now \in Nat
      BY TimeAssumption DEF TypeOK, Times
    <3>3. t \in Nat
      BY <2>1, <3>2, HintIsNatural
    <3>4. more.count > Limit
      BY <3>1, <2>1, EntryFields
    <3> HIDE DEF e, more, t
    <3> QED BY <3>1, <3>3, <3>4, <2>1, <2>2, <2>3, WindowWritten
  <2> QED BY <1>2, <2>4, <2>5
<1>3. CASE Cleanup
  <2>1. Evicted \cap GoKeys \in SUBSET Keys
    BY DEF Evicted, Known
  <2> QED BY <1>3, <2>1, KeptTypes DEF Cleanup, TypeOK, Entry, HintsBeside
<1>4. CASE TimePasses \/ UNCHANGED vars
  BY <1>4, TimeAssumption DEF TimePasses, vars, TypeOK, Times
<1> QED BY <1>1, <1>2, <1>3, <1>4 DEF Next

(***************************************************************************)
(* Counts stay within what a window counts, windows within one length of   *)
(* the clock, and a hint stands only beside a window that refused, however *)
(* checks, cleanups and evictions interleave.                              *)
(***************************************************************************)
THEOREM TypeCorrect == Spec => []TypeOK
<1>1. Init => TypeOK
  BY TimeAssumption DEF Init, TypeOK, Times
<1>2. TypeOK /\ [Next]_vars => TypeOK'
  BY NextTypes
<1> QED BY <1>1, <1>2, PTL DEF Spec

-----------------------------------------------------------------------------
(***************************************************************************)
(* How far a hint is from the end of its window.  The hint is computed     *)
(* from the time of the refusal and stays; so does the end of the window.  *)
(***************************************************************************)
Close(e, t) == e.windowEnd - Second < t /\ t <= e.windowEnd + Second

(* Go cuts off the difference of two times and adds a second; ... *)
LEMMA GoHint ==
  ASSUME NEW d \in Nat \ {0}, NEW n \in Nat, NEW end \in Nat, n <= end
  PROVE  LET t == n + d * ((end - n) \div d + 1)
         IN  end - d < t /\ t <= end + d
<1> DEFINE m == end - n
           q == m \div d
           r == m % d
<1>1. m \in Nat /\ q \in Int /\ r \in 0..(d - 1) /\ m = d * q + r
  OBVIOUS
<1>2. d * (q + 1) = d * q + d
  BY <1>1
<1>3. n + d * (q + 1) = end - r + d
  BY <1>1, <1>2
<1> HIDE DEF q, r
<1>4. end - d < n + d * (q + 1) /\ n + d * (q + 1) <= end + d
  BY <1>1, <1>3
<1> QED BY <1>4 DEF q

(* ... Python cuts off both, and gives a second at least. *)
LEMMA PythonHint ==
  ASSUME NEW d \in Nat \ {0}, NEW n \in Nat, NEW end \in Nat, n <= end
  PROVE  LET t == n + d * LargerOf(1, end \div d - n \div d)
         IN  end - d < t /\ t <= end + d
<1> DEFINE q == end \div d
           r == end % d
           p == n \div d
           o == n % d
<1>1. q \in Int /\ r \in 0..(d - 1) /\ end = d * q + r
  OBVIOUS
<1>2. p \in Int /\ o \in 0..(d - 1) /\ n = d * p + o
  OBVIOUS
<1> HIDE DEF q, r, p, o
<1>3. d * (q - p) = d * q - d * p /\ d * q \in Int /\ d * p \in Int
  BY <1>1, <1>2
<1>4. n + d * (q - p) = end - r + o
  BY <1>1, <1>2, <1>3
<1>5. CASE q - p >= 1
  <2>1. LargerOf(1, q - p) = q - p
    BY <1>1, <1>2, <1>5 DEF LargerOf
  <2> QED BY <1>1, <1>2, <1>4, <2>1 DEF q, p
<1>6. CASE q - p < 1
  <2>1. LargerOf(1, q - p) = 1
    BY <1>1, <1>2, <1>6 DEF LargerOf
  <2>2. d * (q - p) <= 0
    BY <1>1, <1>2, <1>6
  <2>3. end - d < n + d * 1 /\ n + d * 1 <= end + d
    BY <1>1, <1>2, <1>4, <2>2, <1>3
  <2> QED BY <2>1, <2>3 DEF q, p
<1> QED BY <1>1, <1>2, <1>5, <1>6

LEMMA HintIsClose ==
  ASSUME TypeOK, NEW k \in Keys, NEW e \in Entry, e # None, ~Over(k, e, now)
  PROVE  Close(e, now + Second * RetryAfter(k, e))
<1>1. /\ Second \in Nat \ {0} /\ now \in Nat /\ e.windowEnd \in Nat /\ now <= e.windowEnd
  BY EntryFields DEF TypeOK, Times, Over
<1> QED BY <1>1, GoHint, PythonHint DEF RetryAfter, Close

(* What an eviction or a cleanup leaves, it leaves as it was. *)
LEMMA LeftAsItWas ==
  ASSUME TypeOK, NEW S \in SUBSET Keys, NEW j \in Keys
  PROVE  /\ Told(Without(S))[j] # 0 => Without(S)[j] = entries[j] /\ Told(Without(S))[j] = told[j]
         /\ Told(entries)[j] # 0 => Told(entries)[j] = told[j]
  BY DEF TypeOK, Told, Without

LEMMA KeptAsItWas ==
  ASSUME TypeOK, NEW k \in Keys, NEW j \in Keys, Told(Kept(k))[j] # 0
  PROVE  Kept(k)[j] = entries[j] /\ Told(Kept(k))[j] = told[j]
<1>1. CASE Kept(k) = Without(Evicted \ GoKeys)
  BY <1>1, LeftAsItWas DEF Evicted, Known
<1>2. CASE Kept(k) = entries
  BY <1>2, LeftAsItWas
<1> QED BY <1>1, <1>2 DEF Kept

LEMMA NextHints == ASSUME TypeOK, HintsClose, [Next]_vars PROVE HintsClose'
<1> USE DEF HintsClose
<1>1. ASSUME NEW k \in Keys, NewWindow(k) PROVE HintsClose'
  <2> SUFFICES ASSUME NEW j \in Keys, told'[j] # 0 PROVE Close(entries'[j], told'[j])
    BY DEF Close
  <2> DEFINE w == [count |-> 1, windowEnd |-> now + Window]
  <2>1. entries' = [Kept(k) EXCEPT ![k] = w] /\ told' = [Told(Kept(k)) EXCEPT ![k] = 0]
    BY <1>1 DEF NewWindow
  <2> HIDE DEF w
  <2>2. j # k
    BY <2>1, CheckTypes
  <2>3. entries'[j] = Kept(k)[j] /\ told'[j] = Told(Kept(k))[j]
    BY <2>1, <2>2, CheckTypes
  <2> QED BY <2>3, KeptAsItWas DEF Close
<1>2. ASSUME NEW k \in Keys, Counted(k) \/ Refused(k) PROVE HintsClose'
  <2> SUFFICES ASSUME NEW j \in Keys, told'[j] # 0 PROVE Close(entries'[j], told'[j])
    BY DEF Close
  <2>1. entries' = [Kept(k) EXCEPT ![k].count = @ + 1]
    BY <1>2 DEF Counted, Refused
  <2>2. entries'[j].windowEnd = Kept(k)[j].windowEnd
    <3>1. entries' = [Kept(k) EXCEPT ![k] = [Kept(k)[k] EXCEPT !.count = @ + 1]]
      BY <2>1
    <3>2. [Kept(k)[k] EXCEPT !.count = @ + 1].windowEnd = Kept(k)[k].windowEnd
      <4>1. Kept(k)[k] \in Entry
        BY CheckTypes
      <4> QED BY <4>1 DEF Entry, None
    <3> QED BY <3>1, <3>2, CheckTypes
  <2>3. CASE Refused(k) /\ j = k
    <3> DEFINE e == Kept(k)[k]
               t == now + Second * RetryAfter(k, e)
    <3>1. e # None /\ ~Over(k, e, now) /\ told' = [Told(Kept(k)) EXCEPT ![k] = t]
      BY <2>3 DEF Refused
    <3>2. e \in Entry /\ told'[k] = t
      BY <3>1, CheckTypes
    <3> HIDE DEF e
    <3>3. Close(e, t)
      BY <3>1, <3>2, HintIsClose
    <3> QED BY <2>2, <2>3, <3>2, <3>3 DEF Close, e
  <2>4. CASE Counted(k) \/ j # k
    <3>1. told'[j] = Told(Kept(k))[j]
      BY <1>2, <2>4, CheckTypes DEF Counted, Refused
    <3> QED BY <2>2, <3>1, KeptAsItWas DEF Close
  <2> QED BY <1>2, <2>3, <2>4
<1>3. CASE Cleanup
  <2>1. Evicted \cap GoKeys \in SUBSET Keys
    BY DEF Evicted, Known
  <2> QED BY <1>3, <2>1, LeftAsItWas DEF Cleanup
<1>4. CASE TimePasses \/ UNCHANGED vars
  BY <1>4 DEF TimePasses, vars
<1> QED BY <1>1, <1>2, <1>3, <1>4 DEF Next

(***************************************************************************)
(* The hint of a refusal, of either backend, is within a second of the end *)
(* of its window for as long as it stands.                                 *)
(***************************************************************************)
THEOREM HintsAreClose == Spec => []HintsClose
<1>1. Init => HintsClose
  BY DEF Init, HintsClose
<1> QED BY <1>1, TypeCorrect, NextHints, PTL DEF Spec
=============================================================================
