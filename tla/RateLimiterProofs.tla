-------------------------- MODULE RateLimiterProofs --------------------------
(***************************************************************************)
(* Theorems about RateLimiter for every set of buckets, every limit and    *)
(* window, and every pruning interval.                                     *)
(***************************************************************************)
EXTENDS RateLimiter, SequenceTheorems, TLAPS

Entry(b) == [start : 0..now, count : 1..Limit[b]]

\* Pruning keeps the open windows as they are, and adds none.
LEMMA KeptWindows ==
  ASSUME TypeOK
  PROVE  /\ DOMAIN Kept \subseteq DOMAIN windows
         /\ \A b \in DOMAIN Kept : Kept[b] = windows[b]
         /\ \A b \in Buckets : Open(Kept, b) <=> Open(windows, b)
<1>1. CASE checks + 1 = PruneEvery
  <2>1. Kept = Pruned(windows)
    BY <1>1 DEF Kept
  <2>. QED BY <2>1 DEF Pruned, Open
<1>2. CASE checks + 1 # PruneEvery
  BY <1>2 DEF Kept
<1>. QED BY <1>1, <1>2

\* A Retry-After covers what is left of the window and less than a second more.
LEMMA Rounded ==
  ASSUME NEW t \in Nat \ {0}
  PROVE  /\ Ticks * RetryAfter(t) \in Nat
         /\ t <= Ticks * RetryAfter(t)
         /\ Ticks * RetryAfter(t) < t + Ticks
<1>. USE LimiterAssumption
<1>1. PICK q : q = Ceil(t)
  OBVIOUS
<1>2. PICK r : r = (t + Ticks - 1) % Ticks
  OBVIOUS
<1>3. q \in Int /\ r \in 0..Ticks - 1 /\ t + Ticks - 1 = Ticks * q + r
  BY <1>1, <1>2 DEF Ceil
<1>4. q >= 1
  BY <1>3
<1>5. RetryAfter(t) = q
  BY <1>1, <1>3, <1>4 DEF RetryAfter
<1>6. Ticks * q \in Nat /\ t <= Ticks * q /\ Ticks * q < t + Ticks
  BY <1>3
<1>. QED BY <1>3, <1>4, <1>5, <1>6

\* What is left of an open window.
LEMMA SomethingRemains ==
  ASSUME TypeOK, NEW b \in DOMAIN windows, Open(windows, b)
  PROVE  /\ Remaining(windows, b) \in Nat \ {0}
         /\ now + Remaining(windows, b) = windows[b].start + Window
BY LimiterAssumption DEF Open, Remaining, TypeOK

\* An admission is counted, with the window that admits it, and ends the waiting.
LEMMA CountedTypes ==
  ASSUME TypeOK, NEW b \in Buckets, NEW start \in 0..MaxTime, Counted(b, start)
  PROVE  admitted' \in [Buckets -> Seq(Admission)] /\ waiting' \in [Buckets -> Nat]
<1>1. PICK new : new = [at |-> now, start |-> start]
  OBVIOUS
<1>2. new \in Admission
  BY <1>1 DEF TypeOK, Admission
<1>3. admitted[b] \in Seq(Admission)
  BY DEF TypeOK
<1>4. PICK s : s = Append(admitted[b], new)
  OBVIOUS
<1>5. s \in Seq(Admission)
  BY <1>2, <1>3, <1>4, AppendProperties
<1>6. admitted' = [admitted EXCEPT ![b] = s]
  BY <1>1, <1>4 DEF Counted, TypeOK
<1>. QED BY <1>5, <1>6 DEF Counted, TypeOK

----------------------------------------------------------------------------
(* Type correctness.                                                       *)

LEMMA InitTypeOK == Init => TypeOK
BY LimiterAssumption DEF Init, TypeOK

LEMMA NextTypeOK == TypeOK /\ [Next]_vars => TypeOK'
<1>. SUFFICES ASSUME TypeOK, [Next]_vars PROVE TypeOK'
  OBVIOUS
<1>. USE LimiterAssumption
<1>1. CASE Tick
  <2>1. now' = now + 1 /\ now' \in 0..MaxTime
    BY <1>1 DEF Tick, TypeOK
  <2>2. UNCHANGED <<windows, checks, admitted, waiting>>
    BY <1>1 DEF Tick
  <2>. QED BY <2>1, <2>2 DEF TypeOK
<1>2. ASSUME NEW b \in Buckets, Check(b) PROVE TypeOK'
  <2>0. now' = now /\ checks' = (checks + 1) % PruneEvery
    BY <1>2 DEF Check, Opens, Admits, Refuses, CountsCheck
  <2>1. checks' \in 0..PruneEvery - 1
    BY <2>0 DEF TypeOK
  <2>2. \A c \in DOMAIN Kept : c \in Buckets /\ Kept[c] \in Entry(c)
    BY KeptWindows DEF TypeOK, Entry
  <2>3. CASE Opens(b)
    <3>1. [start |-> now, count |-> 1] \in Entry(b)
      BY DEF TypeOK, Entry
    <3>2. windows' = With(Kept, b, now, 1)
      BY <2>3 DEF Opens
    <3>3. DOMAIN windows' \subseteq Buckets
          /\ \A c \in DOMAIN windows' : windows'[c] \in Entry(c)
      BY <2>2, <3>1, <3>2 DEF With
    <3>4. admitted' \in [Buckets -> Seq(Admission)]
          /\ waiting' \in [Buckets -> Nat]
      BY <2>3, CountedTypes DEF Opens, TypeOK
    <3>. QED BY <2>0, <2>1, <3>3, <3>4 DEF TypeOK, Entry
  <2>4. CASE Admits(b)
    <3>1. b \in DOMAIN Kept /\ Kept[b].count < Limit[b]
      BY <2>4 DEF Admits, Open
    <3>2. [start |-> Kept[b].start, count |-> Kept[b].count + 1] \in Entry(b)
      BY <2>2, <3>1 DEF Entry
    <3>3. windows' = With(Kept, b, Kept[b].start, Kept[b].count + 1)
      BY <2>4 DEF Admits
    <3>4. DOMAIN windows' \subseteq Buckets
          /\ \A c \in DOMAIN windows' : windows'[c] \in Entry(c)
      BY <2>2, <3>2, <3>3 DEF With
    <3>5. admitted' \in [Buckets -> Seq(Admission)]
          /\ waiting' \in [Buckets -> Nat]
      <4>1. Kept[b].start \in 0..MaxTime /\ Counted(b, Kept[b].start)
        BY <2>2, <2>4, <3>1 DEF Admits, Entry, TypeOK
      <4>. QED BY <4>1, CountedTypes
    <3>. QED BY <2>0, <2>1, <3>4, <3>5 DEF TypeOK, Entry
  <2>5. CASE Refuses(b)
    <3>1. windows' = Kept /\ admitted' = admitted
      BY <2>5 DEF Refuses
    <3>2. PICK t : t = Remaining(Kept, b)
      OBVIOUS
    <3>3. b \in DOMAIN Kept /\ t \in Nat \ {0}
      BY <2>2, <2>5, <3>2 DEF Refuses, Open, Remaining, Entry, TypeOK
    <3>4. now + Ticks * RetryAfter(t) \in Nat
      <4>1. PICK told \in Nat : told = Ticks * RetryAfter(t)
        BY <3>3, Rounded
      <4>. QED BY <4>1 DEF TypeOK
    <3>5. waiting' \in [Buckets -> Nat]
      BY <2>5, <3>2, <3>4 DEF Refuses, TypeOK
    <3>. QED BY <2>0, <2>1, <2>2, <3>1, <3>5 DEF TypeOK, Entry
  <2>. QED BY <1>2, <2>3, <2>4, <2>5 DEF Check
<1>3. CASE UNCHANGED vars
  BY <1>3 DEF vars, TypeOK
<1>. QED BY <1>1, <1>2, <1>3 DEF Next

\* No window ever counts more requests than its limit, and none opens in the
\* future.
THEOREM TypeCorrect == Spec => []TypeOK
BY InitTypeOK, NextTypeOK, PTL DEF Spec

----------------------------------------------------------------------------
(* Retry-After.                                                            *)

\* What RetryAfterHonest says of a bucket whose clients wait for an open window.
Honest(b) ==
  /\ now < waiting[b]
  /\ waiting[b] - (windows[b].start + Window) \in 0..Ticks - 1

LEMMA NextHonest ==
  TypeOK /\ TypeOK' /\ RetryAfterHonest /\ [Next]_vars => RetryAfterHonest'
<1>. SUFFICES ASSUME TypeOK, TypeOK', RetryAfterHonest, [Next]_vars, NEW c \in Buckets,
                     waiting'[c] # 0, Open(windows, c)'
              PROVE  Honest(c)'
  BY DEF RetryAfterHonest, Honest
<1>. USE LimiterAssumption
<1>1. CASE Tick
  <2>1. now' = now + 1 /\ now \in Nat /\ UNCHANGED <<windows, waiting>>
    BY <1>1 DEF Tick, TypeOK
  <2>2. c \in DOMAIN windows /\ windows[c].start \in Nat /\ now' - windows[c].start < Window
    BY <2>1 DEF Open, TypeOK
  <2>3. Open(windows, c)
    BY <2>1, <2>2 DEF Open
  <2>4. waiting[c] - (windows[c].start + Window) \in 0..Ticks - 1 /\ waiting[c] \in Nat
    BY <2>1, <2>3 DEF RetryAfterHonest, TypeOK
  <2>. QED BY <2>1, <2>2, <2>4 DEF Honest
<1>2. ASSUME NEW b \in Buckets, Check(b)
      PROVE  Honest(c)'
  <2>0. now' = now
    BY <1>2 DEF Check, Opens, Admits, Refuses
  <2>1. CASE Opens(b) \/ Admits(b)
    <3>1. waiting' = [waiting EXCEPT ![b] = 0]
      BY <2>1 DEF Opens, Admits, Counted
    <3>2. c # b /\ waiting'[c] = waiting[c]
      BY <3>1 DEF TypeOK
    <3>3. PICK start, count : windows' = With(Kept, b, start, count)
      BY <2>1 DEF Opens, Admits
    <3>4. c \in DOMAIN Kept /\ windows'[c] = Kept[c]
      BY <3>2, <3>3 DEF Open, With
    <3>5. c \in DOMAIN windows /\ windows'[c] = windows[c]
      BY <3>4, KeptWindows
    <3>6. Open(windows, c)
      BY <2>0, <3>5 DEF Open
    <3>. QED BY <2>0, <3>2, <3>5, <3>6 DEF RetryAfterHonest, Honest
  <2>2. CASE Refuses(b)
    <3>1. PICK t : t = Remaining(Kept, b)
      OBVIOUS
    <3>2. windows' = Kept /\ waiting' = [waiting EXCEPT ![b] = now + Ticks * RetryAfter(t)]
      BY <2>2, <3>1 DEF Refuses
    <3>3. c \in DOMAIN windows /\ windows'[c] = windows[c]
      BY <3>2, KeptWindows DEF Open
    <3>4. Open(windows, c)
      BY <2>0, <3>3 DEF Open
    <3>5. CASE c = b
      <4>1. t = Remaining(windows, b)
        BY <3>1, <3>2, <3>3, <3>5 DEF Remaining
      <4>2. t \in Nat \ {0} /\ now + t = windows[b].start + Window
        BY <3>3, <3>4, <3>5, <4>1, SomethingRemains
      <4>3. PICK told : told = Ticks * RetryAfter(t)
        OBVIOUS
      <4>4. told \in Nat /\ t <= told /\ told < t + Ticks
        BY <4>2, <4>3, Rounded
      <4>5. waiting'[c] = now + told
        BY <3>2, <3>5, <4>3 DEF TypeOK
      <4>6. now \in Nat /\ windows[c].start \in Nat
        BY <3>3 DEF TypeOK
      <4>. QED BY <2>0, <3>3, <3>5, <4>2, <4>4, <4>5, <4>6 DEF Honest
    <3>6. CASE c # b
      BY <2>0, <3>2, <3>3, <3>4, <3>6 DEF RetryAfterHonest, Honest, TypeOK
    <3>. QED BY <3>5, <3>6
  <2>. QED BY <1>2, <2>1, <2>2 DEF Check
<1>3. CASE UNCHANGED vars
  BY <1>3 DEF vars, Open, RetryAfterHonest, Honest
<1>. QED BY <1>1, <1>2, <1>3 DEF Next

\* A client that is refused and comes back when it was told to is not refused by
\* the same window, and waits less than a second too long: the rounding of
\* retry_after in FixedWindowRateLimiter.check.
THEOREM HonestRetryAfter == Spec => []RetryAfterHonest
<1>1. Init => RetryAfterHonest
  BY DEF Init, RetryAfterHonest
<1>. QED BY <1>1, NextHonest, TypeCorrect, PTL DEF Spec

----------------------------------------------------------------------------
(* Twice the limit.                                                        *)

\* The admissions s of a bucket until t: each falls into its window, the windows do
\* not overlap, and a request and the one that comes limit later are not in the
\* same one.
Spaced(s, limit, t) ==
  /\ \A i \in DOMAIN s :
       s[i].start <= s[i].at /\ s[i].at < s[i].start + Window /\ s[i].at <= t
  /\ \A i, j \in DOMAIN s :
       i <= j => s[i].start = s[j].start \/ s[i].start + Window <= s[j].start
  /\ \A i, j \in DOMAIN s : i + limit <= j => s[i].start # s[j].start

\* The last count admissions of s are those of the window that opened at start, and
\* the windows of the others had closed by then.
Packed(s, start, count) ==
  \A i \in DOMAIN s : IF i + count <= Len(s) THEN s[i].start + Window <= start
                      ELSE s[i].start = start

\* What the entry of bucket b says of its admissions.
EntryCounts(b) ==
  /\ Spaced(admitted[b], Limit[b], now)
  /\ Open(windows, b) => Packed(admitted[b], windows[b].start, windows[b].count)
  /\ ~Open(windows, b) => Packed(admitted[b], now, 0)

Entries == \A b \in Buckets : EntryCounts(b)

LEMMA SpacedTwice ==
  ASSUME NEW b \in Buckets, NEW s \in Seq(Admission), NEW t, Spaced(s, Limit[b], t),
         NEW i \in DOMAIN s, NEW j \in DOMAIN s, i + 2 * Limit[b] <= j
  PROVE  s[i].at + Window <= s[j].at
<1>1. /\ Limit[b] \in Nat /\ Window \in Nat /\ Len(s) \in Nat /\ DOMAIN s = 1..Len(s)
      /\ i \in 1..Len(s) /\ j \in 1..Len(s)
  BY LimiterAssumption, LenProperties
<1>2. PICK k \in 1..Len(s) : k = i + Limit[b]
  BY <1>1
<1>3. /\ s[i].start # s[k].start /\ s[k].start # s[j].start
      /\ s[i].start + Window <= s[k].start /\ s[k].start + Window <= s[j].start
  <2>1. s[i].start # s[k].start /\ s[k].start # s[j].start
    BY <1>1, <1>2 DEF Spaced
  <2>2. i <= k /\ k <= j
    BY <1>1, <1>2
  <2>. QED BY <1>1, <1>2, <2>1, <2>2 DEF Spaced
<1>4. s[i].at < s[i].start + Window /\ s[j].start <= s[j].at
  BY <1>1 DEF Spaced
<1>5. /\ s[i].at \in Nat /\ s[i].start \in Nat /\ s[k].start \in Nat
      /\ s[j].at \in Nat /\ s[j].start \in Nat
  <2>1. s[i] \in Admission /\ s[j] \in Admission /\ s[k] \in Admission
    BY <1>1, <1>2
  <2>. QED BY <2>1 DEF Admission
<1>. QED BY <1>1, <1>3, <1>4, <1>5

\* One more admission of the window that opened at start.
LEMMA AppendSpaced ==
  ASSUME NEW b \in Buckets, NEW s \in Seq(Admission), NEW t \in 0..MaxTime,
         NEW start \in 0..t, NEW count \in Nat, count < Limit[b], t < start + Window,
         Spaced(s, Limit[b], t), Packed(s, start, count),
         NEW r, r = Append(s, [at |-> t, start |-> start])
  PROVE  Spaced(r, Limit[b], t) /\ Packed(r, start, count + 1)
<1>1. PICK new : new = [at |-> t, start |-> start]
  OBVIOUS
<1>2. new \in Admission /\ new.at = t /\ new.start = start
  BY <1>1, LimiterAssumption DEF Admission
<1>3. PICK n \in Nat : n = Len(s) /\ DOMAIN s = 1..n
  BY LenProperties
<1>4. /\ r \in Seq(Admission) /\ Len(r) = n + 1 /\ DOMAIN r = 1..(n + 1)
      /\ r[n + 1] = new /\ \A i \in 1..n : r[i] = s[i]
  BY <1>1, <1>2, <1>3, AppendProperties, LenProperties
<1>5. \A i \in 1..n : s[i].start \in Nat /\ s[i].at \in Nat
  <2>1. \A i \in 1..n : s[i] \in Admission
    BY <1>3
  <2>. QED BY <2>1 DEF Admission
<1>6. Limit[b] \in Nat /\ Window \in Nat \ {0}
  BY LimiterAssumption
<1>7. \A i \in 1..n : s[i].start = start \/ s[i].start + Window <= start
  BY <1>3 DEF Packed
<1>8. \A i \in 1..n : i + count <= n => s[i].start + Window <= start
  BY <1>3 DEF Packed
<1>9. ASSUME NEW i \in DOMAIN r
      PROVE  r[i].start <= r[i].at /\ r[i].at < r[i].start + Window /\ r[i].at <= t
  <2>1. CASE i \in 1..n
    BY <1>3, <1>4, <2>1 DEF Spaced
  <2>2. CASE i = n + 1
    BY <1>2, <1>4, <2>2
  <2>. QED BY <1>4, <2>1, <2>2
<1>10. ASSUME NEW i \in DOMAIN r, NEW j \in DOMAIN r, i <= j
       PROVE  r[i].start = r[j].start \/ r[i].start + Window <= r[j].start
  <2>1. CASE j \in 1..n
    <3>1. i \in 1..n
      BY <1>3, <1>4, <1>10, <2>1
    <3>. QED BY <1>3, <1>4, <1>10, <2>1, <3>1 DEF Spaced
  <2>2. CASE j = n + 1 /\ i \in 1..n
    BY <1>2, <1>4, <1>7, <2>2
  <2>3. CASE j = n + 1 /\ i = n + 1
    BY <2>3
  <2>. QED BY <1>4, <2>1, <2>2, <2>3
<1>11. ASSUME NEW i \in DOMAIN r, NEW j \in DOMAIN r, i + Limit[b] <= j
       PROVE  r[i].start # r[j].start
  <2>1. i \in 1..n
    BY <1>3, <1>4, <1>6, <1>11
  <2>2. CASE j \in 1..n
    BY <1>3, <1>4, <1>11, <2>1, <2>2 DEF Spaced
  <2>3. CASE j = n + 1
    <3>1. i + count <= n
      BY <1>3, <1>6, <1>11, <2>1, <2>3
    <3>2. s[i].start + Window <= start
      BY <1>8, <2>1, <3>1
    <3>. QED BY <1>2, <1>4, <1>5, <1>6, <2>1, <2>3, <3>2
  <2>. QED BY <1>4, <2>2, <2>3
<1>12. ASSUME NEW i \in DOMAIN r
       PROVE  IF i + (count + 1) <= Len(r) THEN r[i].start + Window <= start
              ELSE r[i].start = start
  <2>1. CASE i \in 1..n
    <3>1. i + (count + 1) <= Len(r) <=> i + count <= n
      BY <1>3, <1>4, <2>1
    <3>2. r[i] = s[i] /\ n = Len(s) /\ i \in DOMAIN s
      BY <1>3, <1>4, <2>1
    <3>. QED BY <3>1, <3>2 DEF Packed
  <2>2. CASE i = n + 1
    <3>1. ~(i + (count + 1) <= Len(r))
      BY <1>3, <1>4, <2>2
    <3>. QED BY <1>2, <1>4, <2>2, <3>1
  <2>. QED BY <1>4, <2>1, <2>2
<1>13. Spaced(r, Limit[b], t)
  BY <1>9, <1>10, <1>11 DEF Spaced
<1>14. Packed(r, start, count + 1)
  BY <1>12 DEF Packed
<1>. QED BY <1>13, <1>14

\* A bucket that admits nothing: its window may only close with time.
LEMMA EntryStays ==
  ASSUME TypeOK, NEW b \in Buckets, EntryCounts(b), now' \in {now, now + 1},
         admitted'[b] = admitted[b],
         b \in DOMAIN windows' => b \in DOMAIN windows /\ windows'[b] = windows[b],
         Open(windows, b) => b \in DOMAIN windows'
  PROVE  EntryCounts(b)'
<1>1. PICK s : s = admitted[b]
  OBVIOUS
<1>2. s \in Seq(Admission) /\ Len(s) \in Nat /\ DOMAIN s = 1..Len(s)
  BY <1>1, LenProperties DEF TypeOK
<1>3. \A i \in DOMAIN s : s[i].start \in Nat /\ s[i].at \in Nat
  <2>1. \A i \in DOMAIN s : s[i] \in Admission
    BY <1>2
  <2>. QED BY <2>1 DEF Admission
<1>4. now \in Nat /\ now' \in Nat /\ now <= now' /\ Window \in Nat
  BY LimiterAssumption DEF TypeOK
<1>5. Spaced(s, Limit[b], now')
  BY <1>1, <1>3, <1>4 DEF EntryCounts, Spaced
<1>6. CASE Open(windows, b)
  <2>1. /\ b \in DOMAIN windows /\ windows[b].start \in Nat /\ windows[b].count \in Nat
        /\ b \in DOMAIN windows' /\ windows'[b] = windows[b]
    BY <1>6 DEF Open, TypeOK
  <2>2. Packed(s, windows[b].start, windows[b].count)
    BY <1>1, <1>6 DEF EntryCounts
  <2>3. Open(windows, b)' <=> now' - windows[b].start < Window
    BY <2>1 DEF Open
  <2>4. ~Open(windows, b)' => Packed(s, now', 0)
    <3>1. ASSUME ~Open(windows, b)', NEW i \in DOMAIN s
          PROVE  s[i].start + Window <= now' /\ i + 0 <= Len(s)
      <4>1. windows[b].start + Window <= now'
        BY <1>4, <2>1, <2>3, <3>1
      <4>2. s[i].start = windows[b].start \/ s[i].start + Window <= windows[b].start
        BY <2>2, <3>1 DEF Packed
      <4>. QED BY <1>2, <1>3, <1>4, <2>1, <3>1, <4>1, <4>2
    <3>. QED BY <3>1 DEF Packed
  <2>. QED BY <1>1, <1>5, <2>1, <2>2, <2>4 DEF EntryCounts
<1>7. CASE ~Open(windows, b)
  <2>1. ~Open(windows, b)'
    <3>1. CASE b \in DOMAIN windows'
      <4>1. windows[b].start \in Nat /\ ~(now - windows[b].start < Window)
        BY <1>7, <3>1 DEF Open, TypeOK
      <4>2. ~(now' - windows'[b].start < Window)
        BY <1>4, <3>1, <4>1
      <4>. QED BY <4>2 DEF Open
    <3>2. CASE b \notin DOMAIN windows'
      BY <3>2 DEF Open
    <3>. QED BY <3>1, <3>2
  <2>2. Packed(s, now', 0)
    <3>1. \A i \in DOMAIN s : i + 0 <= Len(s) /\ s[i].start + Window <= now
      BY <1>1, <1>2, <1>7 DEF EntryCounts, Packed
    <3>2. \A i \in DOMAIN s : s[i].start + Window <= now'
      BY <1>3, <1>4, <3>1
    <3>. QED BY <3>1, <3>2 DEF Packed
  <2>. QED BY <1>1, <1>5, <2>1, <2>2 DEF EntryCounts
<1>. QED BY <1>6, <1>7

LEMMA NextEntries ==
  ASSUME TypeOK, \A b \in Buckets : EntryCounts(b), [Next]_vars
  PROVE  \A b \in Buckets : EntryCounts(b)'
<1>. USE LimiterAssumption
<1>1. CASE Tick \/ UNCHANGED vars
  <2>1. UNCHANGED <<windows, admitted>> /\ now' \in {now, now + 1}
    BY <1>1 DEF Tick, vars
  <2>2. ASSUME NEW b \in Buckets
        PROVE  EntryCounts(b)'
    <3>1. Open(windows, b) => b \in DOMAIN windows'
      BY <2>1 DEF Open
    <3>. QED BY <2>1, <3>1, EntryStays
  <2>. QED BY <2>2
<1>2. ASSUME NEW b \in Buckets, Check(b), NEW c \in Buckets
      PROVE  EntryCounts(c)'
  <2>0. now' = now /\ now \in 0..MaxTime
    BY <1>2 DEF Check, Opens, Admits, Refuses, TypeOK
  <2>1. CASE Refuses(b)
    <3>1. windows' = Kept /\ admitted' = admitted
      BY <2>1 DEF Refuses
    <3>2. c \in DOMAIN windows' => c \in DOMAIN windows /\ windows'[c] = windows[c]
      BY <3>1, KeptWindows
    <3>3. Open(windows, c) => c \in DOMAIN windows'
      BY <3>1, KeptWindows DEF Open
    <3>. QED BY <2>0, <3>1, <3>2, <3>3, EntryStays
  <2>2. ASSUME NEW start \in 0..now, NEW count \in Nat, count < Limit[b],
               now < start + Window, Packed(admitted[b], start, count),
               windows' = With(Kept, b, start, count + 1), Counted(b, start)
        PROVE  EntryCounts(c)'
    <3>1. CASE c # b
      <4>1. admitted'[c] = admitted[c]
        BY <2>2, <3>1 DEF Counted, TypeOK
      <4>2. c \in DOMAIN windows' => c \in DOMAIN windows /\ windows'[c] = windows[c]
        BY <2>2, <3>1, KeptWindows DEF With
      <4>3. Open(windows, c) => c \in DOMAIN windows'
        BY <2>2, KeptWindows DEF Open, With
      <4>. QED BY <2>0, <4>1, <4>2, <4>3, EntryStays
    <3>2. CASE c = b
      <4>1. PICK s \in Seq(Admission) : s = admitted[b]
        BY DEF TypeOK
      <4>2. PICK r : r = Append(s, [at |-> now, start |-> start])
        OBVIOUS
      <4>3. admitted'[b] = r
        BY <2>2, <4>1, <4>2 DEF Counted, TypeOK
      <4>4. Spaced(s, Limit[b], now) /\ Packed(s, start, count)
        BY <2>2, <4>1 DEF EntryCounts
      <4>5. Spaced(r, Limit[b], now) /\ Packed(r, start, count + 1)
        BY <2>0, <2>2, <4>2, <4>4, AppendSpaced
      <4>6. b \in DOMAIN windows' /\ windows'[b] = [start |-> start, count |-> count + 1]
        BY <2>2 DEF With
      <4>7. Open(windows, b)'
        BY <2>0, <2>2, <4>6 DEF Open
      <4>. QED BY <2>0, <3>2, <4>3, <4>5, <4>6, <4>7 DEF EntryCounts
    <3>. QED BY <3>1, <3>2
  <2>3. CASE Opens(b)
    <3>1. ~Open(windows, b)
      BY <2>3, KeptWindows DEF Opens
    <3>2. Packed(admitted[b], now, 0)
      BY <1>2, <3>1 DEF EntryCounts
    <3>3. now \in 0..now /\ 0 < Limit[b] /\ now < now + Window
      BY <2>0
    <3>4. windows' = With(Kept, b, now, 0 + 1) /\ Counted(b, now)
      BY <2>3 DEF Opens
    <3>. QED BY <2>2, <3>2, <3>3, <3>4
  <2>4. CASE Admits(b)
    <3>1. b \in DOMAIN Kept /\ Open(windows, b) /\ Kept[b] = windows[b]
      BY <2>4, KeptWindows DEF Admits, Open
    <3>2. PICK start, count : start = windows[b].start /\ count = windows[b].count
      OBVIOUS
    <3>3. start \in 0..now /\ count \in Nat /\ now - start < Window
      BY <3>1, <3>2 DEF Open, TypeOK
    <3>4. count < Limit[b] /\ windows' = With(Kept, b, start, count + 1) /\ Counted(b, start)
      BY <2>4, <3>1, <3>2 DEF Admits
    <3>5. Packed(admitted[b], start, count)
      BY <1>2, <3>1, <3>2 DEF EntryCounts
    <3>6. now < start + Window
      BY <2>0, <3>3
    <3>. QED BY <2>2, <3>3, <3>4, <3>5, <3>6
  <2>. QED BY <1>2, <2>1, <2>3, <2>4 DEF Check
<1>. QED BY <1>1, <1>2 DEF Next

\* No interval as long as a window admits more than two windows' worth: at worst a
\* window's last moment and the next one's first, whatever _prune_expired drops.
THEOREM TwiceTheLimit == Spec => []TwiceLimit
<1>1. Init => TypeOK /\ Entries
  <2>1. ASSUME Init, NEW b \in Buckets
        PROVE  EntryCounts(b)
    <3>1. admitted[b] = <<>> /\ DOMAIN <<>> = {}
      BY <2>1, EmptySeq, LenProperties DEF Init
    <3>. QED BY <3>1 DEF EntryCounts, Spaced, Packed
  <2>. QED BY <2>1, InitTypeOK DEF Entries
<1>2. TypeOK /\ Entries /\ [Next]_vars => TypeOK' /\ Entries'
  BY NextTypeOK, NextEntries DEF Entries
<1>3. ASSUME TypeOK, Entries
      PROVE  TwiceLimit
  <2>1. SUFFICES ASSUME NEW b \in Buckets, NEW i \in DOMAIN admitted[b],
                        NEW j \in DOMAIN admitted[b], i + 2 * Limit[b] <= j
                 PROVE  admitted[b][i].at + Window <= admitted[b][j].at
    BY DEF TwiceLimit
  <2>2. admitted[b] \in Seq(Admission) /\ Spaced(admitted[b], Limit[b], now)
    BY <1>3 DEF Entries, EntryCounts, TypeOK
  <2>. QED BY <2>1, <2>2, SpacedTwice
<1>4. TypeOK /\ Entries => TwiceLimit
  BY <1>3
<1>. QED BY <1>1, <1>2, <1>4, PTL DEF Spec

----------------------------------------------------------------------------
(* The limiter implements FixedWindow.                                     *)

Used(b) == IF Open(windows, b) THEN windows[b].count ELSE 0
Left(b) == IF Open(windows, b) THEN Remaining(windows, b) ELSE 0

\* A step that changes the open window of no bucket but b, and gives b the
\* counters of an admitted request, is a step of FixedWindow.
LEMMA AdmitStep ==
  ASSUME NEW b \in Buckets, Used(b) < Limit[b], Used(b)' = Used(b) + 1,
         Left(b)' = (IF Used(b) = 0 THEN Window ELSE Left(b)),
         \A c \in Buckets \ {b} : Used(c)' = Used(c) /\ Left(c)' = Left(c)
  PROVE  Promise!Admit(b)
BY DEF Promise!Admit, Used, Left

\* The other buckets keep their open windows when b gets an entry.
LEMMA OtherWindows ==
  ASSUME TypeOK, now' = now, NEW b \in Buckets, NEW start, NEW count,
         windows' = With(Kept, b, start, count), NEW c \in Buckets \ {b}
  PROVE  Used(c)' = Used(c) /\ Left(c)' = Left(c)
<1>1. c \in DOMAIN windows' <=> c \in DOMAIN Kept
  BY DEF With
<1>2. c \in DOMAIN Kept => windows'[c] = windows[c] /\ c \in DOMAIN windows
  BY KeptWindows DEF With
<1>3. Open(windows, c) => c \in DOMAIN Kept
  BY KeptWindows DEF Open
<1>4. Open(windows, c)' <=> Open(windows, c)
  BY <1>1, <1>2, <1>3 DEF Open
<1>. QED BY <1>2, <1>3, <1>4 DEF Used, Left, Remaining

LEMMA WindowStep ==
  TypeOK /\ [Next]_vars => [Promise!Next]_(Promise!windowVars)
<1>. SUFFICES ASSUME TypeOK, [Next]_vars
              PROVE  Promise!Next \/ UNCHANGED Promise!windowVars
  OBVIOUS
<1>. USE LimiterAssumption
<1>1. CASE Tick
  <2>1. now' = now + 1 /\ now \in Nat /\ windows' = windows
    BY <1>1 DEF Tick, TypeOK
  <2>2. ASSUME NEW b \in Buckets
        PROVE  /\ Left(b)' = IF Left(b) > 1 THEN Left(b) - 1 ELSE 0
               /\ Used(b)' = IF Left(b) > 1 THEN Used(b) ELSE 0
    <3>1. CASE b \in DOMAIN windows
      <4>1. windows[b].start \in Nat
        BY <3>1 DEF TypeOK
      <4>. QED BY <2>1, <3>1, <4>1 DEF Left, Used, Remaining, Open
    <3>2. CASE b \notin DOMAIN windows
      BY <2>1, <3>2 DEF Left, Used, Remaining, Open
    <3>. QED BY <3>1, <3>2
  <2>3. Promise!Tick
    BY <2>2 DEF Promise!Tick, Left, Used
  <2>. QED BY <2>3 DEF Promise!Next
<1>2. ASSUME NEW b \in Buckets, Opens(b) PROVE Promise!Next
  <2>1. now' = now /\ now \in Nat /\ windows' = With(Kept, b, now, 1)
    BY <1>2 DEF Opens, TypeOK
  <2>2. ~Open(windows, b)
    BY <1>2, KeptWindows DEF Opens
  <2>3. b \in DOMAIN windows' /\ windows'[b] = [start |-> now, count |-> 1]
    BY <2>1 DEF With
  <2>4. Open(windows, b)'
    BY <2>1, <2>3 DEF Open
  <2>5. /\ Used(b) = 0 /\ Used(b)' = 1 /\ Left(b)' = Window
    BY <2>1, <2>2, <2>3, <2>4 DEF Used, Left, Remaining
  <2>6. Used(b) < Limit[b]
    BY <2>5
  <2>7. Promise!Admit(b)
    BY <2>1, <2>5, <2>6, OtherWindows, AdmitStep
  <2>. QED BY <2>7 DEF Promise!Next
<1>3. ASSUME NEW b \in Buckets, Admits(b) PROVE Promise!Next
  <2>1. /\ now' = now /\ now \in Nat
        /\ windows' = With(Kept, b, Kept[b].start, Kept[b].count + 1)
    BY <1>3 DEF Admits, TypeOK
  <2>2. Open(windows, b) /\ Kept[b] = windows[b] /\ windows[b].count < Limit[b]
    BY <1>3, KeptWindows DEF Admits, Open
  <2>3. windows[b].count \in Nat \ {0} /\ windows[b].start \in Nat
    BY <2>2 DEF Open, TypeOK
  <2>4. /\ b \in DOMAIN windows'
        /\ windows'[b] = [start |-> windows[b].start, count |-> windows[b].count + 1]
    BY <2>1, <2>2 DEF With
  <2>5. Open(windows, b)'
    BY <2>1, <2>2, <2>4 DEF Open
  <2>6. Used(b) = windows[b].count /\ Used(b)' = Used(b) + 1 /\ Left(b)' = Left(b)
    BY <2>1, <2>2, <2>4, <2>5 DEF Used, Left, Remaining
  <2>7. Promise!Admit(b)
    BY <2>1, <2>2, <2>3, <2>6, OtherWindows, AdmitStep
  <2>. QED BY <2>7 DEF Promise!Next
<1>4. ASSUME NEW b \in Buckets, Refuses(b) PROVE UNCHANGED Promise!windowVars
  <2>1. now' = now /\ windows' = Kept
    BY <1>4 DEF Refuses
  <2>2. ASSUME NEW c \in Buckets
        PROVE  Used(c)' = Used(c) /\ Left(c)' = Left(c)
    <3>1. Open(windows, c)' <=> Open(windows, c)
      BY <2>1, KeptWindows DEF Open
    <3>2. Open(windows, c) => windows'[c] = windows[c]
      BY <2>1, KeptWindows DEF Open
    <3>. QED BY <2>1, <3>1, <3>2 DEF Used, Left, Remaining
  <2>. QED BY <2>2 DEF Promise!windowVars, Used, Left
<1>5. CASE UNCHANGED vars
  BY <1>5 DEF vars, Promise!windowVars, Open, Remaining
<1>. QED BY <1>1, <1>2, <1>3, <1>4, <1>5 DEF Next, Check

\* The table of windows and its pruning implement FixedWindow: no entry is
\* pruned while its window is open, and no window outlives its time.
THEOREM ImplementsFixedWindow == Spec => WindowKept
<1>1. Init => Promise!Init
  BY DEF Init, Promise!Init, Open
<1>2. Spec => Promise!Spec
  BY <1>1, WindowStep, TypeCorrect, PTL DEF Spec, Promise!Spec
<1>. QED BY <1>2 DEF WindowKept
=============================================================================
