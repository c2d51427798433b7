----------------------------- MODULE RateLimiter -----------------------------
(***************************************************************************)
(* FixedWindowRateLimiter (backend/app/rate_limit.py), which the request   *)
(* middleware of main.py asks before every limited POST.  A check runs     *)
(* under the limiter's lock, so it is one step.  The clock is monotonic, *)
(* finer than seconds: Ticks of its steps make one.  Every time but the    *)
(* Retry-After, which is in whole seconds, is a number of ticks.           *)
(***************************************************************************)
EXTENDS Naturals, Sequences

CONSTANTS
  Buckets,      \* pairs of a route key and a client
  Limit,        \* requests a window admits, per bucket
  Window,       \* window_seconds, in ticks
  Ticks,        \* steps of the clock in a second
  PruneEvery,   \* checks between two prunings (256)
  MaxTime       \* bound: how far the clock runs

\* _rule builds no rule for a limit of 0.
ASSUME LimiterAssumption ==
  /\ Limit \in [Buckets -> Nat \ {0}]
  /\ Window \in Nat \ {0}
  /\ Ticks \in Nat \ {0}
  /\ Window % Ticks = 0
  /\ PruneEvery \in Nat \ {0}
  /\ MaxTime \in Nat

VARIABLES
  now,       \* time.monotonic()
  windows,   \* _windows: start and count, for the buckets that have an entry
  checks,    \* _checks, modulo PruneEvery
  admitted,  \* history: the requests admitted of a bucket, and when
  waiting    \* history: until when the refused clients of a bucket must wait

vars == <<now, windows, checks, admitted, waiting>>

Init ==
  /\ now = 0
  /\ windows = [b \in {} |-> [start |-> 0, count |-> 0]]
  /\ checks = 0
  /\ admitted = [b \in Buckets |-> <<>>]
  /\ waiting = [b \in Buckets |-> 0]

Open(w, b) == b \in DOMAIN w /\ now - w[b].start < Window

\* Takes a window for expired one tick early.
MutPruned(w) ==
  [b \in {c \in DOMAIN w : now - w[c].start + 1 < Window} |-> w[b]]

\* _prune_expired, every PruneEvery checks.
Pruned(w) == [b \in {c \in DOMAIN w : Open(w, c)} |-> w[b]]

Kept == IF checks + 1 = PruneEvery THEN Pruned(windows) ELSE windows

With(w, b, start, count) ==
  [c \in DOMAIN w \cup {b} |->
     IF c = b THEN [start |-> start, count |-> count] ELSE w[c]]

\* A request is admitted now, in the window that opened at start.
Counted(b, start) ==
  /\ admitted' = [admitted EXCEPT ![b] = Append(@, [at |-> now, start |-> start])]
  /\ waiting' = [waiting EXCEPT ![b] = 0]

CountsCheck == checks' = (checks + 1) % PruneEvery

\* A request of a bucket without an open window opens one.
Opens(b) ==
  /\ CountsCheck
  /\ ~Open(Kept, b)
  /\ windows' = With(Kept, b, now, 1)
  /\ Counted(b, now)
  /\ UNCHANGED now

\* Admits one request too many.
MutAdmits(b) ==
  /\ CountsCheck
  /\ Open(Kept, b)
  /\ Kept[b].count <= Limit[b]
  /\ windows' = With(Kept, b, Kept[b].start, Kept[b].count + 1)
  /\ Counted(b, Kept[b].start)
  /\ UNCHANGED now

Admits(b) ==
  /\ CountsCheck
  /\ Open(Kept, b)
  /\ Kept[b].count < Limit[b]
  /\ windows' = With(Kept, b, Kept[b].start, Kept[b].count + 1)
  /\ Counted(b, Kept[b].start)
  /\ UNCHANGED now

\* What is left of the window of bucket b in table w.
Remaining(w, b) == Window - (now - w[b].start)

Ceil(t) == (t + Ticks - 1) \div Ticks

\* Rounds down, as int() does.
MutRetryAfter(t) == IF t \div Ticks > 1 THEN t \div Ticks ELSE 1

\* retry_after_seconds: whole seconds, rounded up, and never none.
RetryAfter(t) == IF Ceil(t) > 1 THEN Ceil(t) ELSE 1

Refuses(b) ==
  /\ CountsCheck
  /\ Open(Kept, b)
  /\ Kept[b].count >= Limit[b]
  /\ windows' = Kept
  /\ waiting' = [waiting EXCEPT ![b] = now + Ticks * RetryAfter(Remaining(Kept, b))]
  /\ UNCHANGED <<now, admitted>>

Check(b) == Opens(b) \/ Admits(b) \/ Refuses(b)

Tick ==
  /\ now < MaxTime
  /\ now' = now + 1
  /\ UNCHANGED <<windows, checks, admitted, waiting>>

Next == Tick \/ \E b \in Buckets : Check(b)

Spec == Init /\ [][Next]_vars

----------------------------------------------------------------------------
(* Properties.                                                             *)

Admission == [at : 0..MaxTime, start : 0..MaxTime]

\* The type invariant: entries are windows that opened in the past.
TypeOK ==
  /\ now \in 0..MaxTime
  /\ DOMAIN windows \subseteq Buckets
  /\ \A b \in DOMAIN windows :
       windows[b] \in [start : 0..now, count : 1..Limit[b]]
  /\ checks \in 0..PruneEvery - 1
  /\ admitted \in [Buckets -> Seq(Admission)]
  /\ waiting \in [Buckets -> Nat]

\* No interval as long as a window admits more than two windows' worth, wherever
\* it lies and whatever was pruned meanwhile: a request and the one that comes two
\* limits later are a window apart.
TwiceLimit ==
  \A b \in Buckets : \A i, j \in DOMAIN admitted[b] :
    i + 2 * Limit[b] <= j => admitted[b][i].at + Window <= admitted[b][j].at

\* Retry-After is honest although it is rounded: a client that was refused and
\* waits as many seconds as it was told finds no window of its bucket in its way,
\* unless another request opened one meanwhile; and it is told less than a second
\* more than what was left of the window that refused it.
RetryAfterHonest ==
  \A b \in Buckets :
    waiting[b] # 0 /\ Open(windows, b) =>
      /\ now < waiting[b]
      /\ waiting[b] - (windows[b].start + Window) \in 0..Ticks - 1

\* The limiter with its table and its pruning keeps the promise of
\* FixedWindow: pruning never opens a window early or forgets a count.
Promise == INSTANCE FixedWindow WITH
  used <- [b \in Buckets |-> IF Open(windows, b) THEN windows[b].count ELSE 0],
  left <- [b \in Buckets |->
             IF Open(windows, b) THEN Remaining(windows, b) ELSE 0]

WindowKept == Promise!Spec
=============================================================================
