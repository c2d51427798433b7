----------------------------- MODULE FixedWindow -----------------------------
(***************************************************************************)
(* What the rate limiter promises for each bucket, a route and a client: a *)
(* window opens with the first request, admits at most Limit requests and  *)
(* closes after Window ticks, by time alone.  It says nothing of how      *)
(* windows are stored or when they are thrown away.                        *)
(***************************************************************************)
EXTENDS Naturals

CONSTANTS
  Buckets,   \* pairs of a route key and a client
  Limit,     \* requests a window admits, per bucket
  Window     \* length of a window, in ticks of the clock

VARIABLES
  used,   \* requests admitted in the open window of a bucket, 0 if none is open
  left    \* ticks until it closes

windowVars == <<used, left>>

Init ==
  /\ used = [b \in Buckets |-> 0]
  /\ left = [b \in Buckets |-> 0]

Admit(b) ==
  /\ used[b] < Limit[b]
  /\ used' = [used EXCEPT ![b] = @ + 1]
  /\ left' = [left EXCEPT ![b] = IF used[b] = 0 THEN Window ELSE @]

Tick ==
  /\ left' = [b \in Buckets |-> IF left[b] > 1 THEN left[b] - 1 ELSE 0]
  /\ used' = [b \in Buckets |-> IF left[b] > 1 THEN used[b] ELSE 0]

Next == Tick \/ \E b \in Buckets : Admit(b)

Spec == Init /\ [][Next]_windowVars
=============================================================================
