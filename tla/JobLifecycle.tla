---------------------------- MODULE JobLifecycle ----------------------------
(***************************************************************************)
(* What the durable AI job queue promises about one job at a time: the     *)
(* edges its status may follow and the moments its attempt counter moves.  *)
(* It says nothing of sessions, workers or locks.  A job whose row was     *)
(* overwritten by a session that had read an older version of it leaves    *)
(* the promise: its status becomes Untracked.                              *)
(***************************************************************************)
EXTENDS Naturals

CONSTANTS
  Jobs,         \* jobs, one per dedupe_key
  MaxAttempts   \* ai_jobs.max_attempts

VARIABLES
  status,       \* status of each job
  attempts      \* times each job was claimed

lifecycleVars == <<status, attempts>>

Claimable == {"queued", "retry_wait"}
Terminal  == {"succeeded", "failed", "cancelled"}
Active    == Claimable \cup {"running", "cancel_requested"}
Untracked == "untracked"

Moves(j, from, to) ==
  /\ status[j] \in from
  /\ status' = [status EXCEPT ![j] = to]

KeepsAttempts == UNCHANGED attempts

Init ==
  /\ status = [j \in Jobs |-> "absent"]
  /\ attempts = [j \in Jobs |-> 0]

\* A first request creates the job; a later one may revive a terminal job.
Submit(j) ==
  /\ Moves(j, {"absent"} \cup Terminal, "queued")
  /\ KeepsAttempts

\* Only a claimable job is claimed, and each claim is one attempt.
Claim(j) ==
  /\ Moves(j, Claimable, "running")
  /\ attempts' = [attempts EXCEPT ![j] = @ + 1]

\* Cancelling takes a waiting job out at once and flags a running one.
Cancel(j) ==
  /\ \/ Moves(j, Claimable, "cancelled")
     \/ Moves(j, {"running"}, "cancel_requested")
  /\ KeepsAttempts

Succeed(j) ==
  /\ Moves(j, {"running", "cancel_requested"}, "succeeded")
  /\ KeepsAttempts

\* A failed attempt is retried while attempts remain, unless a cancel is
\* pending: then the job is cancelled and never retried.
Fail(j) ==
  /\ \/ Moves(j, {"cancel_requested"}, "cancelled")
     \/ Moves(j, {"running"}, "retry_wait") /\ attempts[j] < MaxAttempts
     \/ Moves(j, {"running"}, "failed") /\ attempts[j] >= MaxAttempts
  /\ KeepsAttempts

Lose(j) ==
  /\ status' = [status EXCEPT ![j] = Untracked]
  /\ attempts' = [attempts EXCEPT ![j] = 0]

Next ==
  \E j \in Jobs :
    Submit(j) \/ Claim(j) \/ Cancel(j) \/ Succeed(j) \/ Fail(j) \/ Lose(j)

Spec == Init /\ [][Next]_lifecycleVars
=============================================================================
