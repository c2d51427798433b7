----------------------------- MODULE AIJobQueue -----------------------------
(***************************************************************************)
(* The durable AI job queue: the rows of table ai_jobs, the API sessions   *)
(* that enqueue and cancel jobs, and the worker processes that claim them, *)
(* execute them and mark the outcome                                       *)
(* (backend/app/services/job_queue.py, workers/job_queue.py, api/jobs.py). *)
(*                                                                         *)
(* Every session reads a row in one step and commits in a later one.  The  *)
(* database runs READ COMMITTED and the ORM emits an UPDATE by primary key *)
(* of the changed columns only, with no version check: a commit may        *)
(* overwrite a row that changed since it was read.  Only claim_next_job    *)
(* reads with a row lock.  The work done between claim and mark is left    *)
(* open here; JobPipeline fills it in.                                     *)
(***************************************************************************)
EXTENDS Naturals, Sequences

CONSTANTS
  Submitters,    \* API sessions that enqueue jobs
  Cancellers,    \* API sessions that call POST /jobs/{id}/cancel
  Workers,       \* worker processes running run_job_queue_loop
  TailorJobs,    \* tailor jobs, one per dedupe_key
  EvaluateJobs,  \* evaluate jobs, one per dedupe_key
  NoJob,         \* job of an idle worker or a closed session
  MaxAttempts,   \* ai_jobs.max_attempts
  MaxRequests,   \* bound: API calls that open a session
  MaxCrashes     \* bound: worker crashes

Jobs == TailorJobs \cup EvaluateJobs
Clients == Submitters \cup Cancellers
Sessions == Clients \cup Workers

ASSUME JobsAssumption ==
  /\ TailorJobs \cap EvaluateJobs = {}
  /\ NoJob \notin Jobs
ASSUME ActorsAssumption == Clients \cap Workers = {}
ASSUME BoundsAssumption ==
  /\ MaxAttempts \in Nat \ {0}
  /\ MaxRequests \in Nat
  /\ MaxCrashes \in Nat

VARIABLES
  row,       \* ai_jobs, by dedupe_key
  due,       \* jobs whose run_after has passed, by run_after
  sess,      \* what each session has read and is about to commit
  worker,    \* where each worker process is, and its claimed job
  locked,    \* rows each worker holds FOR UPDATE
  requests,  \* API calls made so far
  crashes,   \* worker crashes so far
  lost       \* history: jobs overwritten by a commit of a stale read

vars == <<row, due, sess, worker, locked, requests, crashes, lost>>

Claimable == {"queued", "retry_wait"}
Terminal  == {"succeeded", "failed", "cancelled"}
Active    == Claimable \cup {"running", "cancel_requested"}
Statuses  == Active \cup Terminal \cup {"absent"}

Absent == [status |-> "absent", attempts |-> 0, finished |-> FALSE]
Closed == [op |-> "none", job |-> NoJob, snap |-> Absent]
Idle   == [pc |-> "idle", job |-> NoJob]

Ops == {"none", "insert", "requeue", "cancel", "succeed", "fail"}
Pcs == {"idle", "claim", "run", "handed", "ok", "err", "mark"}

----------------------------------------------------------------------------
(* The column updates of the queue service, on the row a session has read. *)

\* A requeue that leaves finished_at as it was.
MutKeepFinished(r) == [r EXCEPT !.status = "queued"]

SetQueued(r) == [r EXCEPT !.status = "queued", !.finished = FALSE]

SetTerminal(r, s) == [r EXCEPT !.status = s, !.finished = TRUE]

SetRetryWait(r) == [r EXCEPT !.status = "retry_wait", !.finished = FALSE]

SetRunning(r) == [r EXCEPT !.status = "running", !.attempts = @ + 1]

SetCancelled(r) ==
  IF r.status \in Claimable
    THEN [r EXCEPT !.status = "cancelled", !.finished = TRUE]
    ELSE [r EXCEPT !.status = "cancel_requested"]

\* Gives up one attempt early.
MutFailEarly(r) ==
  IF r.status = "cancel_requested" THEN SetTerminal(r, "cancelled")
  ELSE IF r.attempts + 1 < MaxAttempts THEN SetRetryWait(r)
  ELSE SetTerminal(r, "failed")

\* A failure that overlooks a pending cancel.
MutFailForgetsCancel(r) ==
  IF r.attempts < MaxAttempts THEN SetRetryWait(r) ELSE SetTerminal(r, "failed")

SetFailed(r) ==
  IF r.status = "cancel_requested" THEN SetTerminal(r, "cancelled")
  ELSE IF r.attempts < MaxAttempts THEN SetRetryWait(r)
  ELSE SetTerminal(r, "failed")

\* What a commit does to the stored row cur, when the session read snap and
\* turned it into new: only changed columns are written, attempts by the
\* claim alone, and finished_at = now always differs from what was read.
Flush(cur, snap, new) ==
  [status   |-> IF new.status = snap.status THEN cur.status ELSE new.status,
   attempts |-> cur.attempts,
   finished |-> new.finished \/ (cur.finished /\ ~snap.finished)]

----------------------------------------------------------------------------
(* run_after: a job is in due once its run_after has passed; its place is  *)
(* that of its run_after among the others.                                 *)

IsDue(j) == \E i \in DOMAIN due : due[i] = j

Without(j) ==
  IF IsDue(j)
    THEN LET i == CHOOSE i \in DOMAIN due : due[i] = j
         IN  SubSeq(due, 1, i - 1) \o SubSeq(due, i + 1, Len(due))
    ELSE due

DueNow(j) == due' = Append(Without(j), j)

IsFirst(j, S) ==
  \E i \in DOMAIN due :
    /\ due[i] = j
    /\ \A k \in DOMAIN due : due[k] \in S => i <= k

LockedRows == UNION {locked[w] : w \in Workers}

Init ==
  /\ row = [j \in Jobs |-> Absent]
  /\ due = <<>>
  /\ sess = [s \in Sessions |-> Closed]
  /\ worker = [w \in Workers |-> Idle]
  /\ locked = [w \in Workers |-> {}]
  /\ requests = 0
  /\ crashes = 0
  /\ lost = {}

\* Session s has read the row of job j and will commit operation op on it.
Opens(s, j, op) ==
  /\ sess[s] = Closed
  /\ sess' = [sess EXCEPT ![s] = [op |-> op, job |-> j, snap |-> row[j]]]

\* A commit that forgets that the row may be locked.
MutCommitIgnoresLocks(s, new) ==
  LET j == sess[s].job IN
  /\ row' = [row EXCEPT ![j] = Flush(@, sess[s].snap, new)]
  /\ lost' = IF row[j] = sess[s].snap THEN lost ELSE lost \cup {j}
  /\ sess' = [sess EXCEPT ![s] = Closed]

\* Session s commits new for the row it read: it waits for a row lock, then
\* writes whatever the row has become meanwhile.
Commits(s, new) ==
  LET j == sess[s].job IN
  /\ j \notin LockedRows
  /\ row' = [row EXCEPT ![j] = Flush(@, sess[s].snap, new)]
  /\ lost' = IF row[j] = sess[s].snap THEN lost ELSE lost \cup {j}
  /\ sess' = [sess EXCEPT ![s] = Closed]

----------------------------------------------------------------------------
(* Enqueueing.  The other outcomes of the two functions leave the columns  *)
(* modelled here alone: a merge of the payload of a waiting job, or a      *)
(* reference to the job as it stands.                                      *)

EnqueueRead(s, j, revivable) ==
  \/ row[j].status = "absent" /\ Opens(s, j, "insert")
  \/ row[j].status \in revivable /\ Opens(s, j, "requeue")

\* A terminal tailor job is put back only while its analysis has no resume.
EnqueueTailoring(s, j, hasResume) ==
  /\ j \in TailorJobs
  /\ ~hasResume
  /\ EnqueueRead(s, j, Terminal)

EnqueueEvaluate(s, j) ==
  /\ j \in EvaluateJobs
  /\ EnqueueRead(s, j, {"failed", "cancelled"})

\* A second insert of a dedupe_key violates uq_ai_jobs_dedupe_key: the session
\* rolls back and returns the existing job.
InsertCommit(s) ==
  LET j == sess[s].job IN
  /\ sess[s].op = "insert"
  /\ IF row[j].status = "absent"
       THEN row' = [row EXCEPT ![j] = SetQueued(Absent)] /\ DueNow(j)
       ELSE UNCHANGED <<row, due>>
  /\ sess' = [sess EXCEPT ![s] = Closed]
  /\ UNCHANGED <<worker, locked, requests, crashes, lost>>

RequeueCommit(s) ==
  /\ sess[s].op = "requeue"
  /\ Commits(s, SetQueued(sess[s].snap))
  /\ DueNow(sess[s].job)
  /\ UNCHANGED <<worker, locked, requests, crashes>>

----------------------------------------------------------------------------
(* Cancelling.                                                             *)

\* Other statuses are answered without a write.
CancelRead(s, j) ==
  /\ row[j].status \in Claimable \cup {"running"}
  /\ Opens(s, j, "cancel")

CancelCommit(s) ==
  /\ sess[s].op = "cancel"
  /\ Commits(s, SetCancelled(sess[s].snap))
  /\ UNCHANGED <<due, worker, locked, requests, crashes>>

----------------------------------------------------------------------------
(* Workers.                                                                *)

\* Claiming without SKIP LOCKED.
MutSelectLocked(w) ==
  LET found == {j \in Jobs : row[j].status \in Claimable /\ IsDue(j)} IN
  /\ worker[w] = Idle
  /\ \E j \in found :
       /\ IsFirst(j, found)
       /\ worker' = [worker EXCEPT ![w] = [pc |-> "claim", job |-> j]]
  /\ locked' = [locked EXCEPT ![w] = found]
  /\ UNCHANGED <<row, due, sess, requests, crashes, lost>>

\* The query locks every claimable row it returns, not only the first, and
\* skips the rows another worker has locked.  An empty result is a poll that
\* changes nothing.
ClaimSelect(w) ==
  LET found ==
        {j \in Jobs : row[j].status \in Claimable /\ IsDue(j)} \ LockedRows
  IN
  /\ worker[w] = Idle
  /\ \E j \in found :
       /\ IsFirst(j, found)
       /\ worker' = [worker EXCEPT ![w] = [pc |-> "claim", job |-> j]]
  /\ locked' = [locked EXCEPT ![w] = found]
  /\ UNCHANGED <<row, due, sess, requests, crashes, lost>>

ClaimCommit(w) ==
  LET j == worker[w].job IN
  /\ worker[w].pc = "claim"
  /\ row' = [row EXCEPT ![j] = SetRunning(@)]
  /\ locked' = [locked EXCEPT ![w] = {}]
  /\ worker' = [worker EXCEPT ![w].pc = "run"]
  /\ UNCHANGED <<due, sess, requests, crashes, lost>>

\* _execute_claimed_job returns a result or raises; a tailor job that an
\* evaluation enqueues is committed before.
Execute(w, outcome) ==
  /\ worker[w].pc \in {"run", "handed"}
  /\ sess[w] = Closed
  /\ outcome \in {"ok", "err"}
  /\ worker' = [worker EXCEPT ![w].pc = outcome]
  /\ UNCHANGED <<row, due, sess, locked, requests, crashes, lost>>

\* An exception of the handler leaves the job unmarked.
MutMarkRead(w) ==
  /\ worker[w].pc = "ok"
  /\ Opens(w, worker[w].job, "succeed")
  /\ worker' = [worker EXCEPT ![w].pc = "mark"]
  /\ UNCHANGED <<row, due, locked, requests, crashes, lost>>

\* mark_job_succeeded and mark_job_failed read the row in a fresh session.
MarkRead(w) ==
  /\ worker[w].pc \in {"ok", "err"}
  /\ Opens(w, worker[w].job, IF worker[w].pc = "ok" THEN "succeed" ELSE "fail")
  /\ worker' = [worker EXCEPT ![w].pc = "mark"]
  /\ UNCHANGED <<row, due, locked, requests, crashes, lost>>

SucceedCommit(w) ==
  /\ sess[w].op = "succeed"
  /\ Commits(w, SetTerminal(sess[w].snap, "succeeded"))
  /\ worker' = [worker EXCEPT ![w] = Idle]
  /\ UNCHANGED <<due, locked, requests, crashes>>

\* A retry moves run_after into the future.
FailCommit(w) ==
  LET new == SetFailed(sess[w].snap) IN
  /\ sess[w].op = "fail"
  /\ Commits(w, new)
  /\ due' = IF new.status = "retry_wait" THEN Without(sess[w].job) ELSE due
  /\ worker' = [worker EXCEPT ![w] = Idle]
  /\ UNCHANGED <<locked, requests, crashes>>

\* The backoff of a retry is over.
BackoffElapses(j) ==
  /\ row[j].status # "absent"
  /\ ~IsDue(j)
  /\ due' = Append(due, j)
  /\ UNCHANGED <<row, sess, worker, locked, requests, crashes, lost>>

\* A worker process dies and is started again: its transaction is rolled
\* back and nothing of what it was doing is remembered.
Crash(w) ==
  /\ worker[w] # Idle
  /\ crashes < MaxCrashes
  /\ crashes' = crashes + 1
  /\ worker' = [worker EXCEPT ![w] = Idle]
  /\ sess' = [sess EXCEPT ![w] = Closed]
  /\ locked' = [locked EXCEPT ![w] = {}]
  /\ UNCHANGED <<row, due, requests, lost>>

----------------------------------------------------------------------------

CountsRequest ==
  /\ requests < MaxRequests
  /\ requests' = requests + 1

Submit(s, j, hasResume) ==
  /\ CountsRequest
  /\ EnqueueTailoring(s, j, hasResume) \/ EnqueueEvaluate(s, j)
  /\ UNCHANGED <<row, due, worker, locked, crashes, lost>>

Cancel(s, j) ==
  /\ CountsRequest
  /\ CancelRead(s, j)
  /\ UNCHANGED <<row, due, worker, locked, crashes, lost>>

\* An evaluation that routes to tailoring enqueues the tailor job itself, once.
Handoff(w, j, hasResume) ==
  /\ worker[w].pc = "run"
  /\ worker[w].job \in EvaluateJobs
  /\ EnqueueTailoring(w, j, hasResume)
  /\ worker' = [worker EXCEPT ![w].pc = "handed"]
  /\ UNCHANGED <<row, due, locked, requests, crashes, lost>>

ClientStep ==
  \/ \E s \in Submitters, j \in Jobs, b \in BOOLEAN : Submit(s, j, b)
  \/ \E s \in Cancellers, j \in Jobs : Cancel(s, j)

CommitStep(s) ==
  InsertCommit(s) \/ RequeueCommit(s) \/ CancelCommit(s)

WorkerStep(w) ==
  \/ ClaimSelect(w) \/ ClaimCommit(w)
  \/ \E outcome \in {"ok", "err"} : Execute(w, outcome)
  \/ MarkRead(w) \/ SucceedCommit(w) \/ FailCommit(w)

Next ==
  \/ ClientStep
  \/ \E s \in Sessions : CommitStep(s)
  \/ \E w \in Workers : WorkerStep(w)
  \/ \E w \in Workers, j \in TailorJobs, b \in BOOLEAN : Handoff(w, j, b)
  \/ \E j \in Jobs : BackoffElapses(j)
  \/ \E w \in Workers : Crash(w)

Spec == Init /\ [][Next]_vars

\* A worker process polls for ever and a request handler runs to its end; the
\* clock advances.  Nobody is bound to call the API, and a crash is not fair.
Fairness ==
  /\ \A s \in Sessions : WF_vars(CommitStep(s))
  /\ \A w \in Workers : WF_vars(WorkerStep(w))
  /\ \A j \in Jobs : WF_vars(BackoffElapses(j))

FairSpec == Spec /\ Fairness

----------------------------------------------------------------------------
(* Properties.                                                             *)

Row == [status : Statuses, attempts : Nat, finished : BOOLEAN]

\* The type invariant: every row, session and worker keeps its shape.
TypeOK ==
  /\ row \in [Jobs -> Row]
  /\ due \in Seq(Jobs)
  /\ sess \in [Sessions -> [op : Ops, job : Jobs \cup {NoJob}, snap : Row]]
  /\ worker \in [Workers -> [pc : Pcs, job : Jobs \cup {NoJob}]]
  /\ locked \in [Workers -> SUBSET Jobs]
  /\ requests \in 0..MaxRequests
  /\ crashes \in 0..MaxCrashes
  /\ lost \subseteq Jobs

\* claim_next_job (FOR UPDATE SKIP LOCKED): two workers never hold the same
\* row, and a row between the select and the commit of its claim is still
\* claimable, so that no claim overwrites a cancel or another claim.
LockDiscipline ==
  /\ \A v, w \in Workers : v # w => locked[v] \cap locked[w] = {}
  /\ \A w \in Workers : \A j \in locked[w] : row[j].status \in Claimable
  /\ \A w \in Workers : worker[w].pc = "claim" => worker[w].job \in locked[w]

Executes(w, j) ==
  /\ worker[w].job = j
  /\ worker[w].pc \in {"run", "handed", "ok", "err", "mark"}

(* What the safety properties rest on. *)

\* An open session names the job it will write and has read a row the operation
\* applies to; a session marks an outcome exactly while its worker does.
SessionInv ==
  \A s \in Sessions :
    /\ sess[s] = Closed \/ (sess[s].op # "none" /\ sess[s].job \in Jobs)
    /\ sess[s].op = "requeue" => sess[s].snap.status \in Terminal
    /\ sess[s].op = "cancel" => sess[s].snap.status \in Claimable \cup {"running"}
    /\ sess[s].op \in {"succeed", "fail"} =>
         s \in Workers /\ worker[s].pc = "mark" /\ sess[s].job = worker[s].job

WorkerInv ==
  \A w \in Workers :
    worker[w] = Idle \/ (worker[w].pc # "idle" /\ worker[w].job \in Jobs)

\* An executing worker finds its job running or being cancelled, unless an
\* update of the row was lost.
ExecutedIsRunning ==
  \A j \in Jobs \ lost : \A w \in Workers :
    Executes(w, j) => row[j].status \in {"running", "cancel_requested"}

\* No row loses attempts while a session looks at it.
AttemptsGrow ==
  /\ \A j \in Jobs : row[j].status = "absent" => row[j] = Absent
  /\ \A s \in Sessions :
       sess[s].op # "none" => row[sess[s].job].attempts >= sess[s].snap.attempts

\* Two workers never execute the same job, unless a session that had read an
\* older version of its row overwrote it (the requeue of enqueue_*_job, the
\* cancel endpoint or a mark): the lost update is the only way to a double
\* execution, whatever the order of enqueues, cancels, retries and crashes.
Exclusive ==
  \A j \in Jobs \ lost : \A v, w \in Workers :
    Executes(v, j) /\ Executes(w, j) => v = w

\* finished_at is set exactly while the job is terminal (_set_queued_fields,
\* _set_retry_wait_fields and cancel_job keep the two columns together),
\* unless an update was lost.
FinishedIffTerminal ==
  \A j \in Jobs \ lost : row[j].finished <=> row[j].status \in Terminal

\* A job fails for good only after max_attempts claims, even when updates were
\* lost: attempts is written by the claim alone.
FailedExhausted ==
  \A j \in Jobs : row[j].status = "failed" => row[j].attempts >= MaxAttempts

\* The queue keeps the promise of JobLifecycle for every job whose updates are
\* not lost: a claim takes only waiting jobs and counts one attempt, a retry
\* needs an attempt left, a cancel request is followed by cancelled or
\* succeeded and never by a retry, a terminal job only goes back to queued.
Lifecycle == INSTANCE JobLifecycle WITH
  status   <- [j \in Jobs |-> IF j \in lost THEN "untracked" ELSE row[j].status],
  attempts <- [j \in Jobs |-> IF j \in lost THEN 0 ELSE row[j].attempts]

LifecycleKept == Lifecycle!Spec

\* Every job that is waiting, running or being cancelled reaches a terminal
\* status, when no worker dies and no update on its row is lost.
Settles ==
  \A j \in Jobs :
    row[j].status \in Active ~> (row[j].status \in Terminal \/ j \in lost)

\* README: resume generation is "not lost on restart".  A running job is
\* eventually finished or offered to a worker again.
NotLostOnRestart ==
  \A j \in Jobs :
    row[j].status = "running" ~> row[j].status \in Terminal \cup Claimable

\* api/jobs.py: cancel_requested is "the durable signal workers should
\* observe".  A requested cancel is eventually answered by a final status.
CancelAnswered ==
  \A j \in Jobs :
    row[j].status = "cancel_requested" ~> row[j].status # "cancel_requested"
=============================================================================
