-------------------------- MODULE JobPipelineProofs ---------------------------
(***************************************************************************)
(* Theorems about AIJobQueue and JobPipeline for every set of sessions,    *)
(* workers and jobs, every way evaluations lead to analyses, and every     *)
(* bound.  Part 1 and part 2 are about the specification of the queue,     *)
(* Spec; part 3 shows that the pipeline implements the queue, so that all  *)
(* of it holds there too, and that rows, files and outcomes of the         *)
(* pipeline agree.                                                         *)
(***************************************************************************)
EXTENDS JobPipeline, FiniteSetTheorems, SequenceTheorems, TLAPS

(***************************************************************************)
(* Part 1: the queue.                                                      *)
(***************************************************************************)
----------------------------------------------------------------------------
(* Type correctness.                                                       *)

\* The column updates keep a row a row.
LEMMA RowUpdates ==
  ASSUME NEW r \in Row, NEW c \in Row, NEW s \in Statuses
  PROVE  /\ SetQueued(r) \in Row
         /\ SetTerminal(r, s) \in Row
         /\ SetRetryWait(r) \in Row
         /\ SetRunning(r) \in Row
         /\ SetCancelled(r) \in Row
         /\ SetFailed(r) \in Row
         /\ Flush(c, r, SetQueued(r)) \in Row
         /\ Flush(c, r, SetTerminal(r, s)) \in Row
         /\ Flush(c, r, SetCancelled(r)) \in Row
         /\ Flush(c, r, SetFailed(r)) \in Row
<1>1. /\ SetQueued(r) \in Row /\ SetTerminal(r, s) \in Row
      /\ SetRetryWait(r) \in Row /\ SetRunning(r) \in Row
  <2>1. {"queued", "retry_wait", "running"} \subseteq Statuses
    BY DEF Statuses, Active, Claimable
  <2>2. SetQueued(r) \in Row
    BY <2>1 DEF Row, SetQueued
  <2>3. SetTerminal(r, s) \in Row
    BY DEF Row, SetTerminal
  <2>4. SetRetryWait(r) \in Row
    BY <2>1 DEF Row, SetRetryWait
  <2>5. SetRunning(r) \in Row
    <3>1. r.attempts + 1 \in Nat
      BY DEF Row
    <3>2. ASSUME NEW n \in Nat
          PROVE  [r EXCEPT !.status = "running", !.attempts = n] \in Row
      BY <2>1 DEF Row
    <3>. QED BY <3>1, <3>2 DEF SetRunning
  <2>. QED BY <2>2, <2>3, <2>4, <2>5
<1>2. SetCancelled(r) \in Row
  BY DEF Row, SetCancelled, Statuses, Active, Claimable, Terminal
<1>3. SetFailed(r) \in Row
  BY DEF Row, SetFailed, SetTerminal, SetRetryWait, Statuses, Active,
         Claimable, Terminal
<1>4. ASSUME NEW n \in Row PROVE Flush(c, r, n) \in Row
  BY <1>4 DEF Row, Flush
<1>. QED BY <1>1, <1>2, <1>3, <1>4

LEMMA DueUpdates ==
  ASSUME due \in Seq(Jobs), NEW j \in Jobs
  PROVE  Without(j) \in Seq(Jobs) /\ Append(Without(j), j) \in Seq(Jobs)
<1>1. Without(j) \in Seq(Jobs)
  <2>1. CASE IsDue(j)
    <3>1. PICK i \in DOMAIN due : i = CHOOSE k \in DOMAIN due : due[k] = j
      BY <2>1 DEF IsDue
    <3>2. i \in 1..Len(due) /\ Len(due) \in Nat
      BY <3>1
    <3>3. SubSeq(due, 1, i - 1) \in Seq(Jobs)
      BY <3>2, SubSeqProperties
    <3>4. SubSeq(due, i + 1, Len(due)) \in Seq(Jobs)
      BY <3>2, SubSeqProperties
    <3>. QED BY <2>1, <3>1, <3>3, <3>4 DEF Without
  <2>2. CASE ~IsDue(j)
    BY <2>2 DEF Without
  <2>. QED BY <2>1, <2>2
<1>. QED BY <1>1

LEMMA InitialRecords ==
  /\ Absent \in Row
  /\ Closed \in [op : Ops, job : Jobs \cup {NoJob}, snap : Row]
  /\ Idle \in [pc : Pcs, job : Jobs \cup {NoJob}]
<1>1. Absent \in Row
  BY DEF Absent, Row, Statuses
<1>. QED BY <1>1 DEF Closed, Ops, Idle, Pcs

LEMMA InitTypeOK == Init => TypeOK
<1>1. <<>> \in Seq(Jobs)
  OBVIOUS
<1>. QED BY <1>1, InitialRecords, BoundsAssumption DEF Init, TypeOK

SessRecord == [op : Ops, job : Jobs \cup {NoJob}, snap : Row]
WorkerRecord == [pc : Pcs, job : Jobs \cup {NoJob}]

\* The type invariant and the shape of sessions and workers, which hold each
\* other up.
Shape == TypeOK /\ SessionInv /\ WorkerInv

\* Opening a session.
LEMMA OpenShape ==
  ASSUME Shape, NEW s \in Sessions, NEW j \in Jobs, NEW op \in Ops \ {"none"},
         Opens(s, j, op), worker' \in [Workers -> WorkerRecord],
         op = "requeue" => row[j].status \in Terminal,
         op = "cancel" => row[j].status \in Claimable \cup {"running"},
         op \in {"succeed", "fail"} =>
           s \in Workers /\ worker'[s].pc = "mark" /\ worker'[s].job = j,
         \A w \in Workers : w # s => worker'[w] = worker[w]
  PROVE  sess' \in [Sessions -> SessRecord] /\ SessionInv'
<1>1. [op |-> op, job |-> j, snap |-> row[j]] \in SessRecord
  BY DEF Shape, TypeOK, SessRecord
<1>2. sess \in [Sessions -> SessRecord]
  BY DEF Shape, TypeOK, SessRecord
<1>3. sess' \in [Sessions -> SessRecord]
  BY <1>1, <1>2 DEF Opens
<1>4. sess'[s] = [op |-> op, job |-> j, snap |-> row[j]]
  BY <1>2 DEF Opens
<1>5. \A x \in Sessions : x # s => sess'[x] = sess[x]
  BY <1>2 DEF Opens
<1>6. SessionInv'
  BY <1>4, <1>5 DEF Shape, SessionInv
<1>. QED BY <1>3, <1>6

\* Closing a session.
LEMMA CloseShape ==
  ASSUME Shape, NEW s \in Sessions, sess' = [sess EXCEPT ![s] = Closed],
         \A w \in Workers : w # s => worker'[w] = worker[w]
  PROVE  sess' \in [Sessions -> SessRecord] /\ SessionInv'
<1>1. sess \in [Sessions -> SessRecord]
  BY DEF Shape, TypeOK, SessRecord
<1>2. sess' \in [Sessions -> SessRecord]
  BY <1>1, InitialRecords DEF SessRecord
<1>3. sess'[s] = Closed /\ \A x \in Sessions : x # s => sess'[x] = sess[x]
  BY <1>1
<1>4. SessionInv'
  BY <1>3 DEF Shape, SessionInv, Closed
<1>. QED BY <1>2, <1>4

\* Committing what a session has made of the row it read.
LEMMA CommitShape ==
  ASSUME Shape, NEW s \in Sessions, sess[s].op # "none", NEW new \in Row,
         Commits(s, new)
  PROVE  row' \in [Jobs -> Row] /\ lost' \subseteq Jobs /\ sess[s].job \in Jobs
<1>1. sess[s].job \in Jobs /\ sess[s].snap \in Row /\ row[sess[s].job] \in Row
  BY DEF Shape, SessionInv, Closed, TypeOK
<1>2. Flush(row[sess[s].job], sess[s].snap, new) \in Row
  BY <1>1 DEF Row, Flush
<1>. QED BY <1>1, <1>2 DEF Commits, Shape, TypeOK

\* What sessions read and write are rows.
LEMMA SnapshotUpdates ==
  ASSUME Shape, NEW s \in Sessions
  PROVE  /\ SetQueued(sess[s].snap) \in Row
         /\ SetTerminal(sess[s].snap, "succeeded") \in Row
         /\ SetCancelled(sess[s].snap) \in Row
         /\ SetFailed(sess[s].snap) \in Row
<1>1. sess[s].snap \in Row /\ "succeeded" \in Statuses
  BY DEF Shape, TypeOK, Statuses, Terminal
<1>. QED BY <1>1, RowUpdates

LEMMA InitShape == Init => Shape
<1>1. ASSUME Init PROVE SessionInv /\ WorkerInv
  BY <1>1 DEF Init, SessionInv, WorkerInv, Closed, Idle
<1>. QED BY <1>1, InitTypeOK DEF Shape

LEMMA NextShape == Shape /\ [Next]_vars => Shape'
<1>. SUFFICES ASSUME Shape, [Next]_vars PROVE Shape'
  OBVIOUS
<1>. USE DEF Shape
<1>1. Workers \subseteq Sessions /\ Submitters \subseteq Sessions /\ Cancellers \subseteq Sessions
  BY DEF Sessions, Clients
<1>2. ASSUME NEW s \in Submitters, NEW j \in Jobs, NEW b \in BOOLEAN, Submit(s, j, b)
      PROVE  Shape'
  <2>1. PICK op \in {"insert", "requeue"} :
           Opens(s, j, op) /\ (op = "requeue" => row[j].status \in Terminal)
    BY <1>2 DEF Submit, EnqueueTailoring, EnqueueEvaluate, EnqueueRead, Terminal
  <2>2. UNCHANGED <<row, due, worker, locked, crashes, lost>>
        /\ requests' \in 0..MaxRequests
    BY <1>2, BoundsAssumption DEF Submit, CountsRequest, TypeOK
  <2>3. sess' \in [Sessions -> SessRecord] /\ SessionInv'
    BY <1>1, <2>1, <2>2, OpenShape DEF Ops, TypeOK, WorkerRecord
  <2>. QED BY <2>2, <2>3 DEF TypeOK, WorkerInv, SessRecord
<1>3. ASSUME NEW s \in Cancellers, NEW j \in Jobs, Cancel(s, j)
      PROVE  Shape'
  <2>1. Opens(s, j, "cancel") /\ row[j].status \in Claimable \cup {"running"}
    BY <1>3 DEF Cancel, CancelRead
  <2>2. UNCHANGED <<row, due, worker, locked, crashes, lost>>
        /\ requests' \in 0..MaxRequests
    BY <1>3, BoundsAssumption DEF Cancel, CountsRequest, TypeOK
  <2>3. sess' \in [Sessions -> SessRecord] /\ SessionInv'
    BY <1>1, <2>1, <2>2, OpenShape DEF Ops, TypeOK, WorkerRecord
  <2>. QED BY <2>2, <2>3 DEF TypeOK, WorkerInv, SessRecord
<1>4. ASSUME NEW s \in Sessions, InsertCommit(s)
      PROVE  Shape'
  <2>1. sess[s].job \in Jobs
    BY <1>4 DEF InsertCommit, SessionInv, Closed
  <2>2. SetQueued(Absent) \in Row
    BY InitialRecords, RowUpdates DEF Statuses
  <2>3. row' \in [Jobs -> Row] /\ due' \in Seq(Jobs)
    BY <1>4, <2>1, <2>2, DueUpdates DEF InsertCommit, TypeOK, DueNow
  <2>4. UNCHANGED <<worker, locked, requests, crashes, lost>>
        /\ sess' = [sess EXCEPT ![s] = Closed]
    BY <1>4 DEF InsertCommit
  <2>5. sess' \in [Sessions -> SessRecord] /\ SessionInv'
    BY <2>4, CloseShape
  <2>. QED BY <2>3, <2>4, <2>5 DEF TypeOK, WorkerInv, SessRecord
<1>5. ASSUME NEW s \in Sessions, RequeueCommit(s)
      PROVE  Shape'
  <2>1. row' \in [Jobs -> Row] /\ lost' \subseteq Jobs /\ sess[s].job \in Jobs
    BY <1>5, SnapshotUpdates, CommitShape DEF RequeueCommit
  <2>2. due' \in Seq(Jobs)
    BY <1>5, <2>1, DueUpdates DEF RequeueCommit, TypeOK, DueNow
  <2>3. UNCHANGED <<worker, locked, requests, crashes>>
        /\ sess' = [sess EXCEPT ![s] = Closed]
    BY <1>5 DEF RequeueCommit, Commits
  <2>4. sess' \in [Sessions -> SessRecord] /\ SessionInv'
    BY <2>3, CloseShape
  <2>. QED BY <2>1, <2>2, <2>3, <2>4 DEF TypeOK, WorkerInv, SessRecord
<1>6. ASSUME NEW s \in Sessions, CancelCommit(s)
      PROVE  Shape'
  <2>1. row' \in [Jobs -> Row] /\ lost' \subseteq Jobs
    BY <1>6, SnapshotUpdates, CommitShape DEF CancelCommit
  <2>2. UNCHANGED <<due, worker, locked, requests, crashes>>
        /\ sess' = [sess EXCEPT ![s] = Closed]
    BY <1>6 DEF CancelCommit, Commits
  <2>3. sess' \in [Sessions -> SessRecord] /\ SessionInv'
    BY <2>2, CloseShape
  <2>. QED BY <2>1, <2>2, <2>3 DEF TypeOK, WorkerInv, SessRecord
<1>7. ASSUME NEW w \in Workers, ClaimSelect(w)
      PROVE  Shape'
  <2>1. PICK j \in Jobs : worker' = [worker EXCEPT ![w] = [pc |-> "claim", job |-> j]]
    BY <1>7 DEF ClaimSelect
  <2>2. worker' \in [Workers -> WorkerRecord] /\ WorkerInv'
    BY <2>1 DEF TypeOK, WorkerRecord, Pcs, WorkerInv
  <2>3. locked' \in [Workers -> SUBSET Jobs] /\ worker[w] = Idle
    BY <1>7 DEF ClaimSelect, TypeOK
  <2>4. UNCHANGED <<row, due, sess, requests, crashes, lost>>
    BY <1>7 DEF ClaimSelect
  <2>5. SessionInv'
    BY <2>1, <2>3, <2>4 DEF SessionInv, Idle, TypeOK
  <2>. QED BY <2>2, <2>3, <2>4, <2>5 DEF TypeOK, WorkerRecord
<1>8. ASSUME NEW w \in Workers, ClaimCommit(w)
      PROVE  Shape'
  <2>1. worker[w].pc = "claim" /\ worker[w].job \in Jobs
    BY <1>8 DEF ClaimCommit, WorkerInv, Idle
  <2>2. row' \in [Jobs -> Row]
    BY <1>8, <2>1, RowUpdates DEF ClaimCommit, TypeOK, Statuses
  <2>3. worker' \in [Workers -> WorkerRecord] /\ WorkerInv'
    BY <1>8, <2>1 DEF ClaimCommit, TypeOK, WorkerRecord, Pcs, WorkerInv
  <2>4. locked' \in [Workers -> SUBSET Jobs]
    BY <1>8 DEF ClaimCommit, TypeOK
  <2>5. UNCHANGED <<due, sess, requests, crashes, lost>>
    BY <1>8 DEF ClaimCommit
  <2>6. SessionInv'
    BY <1>8, <2>1, <2>5 DEF ClaimCommit, SessionInv, TypeOK
  <2>. QED BY <2>2, <2>3, <2>4, <2>5, <2>6 DEF TypeOK, WorkerRecord
<1>9. ASSUME NEW w \in Workers, NEW outcome \in {"ok", "err"}, Execute(w, outcome)
      PROVE  Shape'
  <2>1. worker[w].pc \in {"run", "handed"} /\ worker[w].job \in Jobs
    BY <1>9 DEF Execute, WorkerInv, Idle
  <2>2. worker' \in [Workers -> WorkerRecord] /\ WorkerInv'
    BY <1>9, <2>1 DEF Execute, TypeOK, WorkerRecord, Pcs, WorkerInv
  <2>3. UNCHANGED <<row, due, sess, locked, requests, crashes, lost>>
    BY <1>9 DEF Execute
  <2>4. SessionInv'
    BY <1>9, <2>1, <2>3 DEF Execute, SessionInv, TypeOK
  <2>. QED BY <2>2, <2>3, <2>4 DEF TypeOK, WorkerRecord
<1>10. ASSUME NEW w \in Workers, MarkRead(w)
       PROVE  Shape'
  <2>1. worker[w].pc \in {"ok", "err"} /\ worker[w].job \in Jobs
    BY <1>10 DEF MarkRead, WorkerInv, Idle
  <2>2. worker' \in [Workers -> WorkerRecord] /\ WorkerInv'
    BY <1>10, <2>1 DEF MarkRead, TypeOK, WorkerRecord, Pcs, WorkerInv
  <2>3. worker'[w].pc = "mark" /\ worker'[w].job = worker[w].job
        /\ \A v \in Workers : v # w => worker'[v] = worker[v]
    BY <1>10 DEF MarkRead, TypeOK
  <2>4. PICK op \in {"succeed", "fail"} : Opens(w, worker[w].job, op)
    BY <1>10 DEF MarkRead
  <2>5. sess' \in [Sessions -> SessRecord] /\ SessionInv'
    BY <1>1, <2>1, <2>2, <2>3, <2>4, OpenShape DEF Ops
  <2>6. UNCHANGED <<row, due, locked, requests, crashes, lost>>
    BY <1>10 DEF MarkRead
  <2>. QED BY <2>2, <2>5, <2>6 DEF TypeOK, WorkerRecord, SessRecord
<1>11. ASSUME NEW w \in Workers, SucceedCommit(w)
       PROVE  Shape'
  <2>1. row' \in [Jobs -> Row] /\ lost' \subseteq Jobs
    BY <1>1, <1>11, SnapshotUpdates, CommitShape DEF SucceedCommit
  <2>2. UNCHANGED <<due, locked, requests, crashes>>
        /\ sess' = [sess EXCEPT ![w] = Closed]
        /\ worker' = [worker EXCEPT ![w] = Idle]
    BY <1>11 DEF SucceedCommit, Commits
  <2>3. worker' \in [Workers -> WorkerRecord] /\ WorkerInv'
    BY <2>2, InitialRecords DEF TypeOK, WorkerRecord, WorkerInv
  <2>4. sess' \in [Sessions -> SessRecord] /\ SessionInv'
    BY <1>1, <2>2, CloseShape DEF TypeOK
  <2>. QED BY <2>1, <2>2, <2>3, <2>4 DEF TypeOK, WorkerRecord, SessRecord
<1>12. ASSUME NEW w \in Workers, FailCommit(w)
       PROVE  Shape'
  <2>1. row' \in [Jobs -> Row] /\ lost' \subseteq Jobs /\ sess[w].job \in Jobs
    BY <1>1, <1>12, SnapshotUpdates, CommitShape DEF FailCommit
  <2>2. UNCHANGED <<locked, requests, crashes>>
        /\ sess' = [sess EXCEPT ![w] = Closed]
        /\ worker' = [worker EXCEPT ![w] = Idle]
    BY <1>12 DEF FailCommit, Commits
  <2>3. due' \in Seq(Jobs)
    BY <1>12, <2>1, DueUpdates DEF FailCommit, TypeOK
  <2>4. worker' \in [Workers -> WorkerRecord] /\ WorkerInv'
    BY <2>2, InitialRecords DEF TypeOK, WorkerRecord, WorkerInv
  <2>5. sess' \in [Sessions -> SessRecord] /\ SessionInv'
    BY <1>1, <2>2, CloseShape DEF TypeOK
  <2>. QED BY <2>1, <2>2, <2>3, <2>4, <2>5 DEF TypeOK, WorkerRecord, SessRecord
<1>13. ASSUME NEW w \in Workers, NEW j \in TailorJobs, NEW b \in BOOLEAN, Handoff(w, j, b)
       PROVE  Shape'
  <2>1. j \in Jobs /\ worker[w].pc = "run" /\ worker[w].job \in Jobs
    BY <1>13 DEF Handoff, WorkerInv, Idle, Jobs
  <2>2. PICK op \in {"insert", "requeue"} :
           Opens(w, j, op) /\ (op = "requeue" => row[j].status \in Terminal)
    BY <1>13 DEF Handoff, EnqueueTailoring, EnqueueRead
  <2>3. worker' \in [Workers -> WorkerRecord] /\ WorkerInv'
        /\ \A v \in Workers : v # w => worker'[v] = worker[v]
    BY <1>13, <2>1 DEF Handoff, TypeOK, WorkerRecord, Pcs, WorkerInv
  <2>4. sess' \in [Sessions -> SessRecord] /\ SessionInv'
    BY <1>1, <2>1, <2>2, <2>3, OpenShape DEF Ops
  <2>5. UNCHANGED <<row, due, locked, requests, crashes, lost>>
    BY <1>13 DEF Handoff
  <2>. QED BY <2>3, <2>4, <2>5 DEF TypeOK, WorkerRecord, SessRecord
<1>14. ASSUME NEW j \in Jobs, BackoffElapses(j)
       PROVE  Shape'
  <2>1. due' \in Seq(Jobs) /\ UNCHANGED <<row, sess, worker, locked, requests, crashes, lost>>
    BY <1>14 DEF BackoffElapses, TypeOK
  <2>. QED BY <2>1 DEF TypeOK, SessionInv, WorkerInv
<1>15. ASSUME NEW w \in Workers, Crash(w)
       PROVE  Shape'
  <2>1. UNCHANGED <<row, due, requests, lost>> /\ crashes' \in 0..MaxCrashes
        /\ sess' = [sess EXCEPT ![w] = Closed]
        /\ worker' = [worker EXCEPT ![w] = Idle]
        /\ locked' \in [Workers -> SUBSET Jobs]
    BY <1>15, BoundsAssumption DEF Crash, TypeOK
  <2>2. worker' \in [Workers -> WorkerRecord] /\ WorkerInv'
    BY <2>1, InitialRecords DEF TypeOK, WorkerRecord, WorkerInv
  <2>3. sess' \in [Sessions -> SessRecord] /\ SessionInv'
    BY <1>1, <2>1, CloseShape DEF TypeOK
  <2>. QED BY <2>1, <2>2, <2>3 DEF TypeOK, WorkerRecord, SessRecord
<1>16. CASE UNCHANGED vars
  BY <1>16 DEF vars, TypeOK, SessionInv, WorkerInv
<1>. QED
  BY <1>2, <1>3, <1>4, <1>5, <1>6, <1>7, <1>8, <1>9, <1>10, <1>11, <1>12,
     <1>13, <1>14, <1>15, <1>16
  DEF Next, ClientStep, CommitStep, WorkerStep

THEOREM ShapeInvariant == Spec => []Shape
BY InitShape, NextShape, PTL DEF Spec

\* Rows, sessions, workers and locks keep their types, for every number of
\* sessions, workers and jobs.
THEOREM TypeCorrect == Spec => []TypeOK
<1>1. Shape => TypeOK
  BY DEF Shape
<1>. QED BY <1>1, ShapeInvariant, PTL

----------------------------------------------------------------------------
(* Row locks.                                                              *)

\* A commit writes one row, which nobody has locked.
LEMMA CommitFrame ==
  ASSUME Shape, NEW s \in Sessions, sess[s].op # "none", NEW new, Commits(s, new)
  PROVE  /\ sess[s].job \in Jobs
         /\ \A w \in Workers : sess[s].job \notin locked[w]
         /\ \A j \in Jobs : j # sess[s].job => row'[j] = row[j]
         /\ row'[sess[s].job] = Flush(row[sess[s].job], sess[s].snap, new)
<1>1. sess[s].job \in Jobs
  BY DEF Shape, SessionInv, Closed
<1>2. row \in [Jobs -> Row]
  BY DEF Shape, TypeOK
<1>. QED BY <1>1, <1>2 DEF Commits, LockedRows

LEMMA InitLocks == Init => LockDiscipline
BY DEF Init, LockDiscipline, Idle

LEMMA NextLocks == Shape /\ LockDiscipline /\ [Next]_vars => LockDiscipline'
<1>. SUFFICES ASSUME Shape, LockDiscipline, [Next]_vars PROVE LockDiscipline'
  OBVIOUS
<1>. USE DEF LockDiscipline
<1>0. /\ Workers \subseteq Sessions
      /\ worker \in [Workers -> WorkerRecord]
      /\ locked \in [Workers -> SUBSET Jobs]
      /\ row \in [Jobs -> Row]
  BY DEF Sessions, Shape, TypeOK, WorkerRecord
<1>1. ASSUME UNCHANGED <<row, worker, locked>> PROVE LockDiscipline'
  BY <1>1
\* A commit of any session.
<1>2. ASSUME NEW s \in Sessions, sess[s].op # "none", NEW new, Commits(s, new),
             locked' = locked,
             \A w \in Workers : worker'[w] = worker[w] \/ worker'[w] = Idle
      PROVE  LockDiscipline'
  <2>1. \A w \in Workers : \A j \in locked[w] : row'[j] = row[j]
    BY <1>0, <1>2, CommitFrame
  <2>. QED BY <1>2, <2>1 DEF Idle
<1>3. ASSUME NEW s \in Sessions, InsertCommit(s) PROVE LockDiscipline'
  <2>1. sess[s].job \in Jobs
    BY <1>3 DEF InsertCommit, Shape, SessionInv, Closed
  <2>2. \A j \in Jobs : row'[j] = row[j] \/ row[j].status = "absent"
    BY <1>0, <1>3, <2>1 DEF InsertCommit
  <2>3. UNCHANGED <<locked, worker>>
    BY <1>3 DEF InsertCommit
  <2>. QED BY <1>0, <2>2, <2>3 DEF Claimable
<1>4. ASSUME NEW w \in Workers, ClaimSelect(w) PROVE LockDiscipline'
  <2>. DEFINE found ==
         {j \in Jobs : row[j].status \in Claimable /\ IsDue(j)} \ LockedRows
  <2>1. row' = row /\ locked' = [locked EXCEPT ![w] = found]
    BY <1>4 DEF ClaimSelect
  <2>2. PICK j \in found : worker' = [worker EXCEPT ![w] = [pc |-> "claim", job |-> j]]
    BY <1>4 DEF ClaimSelect
  <2>3. \A v \in Workers : locked[v] \cap found = {}
    BY DEF LockedRows
  <2>4. \A k \in found : row[k].status \in Claimable
    OBVIOUS
  <2>. HIDE DEF found
  <2>5. \A u, v \in Workers : u # v => locked'[u] \cap locked'[v] = {}
    BY <1>0, <2>1, <2>3
  <2>6. \A v \in Workers : \A k \in locked'[v] : row'[k].status \in Claimable
    BY <1>0, <2>1, <2>4
  <2>7. \A v \in Workers : worker'[v].pc = "claim" => worker'[v].job \in locked'[v]
    BY <1>0, <2>1, <2>2
  <2>. QED BY <2>5, <2>6, <2>7
<1>5. ASSUME NEW w \in Workers, ClaimCommit(w) PROVE LockDiscipline'
  <2>1. worker[w].pc = "claim" /\ worker[w].job \in locked[w]
    BY <1>5 DEF ClaimCommit
  <2>2. locked' = [locked EXCEPT ![w] = {}] /\ worker' = [worker EXCEPT ![w].pc = "run"]
    BY <1>5 DEF ClaimCommit
  <2>3. \A j \in Jobs : j # worker[w].job => row'[j] = row[j]
    BY <1>0, <1>5 DEF ClaimCommit
  <2>4. \A v \in Workers : v # w => worker[w].job \notin locked[v]
    BY <2>1
  <2>5. \A v \in Workers : \A j \in locked'[v] : row'[j].status \in Claimable
    BY <1>0, <2>2, <2>3, <2>4
  <2>6. \A v \in Workers : worker'[v].pc = "claim" => worker'[v].job \in locked'[v]
    BY <1>0, <2>2 DEF WorkerRecord
  <2>7. \A u, v \in Workers : u # v => locked'[u] \cap locked'[v] = {}
    BY <1>0, <2>2
  <2>. QED BY <2>5, <2>6, <2>7
<1>6. ASSUME NEW w \in Workers, row' = row, locked' = locked,
             NEW pc \in Pcs \ {"claim"}, worker' = [worker EXCEPT ![w].pc = pc]
      PROVE  LockDiscipline'
  BY <1>0, <1>6 DEF WorkerRecord
<1>7. ASSUME NEW w \in Workers, Crash(w) PROVE LockDiscipline'
  <2>1. row' = row /\ locked' = [locked EXCEPT ![w] = {}]
        /\ worker' = [worker EXCEPT ![w] = Idle]
    BY <1>7 DEF Crash
  <2>. QED BY <1>0, <2>1 DEF Idle
<1>8. ASSUME NEW s \in Submitters, NEW j \in Jobs, NEW b \in BOOLEAN, Submit(s, j, b)
      PROVE  LockDiscipline'
  BY <1>1, <1>8 DEF Submit
<1>9. ASSUME NEW s \in Cancellers, NEW j \in Jobs, Cancel(s, j)
      PROVE  LockDiscipline'
  BY <1>1, <1>9 DEF Cancel
<1>10. ASSUME NEW s \in Sessions, RequeueCommit(s) \/ CancelCommit(s)
       PROVE  LockDiscipline'
  BY <1>2, <1>10 DEF RequeueCommit, CancelCommit
<1>11. ASSUME NEW w \in Workers, SucceedCommit(w) \/ FailCommit(w)
       PROVE  LockDiscipline'
  <2>1. PICK new : Commits(w, new) /\ sess[w].op # "none"
    BY <1>11 DEF SucceedCommit, FailCommit
  <2>2. locked' = locked /\ worker' = [worker EXCEPT ![w] = Idle]
    BY <1>11 DEF SucceedCommit, FailCommit
  <2>. QED BY <1>0, <1>2, <2>1, <2>2
<1>12. ASSUME NEW w \in Workers, NEW outcome \in {"ok", "err"}, Execute(w, outcome)
       PROVE  LockDiscipline'
  BY <1>6, <1>12 DEF Execute, Pcs
<1>13. ASSUME NEW w \in Workers, MarkRead(w) PROVE LockDiscipline'
  BY <1>6, <1>13 DEF MarkRead, Pcs
<1>14. ASSUME NEW w \in Workers, NEW j \in TailorJobs, NEW b \in BOOLEAN, Handoff(w, j, b)
       PROVE  LockDiscipline'
  BY <1>6, <1>14 DEF Handoff, Pcs
<1>15. ASSUME NEW j \in Jobs, BackoffElapses(j) PROVE LockDiscipline'
  BY <1>1, <1>15 DEF BackoffElapses
<1>16. CASE UNCHANGED vars
  BY <1>1, <1>16 DEF vars
<1>. QED
  BY <1>3, <1>4, <1>5, <1>7, <1>8, <1>9, <1>10, <1>11, <1>12, <1>13, <1>14,
     <1>15, <1>16
  DEF Next, ClientStep, CommitStep, WorkerStep

\* Two workers never hold the same row, and a locked row stays claimable until
\* its claim commits (FOR UPDATE SKIP LOCKED in claim_next_job).
THEOREM LocksExclude == Spec => []LockDiscipline
BY InitLocks, NextLocks, ShapeInvariant, PTL DEF Spec

----------------------------------------------------------------------------
(* Double execution.                                                       *)

Safe == Shape /\ LockDiscipline
ExecutionInv == ExecutedIsRunning /\ Exclusive

\* A commit of a row that did not change since it was read stores exactly what
\* the session made of it.
LEMMA FreshCommit ==
  ASSUME Shape, NEW s \in Sessions, sess[s].op # "none", NEW new \in Row,
         new.attempts = sess[s].snap.attempts, Commits(s, new),
         sess[s].job \notin lost'
  PROVE  row[sess[s].job] = sess[s].snap /\ row'[sess[s].job] = new
<1>1. sess[s].job \in Jobs /\ row[sess[s].job] \in Row
  BY DEF Shape, SessionInv, Closed, TypeOK
<1>2. row[sess[s].job] = sess[s].snap
  BY DEF Commits
<1>3. row'[sess[s].job] = Flush(sess[s].snap, sess[s].snap, new)
  BY <1>2, CommitFrame
<1>4. Flush(sess[s].snap, sess[s].snap, new) = new
  <2>1. ASSUME NEW r \in Row, new.attempts = r.attempts
        PROVE  Flush(r, r, new) = new
    <3>1. new = [status |-> new.status, attempts |-> new.attempts, finished |-> new.finished]
      BY DEF Row
    <3>2. (new.finished \/ (r.finished /\ ~r.finished)) = new.finished
      BY DEF Row
    <3>3. (IF new.status = r.status THEN r.status ELSE new.status) = new.status
      OBVIOUS
    <3>. QED BY <2>1, <3>1, <3>2, <3>3 DEF Flush
  <2>. QED BY <1>1, <1>2, <2>1
<1>. QED BY <1>2, <1>3, <1>4

\* The column updates leave attempts alone and set the status they are named for.
LEMMA UpdatedColumns ==
  ASSUME NEW r \in Row, NEW s \in Statuses
  PROVE  /\ SetQueued(r).attempts = r.attempts /\ SetQueued(r).status = "queued"
         /\ SetTerminal(r, s).attempts = r.attempts /\ SetTerminal(r, s).status = s
         /\ SetCancelled(r).attempts = r.attempts
         /\ SetFailed(r).attempts = r.attempts
         /\ r.status \in Claimable => SetCancelled(r).status = "cancelled"
         /\ r.status \notin Claimable => SetCancelled(r).status = "cancel_requested"
BY DEF Row, SetQueued, SetTerminal, SetCancelled, SetFailed, SetRetryWait

LEMMA InitExecution == Init => ExecutionInv
BY DEF Init, ExecutionInv, ExecutedIsRunning, Exclusive, Executes, Idle

\* Steps that start no execution and write no row.
LEMMA ExecutionFrame ==
  ASSUME ExecutionInv, row' = row, lost' = lost,
         \A w \in Workers : \A j \in Jobs : Executes(w, j)' => Executes(w, j)
  PROVE  ExecutionInv'
BY DEF ExecutionInv, ExecutedIsRunning, Exclusive

\* The commit of a session that starts no execution: it keeps the executed jobs
\* running, or their update is lost.
LEMMA ExecutionCommit ==
  ASSUME Shape, ExecutionInv, NEW s \in Sessions, sess[s].op # "none", NEW new, Commits(s, new),
         NEW job \in Jobs, sess[s].job = job,
         \A w \in Workers : \A j \in Jobs : Executes(w, j)' => Executes(w, j),
         job \notin lost' =>
           \/ \A w \in Workers : ~Executes(w, job)'
           \/ row'[job].status \in {"running", "cancel_requested"}
  PROVE  ExecutionInv'
<1>1. lost \subseteq lost'
  BY DEF Commits
<1>2. \A j \in Jobs : j # job => row'[j] = row[j]
  BY CommitFrame
<1>3. ExecutedIsRunning'
  BY <1>1, <1>2 DEF ExecutionInv, ExecutedIsRunning
<1>4. Exclusive'
  BY <1>1 DEF ExecutionInv, Exclusive
<1>. QED BY <1>3, <1>4 DEF ExecutionInv

LEMMA NextExecution ==
  Safe /\ ExecutionInv /\ [Next]_vars => ExecutionInv'
<1>. SUFFICES ASSUME Safe, ExecutionInv, [Next]_vars PROVE ExecutionInv'
  OBVIOUS
<1>. USE DEF Safe
<1>0. /\ Workers \subseteq Sessions
      /\ worker \in [Workers -> WorkerRecord]
      /\ sess \in [Sessions -> SessRecord]
      /\ row \in [Jobs -> Row]
      /\ "succeeded" \in Statuses
  BY DEF Sessions, Shape, TypeOK, WorkerRecord, SessRecord, Statuses, Terminal
<1>1. ASSUME NEW s \in Submitters, NEW j \in Jobs, NEW b \in BOOLEAN, Submit(s, j, b)
      PROVE  ExecutionInv'
  BY <1>1, ExecutionFrame DEF Submit, Executes
<1>2. ASSUME NEW s \in Cancellers, NEW j \in Jobs, Cancel(s, j)
      PROVE  ExecutionInv'
  BY <1>2, ExecutionFrame DEF Cancel, Executes
<1>3. ASSUME NEW s \in Sessions, InsertCommit(s)
      PROVE  ExecutionInv'
  <2>1. sess[s].job \in Jobs
    BY <1>3 DEF InsertCommit, Shape, SessionInv, Closed
  <2>2. \A j \in Jobs : row'[j] = row[j] \/ row[j].status = "absent"
    BY <1>0, <1>3, <2>1 DEF InsertCommit
  <2>3. UNCHANGED <<lost, worker>>
    BY <1>3 DEF InsertCommit
  <2>4. \A w \in Workers : \A j \in Jobs : Executes(w, j)' <=> Executes(w, j)
    BY <2>3 DEF Executes
  <2>5. ExecutedIsRunning'
    BY <2>2, <2>3, <2>4 DEF ExecutionInv, ExecutedIsRunning
  <2>6. Exclusive'
    BY <2>3, <2>4 DEF ExecutionInv, Exclusive
  <2>. QED BY <2>5, <2>6 DEF ExecutionInv
<1>4. ASSUME NEW s \in Sessions, RequeueCommit(s)
      PROVE  ExecutionInv'
  <2>1. /\ sess[s].op # "none" /\ Commits(s, SetQueued(sess[s].snap))
        /\ worker' = worker
        /\ sess[s].snap.status \in Terminal
        /\ SetQueued(sess[s].snap) \in Row
        /\ sess[s].snap \in Row
    BY <1>0, <1>4, SnapshotUpdates DEF RequeueCommit, Shape, SessionInv, SessRecord
  <2>2. PICK j \in Jobs : sess[s].job = j
    BY <2>1, CommitFrame
  <2>3. j \notin lost' => row[j].status \in Terminal
    BY <1>0, <2>1, <2>2, FreshCommit, UpdatedColumns
  <2>4. lost \subseteq lost'
    BY <2>1 DEF Commits
  <2>5. j \notin lost' => \A w \in Workers : ~Executes(w, j)
    BY <2>3, <2>4 DEF ExecutionInv, ExecutedIsRunning, Terminal
  <2>6. \A w \in Workers : \A k \in Jobs : Executes(w, k)' <=> Executes(w, k)
    BY <2>1 DEF Executes
  <2>. QED BY <2>1, <2>2, <2>5, <2>6, ExecutionCommit
<1>5. ASSUME NEW s \in Sessions, CancelCommit(s)
      PROVE  ExecutionInv'
  <2>1. /\ sess[s].op # "none" /\ Commits(s, SetCancelled(sess[s].snap))
        /\ worker' = worker
        /\ SetCancelled(sess[s].snap) \in Row
        /\ sess[s].snap \in Row
    BY <1>0, <1>5, SnapshotUpdates DEF CancelCommit, SessRecord
  <2>2. PICK j \in Jobs : sess[s].job = j
    BY <2>1, CommitFrame
  <2>3. \A w \in Workers : \A k \in Jobs : Executes(w, k)' <=> Executes(w, k)
    BY <2>1 DEF Executes
  <2>4. CASE sess[s].snap.status \in Claimable
    <3>1. j \notin lost' => row[j].status \in Claimable
      BY <1>0, <2>1, <2>2, <2>4, FreshCommit, UpdatedColumns
    <3>2. lost \subseteq lost'
      BY <2>1 DEF Commits
    <3>3. j \notin lost' => \A w \in Workers : ~Executes(w, j)
      BY <3>1, <3>2 DEF ExecutionInv, ExecutedIsRunning, Claimable
    <3>. QED BY <2>1, <2>2, <2>3, <3>3, ExecutionCommit
  <2>5. CASE sess[s].snap.status \notin Claimable
    <3>1. j \notin lost' => row'[j].status = "cancel_requested"
      BY <1>0, <2>1, <2>2, <2>5, FreshCommit, UpdatedColumns
    <3>. QED BY <2>1, <2>2, <2>3, <3>1, ExecutionCommit
  <2>. QED BY <2>4, <2>5
<1>6. ASSUME NEW w \in Workers, ClaimSelect(w)
      PROVE  ExecutionInv'
  <2>1. PICK j : worker' = [worker EXCEPT ![w] = [pc |-> "claim", job |-> j]]
    BY <1>6 DEF ClaimSelect
  <2>2. \A v \in Workers : \A k \in Jobs : Executes(v, k)' => Executes(v, k)
    BY <1>0, <2>1 DEF Executes
  <2>3. row' = row /\ lost' = lost
    BY <1>6 DEF ClaimSelect
  <2>. QED BY <2>2, <2>3, ExecutionFrame
<1>7. ASSUME NEW w \in Workers, ClaimCommit(w)
      PROVE  ExecutionInv'
  <2>. DEFINE j == worker[w].job
  <2>1. j \in Jobs /\ row[j].status \in Claimable
    BY <1>0, <1>7 DEF ClaimCommit, LockDiscipline, Shape, TypeOK
  <2>2. row'[j].status = "running"
    BY <1>0, <1>7, <2>1 DEF ClaimCommit, SetRunning, Row
  <2>3. \A k \in Jobs : k # j => row'[k] = row[k]
    BY <1>0, <1>7 DEF ClaimCommit
  <2>4. worker' = [worker EXCEPT ![w].pc = "run"] /\ lost' = lost
    BY <1>7 DEF ClaimCommit
  <2>5. \A v \in Workers : \A k \in Jobs :
          Executes(v, k)' => Executes(v, k) \/ (v = w /\ k = j)
    BY <1>0, <2>4 DEF Executes, WorkerRecord
  <2>6. j \notin lost => \A v \in Workers : ~Executes(v, j)
    BY <2>1 DEF ExecutionInv, ExecutedIsRunning, Claimable
  <2>. HIDE DEF j
  <2>7. ExecutedIsRunning'
    BY <2>2, <2>3, <2>4, <2>5 DEF ExecutionInv, ExecutedIsRunning
  <2>8. Exclusive'
    BY <2>4, <2>5, <2>6 DEF ExecutionInv, Exclusive
  <2>. QED BY <2>7, <2>8 DEF ExecutionInv
<1>8. ASSUME NEW w \in Workers, worker[w].pc \in {"run", "handed", "ok", "err"},
             NEW pc \in Pcs, worker' = [worker EXCEPT ![w].pc = pc]
      PROVE  \A v \in Workers : \A j \in Jobs : Executes(v, j)' => Executes(v, j)
  BY <1>0, <1>8 DEF Executes, WorkerRecord
<1>9. ASSUME NEW w \in Workers, NEW outcome \in {"ok", "err"}, Execute(w, outcome)
      PROVE  ExecutionInv'
  <2>1. \A v \in Workers : \A j \in Jobs : Executes(v, j)' => Executes(v, j)
    BY <1>8, <1>9 DEF Execute, Pcs
  <2>. QED BY <1>9, <2>1, ExecutionFrame DEF Execute
<1>10. ASSUME NEW w \in Workers, MarkRead(w)
       PROVE  ExecutionInv'
  <2>1. \A v \in Workers : \A j \in Jobs : Executes(v, j)' => Executes(v, j)
    BY <1>8, <1>10 DEF MarkRead, Pcs
  <2>. QED BY <1>10, <2>1, ExecutionFrame DEF MarkRead
<1>11. ASSUME NEW w \in Workers, NEW j \in TailorJobs, NEW b \in BOOLEAN, Handoff(w, j, b)
       PROVE  ExecutionInv'
  <2>1. \A v \in Workers : \A k \in Jobs : Executes(v, k)' => Executes(v, k)
    BY <1>8, <1>11 DEF Handoff, Pcs
  <2>. QED BY <1>11, <2>1, ExecutionFrame DEF Handoff
\* The worker that marks a job is the only one that executes it.
<1>12. ASSUME NEW w \in Workers, SucceedCommit(w) \/ FailCommit(w)
       PROVE  ExecutionInv'
  <2>1. PICK new : Commits(w, new) /\ sess[w].op \in {"succeed", "fail"}
    BY <1>12 DEF SucceedCommit, FailCommit
  <2>2. worker' = [worker EXCEPT ![w] = Idle]
    BY <1>12 DEF SucceedCommit, FailCommit
  <2>3. PICK job \in Jobs : sess[w].job = job /\ Executes(w, job)
    BY <1>0, <2>1, CommitFrame DEF Shape, SessionInv, Executes
  <2>4. \A v \in Workers : \A j \in Jobs : Executes(v, j)' => Executes(v, j) /\ v # w
    BY <1>0, <2>2 DEF Executes, Idle
  <2>5. lost \subseteq lost'
    BY <2>1 DEF Commits
  <2>6. job \notin lost' => \A v \in Workers : ~Executes(v, job)'
    BY <2>3, <2>4, <2>5 DEF ExecutionInv, Exclusive
  <2>. QED BY <1>0, <2>1, <2>3, <2>4, <2>6, ExecutionCommit
<1>13. ASSUME NEW j \in Jobs, BackoffElapses(j)
       PROVE  ExecutionInv'
  BY <1>13, ExecutionFrame DEF BackoffElapses, Executes
<1>14. ASSUME NEW w \in Workers, Crash(w)
       PROVE  ExecutionInv'
  <2>1. worker' = [worker EXCEPT ![w] = Idle] /\ row' = row /\ lost' = lost
    BY <1>14 DEF Crash
  <2>2. \A v \in Workers : \A j \in Jobs : Executes(v, j)' => Executes(v, j)
    BY <1>0, <2>1 DEF Executes, Idle
  <2>. QED BY <2>1, <2>2, ExecutionFrame
<1>15. CASE UNCHANGED vars
  BY <1>15, ExecutionFrame DEF vars, Executes
<1>. QED
  BY <1>1, <1>2, <1>3, <1>4, <1>5, <1>6, <1>7, <1>9, <1>10, <1>11, <1>12,
     <1>13, <1>14, <1>15
  DEF Next, ClientStep, CommitStep, WorkerStep

\* Two workers never execute the same job, for any number of workers, sessions,
\* cancels, retries and crashes, unless an update of its row was lost.
THEOREM ExecutionExclusive == Spec => []Exclusive
<1>1. Spec => []Safe
  BY ShapeInvariant, LocksExclude, PTL DEF Safe
<1>2. ExecutionInv => Exclusive
  BY DEF ExecutionInv
<1>. QED BY <1>1, <1>2, InitExecution, NextExecution, PTL DEF Spec

(***************************************************************************)
(* Part 2: the life of one job.                                            *)
(***************************************************************************)
----------------------------------------------------------------------------
(* Every step writes at most one row.                                      *)

\* The updates of the queue service, each on a row it applies to.
Follows(r, n) ==
  \/ r.status \in {"absent"} \cup Terminal /\ n = SetQueued(r)
  \/ r.status \in Claimable /\ n = SetRunning(r)
  \/ r.status \in Claimable \cup {"running"} /\ n = SetCancelled(r)
  \/ /\ r.status \in {"running", "cancel_requested"}
     /\ n = SetTerminal(r, "succeeded") \/ n = SetFailed(r)

\* Row j is written: the other rows keep what they hold, and the update of j is
\* one of those above unless it was lost.
Writes(j) ==
  /\ \A k \in Jobs : k # j => row'[k] = row[k]
  /\ \/ lost' = lost /\ (j \notin lost => Follows(row[j], row'[j]))
     \/ lost' = lost \cup {j}

\* No row is written.
Quiet == row' = row /\ lost' = lost

\* A row that does not exist yet holds nothing.
AbsentIsNew == \A j \in Jobs : row[j].status = "absent" => row[j] = Absent

\* A commit by an open session writes the row of its job.
LEMMA CommitWrites ==
  ASSUME Shape, NEW s \in Sessions, sess[s].op # "none", NEW new \in Row,
         new.attempts = sess[s].snap.attempts, Commits(s, new),
         sess[s].job \notin lost' => Follows(sess[s].snap, new)
  PROVE  Writes(sess[s].job)
<1>1. \A k \in Jobs : k # sess[s].job => row'[k] = row[k]
  BY CommitFrame
<1>2. CASE lost' = lost \cup {sess[s].job}
  BY <1>1, <1>2 DEF Writes
<1>3. CASE lost' = lost
  <2>1. sess[s].job \notin lost =>
          row[sess[s].job] = sess[s].snap /\ row'[sess[s].job] = new
    BY <1>3, FreshCommit
  <2>. QED BY <1>1, <1>3, <2>1 DEF Writes
<1>. QED BY <1>2, <1>3 DEF Commits

\* Every step leaves the rows alone or writes one of them along an edge, or loses
\* an update: the locks see to the claim, the exclusive execution to the marks.
LEMMA StepWrites ==
  ASSUME Safe, ExecutionInv, AbsentIsNew, [Next]_vars
  PROVE  Quiet \/ \E j \in Jobs : Writes(j)
<1>. USE DEF Safe
<1>0. /\ Workers \subseteq Sessions
      /\ sess \in [Sessions -> SessRecord]
      /\ row \in [Jobs -> Row]
      /\ "succeeded" \in Statuses
  BY DEF Sessions, Shape, TypeOK, SessRecord, Statuses, Terminal
<1>1. ASSUME NEW s \in Sessions, InsertCommit(s)
      PROVE  Quiet \/ \E j \in Jobs : Writes(j)
  <2>1. PICK j \in Jobs : sess[s].job = j
    BY <1>1 DEF InsertCommit, Shape, SessionInv, Closed
  <2>2. CASE row[j].status = "absent"
    <3>1. row' = [row EXCEPT ![j] = SetQueued(Absent)] /\ lost' = lost
      BY <1>1, <2>1, <2>2 DEF InsertCommit
    <3>2. row'[j] = SetQueued(row[j]) /\ \A k \in Jobs : k # j => row'[k] = row[k]
      BY <1>0, <2>2, <3>1 DEF AbsentIsNew
    <3>. QED BY <2>2, <3>1, <3>2 DEF Writes, Follows
  <2>3. CASE row[j].status # "absent"
    BY <1>1, <2>1, <2>3 DEF InsertCommit, Quiet
  <2>. QED BY <2>2, <2>3
<1>2. ASSUME NEW s \in Sessions, RequeueCommit(s)
      PROVE  Writes(sess[s].job) /\ sess[s].job \in Jobs
  <2>1. /\ sess[s].op # "none" /\ Commits(s, SetQueued(sess[s].snap))
        /\ sess[s].snap.status \in Terminal
        /\ sess[s].snap \in Row /\ SetQueued(sess[s].snap) \in Row
    BY <1>0, <1>2, SnapshotUpdates DEF RequeueCommit, Shape, SessionInv, SessRecord
  <2>2. SetQueued(sess[s].snap).attempts = sess[s].snap.attempts
    BY <1>0, <2>1, UpdatedColumns
  <2>3. Follows(sess[s].snap, SetQueued(sess[s].snap))
    BY <2>1 DEF Follows
  <2>. QED BY <2>1, <2>2, <2>3, CommitWrites, CommitFrame
<1>3. ASSUME NEW s \in Sessions, CancelCommit(s)
      PROVE  Writes(sess[s].job) /\ sess[s].job \in Jobs
  <2>1. /\ sess[s].op # "none" /\ Commits(s, SetCancelled(sess[s].snap))
        /\ sess[s].snap.status \in Claimable \cup {"running"}
        /\ sess[s].snap \in Row /\ SetCancelled(sess[s].snap) \in Row
    BY <1>0, <1>3, SnapshotUpdates DEF CancelCommit, Shape, SessionInv, SessRecord
  <2>2. SetCancelled(sess[s].snap).attempts = sess[s].snap.attempts
    BY <1>0, <2>1, UpdatedColumns
  <2>3. Follows(sess[s].snap, SetCancelled(sess[s].snap))
    BY <2>1 DEF Follows
  <2>. QED BY <2>1, <2>2, <2>3, CommitWrites, CommitFrame
<1>4. ASSUME NEW w \in Workers, ClaimCommit(w)
      PROVE  \E j \in Jobs : Writes(j)
  <2>1. PICK j \in Jobs : worker[w].job = j /\ row[j].status \in Claimable
    BY <1>0, <1>4 DEF ClaimCommit, LockDiscipline, Shape, TypeOK
  <2>2. row' = [row EXCEPT ![j] = SetRunning(row[j])] /\ lost' = lost
    BY <1>4, <2>1 DEF ClaimCommit
  <2>. QED BY <1>0, <2>1, <2>2 DEF Writes, Follows
\* The job a worker marks is running or being cancelled, or its row was lost.
<1>5. ASSUME NEW w \in Workers, sess[w].op \in {"succeed", "fail"},
             NEW new \in Row, Commits(w, new),
             new.attempts = sess[w].snap.attempts,
             new = SetTerminal(sess[w].snap, "succeeded") \/ new = SetFailed(sess[w].snap)
      PROVE  Writes(sess[w].job) /\ sess[w].job \in Jobs
  <2>1. PICK j \in Jobs : sess[w].job = j /\ Executes(w, j)
    BY <1>0, <1>5, CommitFrame DEF Shape, SessionInv, Executes
  <2>2. j \notin lost' => j \notin lost /\ row[j] = sess[w].snap
    BY <1>0, <1>5, <2>1, FreshCommit DEF Commits
  <2>3. j \notin lost' => sess[w].snap.status \in {"running", "cancel_requested"}
    BY <2>1, <2>2 DEF ExecutionInv, ExecutedIsRunning
  <2>4. j \notin lost' => Follows(sess[w].snap, new)
    BY <1>5, <2>3 DEF Follows
  <2>. QED BY <1>0, <1>5, <2>1, <2>4, CommitWrites
<1>6. ASSUME NEW w \in Workers, SucceedCommit(w) \/ FailCommit(w)
      PROVE  \E j \in Jobs : Writes(j)
  <2>1. sess[w].snap \in Row
    BY <1>0 DEF SessRecord
  <2>2. PICK new \in Row :
          /\ Commits(w, new)
          /\ sess[w].op \in {"succeed", "fail"}
          /\ new.attempts = sess[w].snap.attempts
          /\ new = SetTerminal(sess[w].snap, "succeeded") \/ new = SetFailed(sess[w].snap)
    BY <1>0, <1>6, <2>1, SnapshotUpdates, UpdatedColumns DEF SucceedCommit, FailCommit
  <2>. QED BY <1>5, <2>2
<1>7. ASSUME UNCHANGED <<row, lost>> PROVE Quiet
  BY <1>7 DEF Quiet
<1>. QED
  BY <1>1, <1>2, <1>3, <1>4, <1>6, <1>7
  DEF Next, ClientStep, CommitStep, WorkerStep, Submit, Cancel, ClaimSelect,
      Execute, MarkRead, Handoff, BackoffElapses, Crash, vars

----------------------------------------------------------------------------
(* Attempts.                                                               *)

\* What AttemptsGrow and FailedExhausted need besides: nobody works on a job
\* that does not exist.
Exists ==
  /\ \A s \in Sessions :
       sess[s].op \notin {"none", "insert"} => row[sess[s].job].status # "absent"
  /\ \A w \in Workers : worker[w] # Idle => row[worker[w].job].status # "absent"

AttemptsInv == AttemptsGrow /\ FailedExhausted /\ Exists

\* No step takes a job or an attempt away, and a job that fails has none left.
Grown ==
  \A j \in Jobs :
    /\ row'[j].attempts >= row[j].attempts
    /\ row'[j].status = "absent" => row'[j] = Absent /\ row[j].status = "absent"
    /\ row'[j].status = "failed" => row'[j].attempts >= MaxAttempts

\* A step that writes no row.
LEMMA UnwrittenGrown ==
  ASSUME Shape, AttemptsInv, row' = row
  PROVE  Grown
<1>1. \A j \in Jobs : row[j].attempts \in Nat
  BY DEF Shape, TypeOK, Row
<1>. QED BY <1>1 DEF Grown, AttemptsInv, AttemptsGrow, FailedExhausted

\* A commit keeps the stored attempts, which are at least those that were read.
LEMMA CommitGrown ==
  ASSUME Shape, AttemptsInv, NEW s \in Sessions, sess[s].op \notin {"none", "insert"},
         NEW new \in Row, Commits(s, new), new.status # "absent",
         new.status = "failed" => sess[s].snap.attempts >= MaxAttempts
  PROVE  Grown
<1>. DEFINE j == sess[s].job
            snap == sess[s].snap
<1>1. /\ j \in Jobs
      /\ row'[j] = Flush(row[j], snap, new)
      /\ \A k \in Jobs : k # j => row'[k] = row[k]
  BY CommitFrame
<1>2. snap \in Row /\ MaxAttempts \in Nat /\ \A k \in Jobs : row[k].attempts \in Nat
  BY BoundsAssumption DEF Shape, TypeOK, Row
<1>3. row'[j].attempts = row[j].attempts
      /\ row'[j].status = IF new.status = snap.status THEN row[j].status ELSE new.status
  BY <1>1 DEF Flush
<1>4. row[j].attempts >= snap.attempts /\ row[j].status # "absent"
  BY DEF AttemptsInv, AttemptsGrow, Exists
<1>5. row'[j].status # "absent"
  BY <1>3, <1>4
<1>6. row'[j].status = "failed" => row'[j].attempts >= MaxAttempts
  <2>1. CASE new.status = snap.status
    BY <1>1, <1>3, <2>1 DEF AttemptsInv, FailedExhausted
  <2>2. CASE new.status # snap.status
    <3>1. snap.attempts \in Nat
      BY <1>2 DEF Row
    <3>. QED BY <1>1, <1>2, <1>3, <1>4, <2>2, <3>1
  <2>. QED BY <2>1, <2>2
<1>. HIDE DEF j, snap
<1>7. ASSUME NEW k \in Jobs
      PROVE  /\ row'[k].attempts >= row[k].attempts
             /\ row'[k].status = "absent" => row'[k] = Absent /\ row[k].status = "absent"
             /\ row'[k].status = "failed" => row'[k].attempts >= MaxAttempts
  <2>1. CASE k = j
    BY <1>2, <1>3, <1>5, <1>6, <2>1
  <2>2. CASE k # j
    BY <1>1, <1>2, <2>2 DEF AttemptsInv, AttemptsGrow, FailedExhausted
  <2>. QED BY <2>1, <2>2
<1>. QED BY <1>7 DEF Grown

\* Every step, lost updates included.
LEMMA NextGrown ==
  ASSUME Safe, AttemptsInv, [Next]_vars
  PROVE  Grown
<1>. USE DEF Safe
<1>0. /\ Workers \subseteq Sessions
      /\ sess \in [Sessions -> SessRecord]
      /\ row \in [Jobs -> Row]
      /\ "succeeded" \in Statuses
      /\ MaxAttempts \in Nat
  BY BoundsAssumption DEF Sessions, Shape, TypeOK, SessRecord, Statuses, Terminal
<1>1. ASSUME NEW s \in Sessions, InsertCommit(s) PROVE Grown
  <2>1. PICK j \in Jobs : sess[s].job = j
    BY <1>1 DEF InsertCommit, Shape, SessionInv, Closed
  <2>2. CASE row[j].status = "absent"
    <3>1. row' = [row EXCEPT ![j] = SetQueued(Absent)]
      BY <1>1, <2>1, <2>2 DEF InsertCommit
    <3>2. row[j].attempts = 0 /\ row'[j].attempts = 0 /\ row'[j].status = "queued"
      BY <1>0, <2>2, <3>1 DEF AttemptsInv, AttemptsGrow, Absent, SetQueued
    <3>3. \A k \in Jobs : k # j => row'[k] = row[k] /\ row[k].attempts \in Nat
      BY <1>0, <3>1 DEF Row
    <3>. QED BY <3>2, <3>3 DEF Grown, AttemptsInv, AttemptsGrow, FailedExhausted
  <2>3. CASE row[j].status # "absent"
    BY <1>1, <2>1, <2>3, UnwrittenGrown DEF InsertCommit
  <2>. QED BY <2>2, <2>3
<1>2. ASSUME NEW s \in Sessions, RequeueCommit(s) PROVE Grown
  <2>1. /\ sess[s].op = "requeue" /\ Commits(s, SetQueued(sess[s].snap))
        /\ sess[s].snap \in Row /\ SetQueued(sess[s].snap) \in Row
    BY <1>0, <1>2, SnapshotUpdates DEF RequeueCommit, SessRecord
  <2>2. SetQueued(sess[s].snap).status = "queued"
    BY <1>0, <2>1, UpdatedColumns
  <2>. QED BY <2>1, <2>2, CommitGrown
<1>3. ASSUME NEW s \in Sessions, CancelCommit(s) PROVE Grown
  <2>1. /\ sess[s].op = "cancel" /\ Commits(s, SetCancelled(sess[s].snap))
        /\ sess[s].snap \in Row /\ SetCancelled(sess[s].snap) \in Row
    BY <1>0, <1>3, SnapshotUpdates DEF CancelCommit, SessRecord
  <2>2. SetCancelled(sess[s].snap).status \in {"cancelled", "cancel_requested"}
    BY <1>0, <2>1, UpdatedColumns
  <2>. QED BY <2>1, <2>2, CommitGrown
\* The claim alone writes attempts.
<1>4. ASSUME NEW w \in Workers, ClaimCommit(w) PROVE Grown
  <2>1. PICK j \in Jobs : worker[w].job = j
    BY <1>0, <1>4 DEF ClaimCommit, Shape, WorkerInv, Idle
  <2>2. row' = [row EXCEPT ![j] = SetRunning(row[j])]
    BY <1>4, <2>1 DEF ClaimCommit
  <2>3. row'[j].attempts = row[j].attempts + 1 /\ row'[j].status = "running"
    BY <1>0, <2>2 DEF SetRunning, Row
  <2>4. \A k \in Jobs : k # j => row'[k] = row[k]
    BY <1>0, <2>2
  <2>5. \A k \in Jobs : row[k].attempts \in Nat
    BY <1>0 DEF Row
  <2>. QED BY <2>3, <2>4, <2>5 DEF Grown, AttemptsInv, AttemptsGrow, FailedExhausted
<1>5. ASSUME NEW w \in Workers, SucceedCommit(w) PROVE Grown
  <2>1. /\ sess[w].op = "succeed"
        /\ Commits(w, SetTerminal(sess[w].snap, "succeeded"))
        /\ sess[w].snap \in Row /\ SetTerminal(sess[w].snap, "succeeded") \in Row
    BY <1>0, <1>5, SnapshotUpdates DEF SucceedCommit, SessRecord
  <2>2. SetTerminal(sess[w].snap, "succeeded").status = "succeeded"
    BY <1>0, <2>1, UpdatedColumns
  <2>. QED BY <1>0, <2>1, <2>2, CommitGrown
\* A job fails for good only when the attempts that were read are used up.
<1>6. ASSUME NEW w \in Workers, FailCommit(w) PROVE Grown
  <2>1. /\ sess[w].op = "fail" /\ Commits(w, SetFailed(sess[w].snap))
        /\ sess[w].snap \in Row /\ SetFailed(sess[w].snap) \in Row
    BY <1>0, <1>6, SnapshotUpdates DEF FailCommit, SessRecord
  <2>2. ASSUME NEW r \in Row
        PROVE  /\ SetFailed(r).status # "absent"
               /\ SetFailed(r).status = "failed" => r.attempts >= MaxAttempts
    <3>1. r.attempts \in Nat
      BY DEF Row
    <3>. QED BY <1>0, <3>1 DEF SetFailed, SetTerminal, SetRetryWait, Row
  <2>. QED BY <1>0, <2>1, <2>2, CommitGrown
<1>7. CASE row' = row
  BY <1>7, UnwrittenGrown
<1>. QED
  BY <1>1, <1>2, <1>3, <1>4, <1>5, <1>6, <1>7
  DEF Next, ClientStep, CommitStep, WorkerStep, Submit, Cancel, ClaimSelect,
      Execute, MarkRead, Handoff, BackoffElapses, Crash, vars

\* A session is closed, goes on, or has just read an existing row, which the
\* insert of a new job alone does without.
LEMMA SessionMoves ==
  ASSUME Safe, AttemptsInv, [Next]_vars, NEW x \in Sessions
  PROVE  \/ sess'[x] = sess[x] \/ sess'[x] = Closed
         \/ /\ row' = row
            /\ \E j \in Jobs, op \in Ops :
                 /\ sess'[x] = [op |-> op, job |-> j, snap |-> row[j]]
                 /\ op = "insert" \/ row[j].status # "absent"
<1>. USE DEF Safe
<1>0. sess \in [Sessions -> SessRecord] /\ Workers \subseteq Sessions
      /\ Submitters \subseteq Sessions /\ Cancellers \subseteq Sessions
  BY DEF Shape, TypeOK, SessRecord, Sessions, Clients
<1>. DEFINE Moved == \/ sess'[x] = sess[x] \/ sess'[x] = Closed
                     \/ /\ row' = row
                        /\ \E j \in Jobs, op \in Ops :
                             /\ sess'[x] = [op |-> op, job |-> j, snap |-> row[j]]
                             /\ op = "insert" \/ row[j].status # "absent"
<1>1. ASSUME NEW s \in Sessions, NEW j \in Jobs, NEW op \in Ops, Opens(s, j, op),
             row' = row, op = "insert" \/ row[j].status # "absent"
      PROVE  Moved
  BY <1>0, <1>1 DEF Opens
<1>2. ASSUME NEW s \in Sessions, sess' = [sess EXCEPT ![s] = Closed] PROVE Moved
  BY <1>0, <1>2
<1>3. ASSUME sess' = sess PROVE Moved
  BY <1>3
<1>. HIDE DEF Moved
<1>4. ASSUME NEW s \in Submitters, NEW j \in Jobs, NEW b \in BOOLEAN, Submit(s, j, b)
      PROVE  Moved
  <2>1. PICK op \in {"insert", "requeue"} :
          Opens(s, j, op) /\ (op = "insert" \/ row[j].status \in Terminal)
    BY <1>4 DEF Submit, EnqueueTailoring, EnqueueEvaluate, EnqueueRead, Terminal
  <2>2. op = "insert" \/ row[j].status # "absent"
    BY <2>1 DEF Terminal
  <2>3. row' = row
    BY <1>4 DEF Submit
  <2>. QED BY <1>0, <1>1, <2>1, <2>2, <2>3 DEF Ops
<1>5. ASSUME NEW s \in Cancellers, NEW j \in Jobs, Cancel(s, j) PROVE Moved
  <2>1. Opens(s, j, "cancel") /\ row[j].status # "absent" /\ row' = row
    BY <1>5 DEF Cancel, CancelRead, Claimable
  <2>. QED BY <1>0, <1>1, <2>1 DEF Ops
<1>6. ASSUME NEW w \in Workers, MarkRead(w) PROVE Moved
  <2>1. worker[w].pc \in {"ok", "err"} /\ worker[w] # Idle /\ worker[w].job \in Jobs
    BY <1>6 DEF MarkRead, Idle, Shape, WorkerInv
  <2>2. PICK op \in {"succeed", "fail"} : Opens(w, worker[w].job, op)
    BY <1>6 DEF MarkRead
  <2>3. row' = row
    BY <1>6 DEF MarkRead
  <2>. QED BY <1>0, <1>1, <2>1, <2>2, <2>3 DEF Ops, AttemptsInv, Exists
<1>7. ASSUME NEW w \in Workers, NEW j \in TailorJobs, NEW b \in BOOLEAN, Handoff(w, j, b)
      PROVE  Moved
  <2>1. j \in Jobs /\ row' = row
    BY <1>7 DEF Handoff, Jobs
  <2>2. PICK op \in {"insert", "requeue"} :
          Opens(w, j, op) /\ (op = "insert" \/ row[j].status # "absent")
    BY <1>7 DEF Handoff, EnqueueTailoring, EnqueueRead, Terminal
  <2>. QED BY <1>0, <1>1, <2>1, <2>2 DEF Ops
<1>8. ASSUME NEW s \in Sessions, CommitStep(s) PROVE Moved
  BY <1>2, <1>8 DEF CommitStep, InsertCommit, RequeueCommit, CancelCommit, Commits
<1>9. ASSUME NEW w \in Workers, SucceedCommit(w) \/ FailCommit(w) \/ Crash(w) PROVE Moved
  BY <1>0, <1>2, <1>9 DEF SucceedCommit, FailCommit, Commits, Crash
<1>10. Moved
  BY <1>3, <1>4, <1>5, <1>6, <1>7, <1>8, <1>9
  DEF Next, ClientStep, WorkerStep, ClaimSelect, ClaimCommit, Execute,
      BackoffElapses, vars
<1>. QED BY <1>10 DEF Moved

\* A worker is idle, keeps its job, or has just found a claimable one.
LEMMA WorkerMoves ==
  ASSUME Safe, [Next]_vars, NEW v \in Workers
  PROVE  \/ worker'[v] = Idle
         \/ worker[v] # Idle /\ worker'[v].job = worker[v].job
         \/ row' = row /\ worker'[v].job \in Jobs /\ row[worker'[v].job].status # "absent"
<1>. USE DEF Safe
<1>0. worker \in [Workers -> WorkerRecord]
  BY DEF Shape, TypeOK, WorkerRecord
<1>. DEFINE Moved ==
       \/ worker'[v] = Idle
       \/ worker[v] # Idle /\ worker'[v].job = worker[v].job
       \/ row' = row /\ worker'[v].job \in Jobs /\ row[worker'[v].job].status # "absent"
<1>1. ASSUME worker' = worker PROVE Moved
  BY <1>1
<1>2. ASSUME NEW w \in Workers, worker' = [worker EXCEPT ![w] = Idle] PROVE Moved
  BY <1>0, <1>2
<1>3. ASSUME NEW w \in Workers, NEW pc \in Pcs, worker[w].pc # "idle",
             worker' = [worker EXCEPT ![w].pc = pc]
      PROVE  Moved
  BY <1>0, <1>3 DEF WorkerRecord, Idle
<1>4. ASSUME NEW w \in Workers, ClaimSelect(w) PROVE Moved
  <2>1. PICK j \in Jobs : /\ row[j].status \in Claimable
                          /\ worker' = [worker EXCEPT ![w] = [pc |-> "claim", job |-> j]]
    BY <1>4 DEF ClaimSelect
  <2>2. row' = row /\ row[j].status # "absent"
    BY <1>4, <2>1 DEF ClaimSelect, Claimable
  <2>. QED BY <1>0, <2>1, <2>2
<1>. HIDE DEF Moved
<1>5. ASSUME NEW w \in Workers, ClaimCommit(w) PROVE Moved
  BY <1>3, <1>5 DEF ClaimCommit, Pcs
<1>6. ASSUME NEW w \in Workers, NEW outcome \in {"ok", "err"}, Execute(w, outcome)
      PROVE  Moved
  BY <1>3, <1>6 DEF Execute, Pcs
<1>7. ASSUME NEW w \in Workers, MarkRead(w) PROVE Moved
  BY <1>3, <1>7 DEF MarkRead, Pcs
<1>8. ASSUME NEW w \in Workers, NEW j \in TailorJobs, NEW b \in BOOLEAN, Handoff(w, j, b)
      PROVE  Moved
  BY <1>3, <1>8 DEF Handoff, Pcs
<1>9. ASSUME NEW w \in Workers, SucceedCommit(w) \/ FailCommit(w) \/ Crash(w) PROVE Moved
  BY <1>2, <1>9 DEF SucceedCommit, FailCommit, Crash
<1>10. Moved
  BY <1>1, <1>4, <1>5, <1>6, <1>7, <1>8, <1>9
  DEF Next, ClientStep, CommitStep, WorkerStep, Submit, Cancel, InsertCommit,
      RequeueCommit, CancelCommit, BackoffElapses, vars
<1>. QED BY <1>10 DEF Moved

LEMMA InitAttempts == Init => AttemptsInv
BY DEF Init, AttemptsInv, AttemptsGrow, FailedExhausted, Exists, Absent, Closed

\* Snapshots are older than the rows, so attempts only grow under them.
LEMMA NextAttempts == Safe /\ Safe' /\ AttemptsInv /\ [Next]_vars => AttemptsInv'
<1>. SUFFICES ASSUME Safe, Safe', AttemptsInv, [Next]_vars PROVE AttemptsInv'
  OBVIOUS
<1>1. Grown
  BY NextGrown
<1>2. FailedExhausted' /\ \A j \in Jobs : row'[j].status = "absent" => row'[j] = Absent
  BY <1>1 DEF Grown, FailedExhausted
<1>3. /\ row \in [Jobs -> Row] /\ sess \in [Sessions -> SessRecord]
      /\ row' \in [Jobs -> Row] /\ sess' \in [Sessions -> SessRecord]
  BY DEF Safe, Shape, TypeOK, SessRecord
<1>4. ASSUME NEW x \in Sessions, sess'[x].op # "none"
      PROVE  /\ row'[sess'[x].job].attempts >= sess'[x].snap.attempts
             /\ sess'[x].op # "insert" => row'[sess'[x].job].status # "absent"
  <2>1. sess'[x] # Closed
    BY <1>4 DEF Closed
  <2>2. CASE sess'[x] = sess[x]
    <3>1. PICK j \in Jobs : sess[x].job = j
      BY <1>4, <2>1, <2>2 DEF Safe, Shape, SessionInv
    <3>2. /\ row[j].attempts >= sess[x].snap.attempts
          /\ sess[x].op # "insert" => row[j].status # "absent"
      BY <1>4, <2>2, <3>1 DEF AttemptsInv, AttemptsGrow, Exists
    <3>3. row'[j].attempts >= row[j].attempts
          /\ (row'[j].status = "absent" => row[j].status = "absent")
      BY <1>1 DEF Grown
    <3>4. row'[j].attempts \in Nat /\ row[j].attempts \in Nat /\ sess[x].snap.attempts \in Nat
      BY <1>3 DEF SessRecord, Row
    <3>. QED BY <2>2, <3>1, <3>2, <3>3, <3>4
  <2>3. CASE \E j \in Jobs, op \in Ops :
               /\ row' = row
               /\ sess'[x] = [op |-> op, job |-> j, snap |-> row[j]]
               /\ op = "insert" \/ row[j].status # "absent"
    <3>1. PICK j \in Jobs : row' = row /\ sess'[x].job = j /\ sess'[x].snap = row[j]
                            /\ (sess'[x].op = "insert" \/ row[j].status # "absent")
      BY <2>3
    <3>2. row[j].attempts \in Nat
      BY <1>3 DEF Row
    <3>. QED BY <3>1, <3>2
  <2>. QED BY <2>1, <2>2, <2>3, SessionMoves
<1>5. ASSUME NEW v \in Workers, worker'[v] # Idle
      PROVE  row'[worker'[v].job].status # "absent"
  <2>1. CASE worker[v] # Idle /\ worker'[v].job = worker[v].job
    <3>1. worker[v].job \in Jobs /\ row[worker[v].job].status # "absent"
      BY <2>1 DEF AttemptsInv, Exists, Safe, Shape, WorkerInv
    <3>. QED BY <1>1, <2>1, <3>1 DEF Grown
  <2>. QED BY <1>5, <2>1, WorkerMoves
<1>. QED BY <1>2, <1>4, <1>5 DEF AttemptsInv, AttemptsGrow, Exists

LEMMA SafeInvariant == Spec => []Safe
BY ShapeInvariant, LocksExclude, PTL DEF Safe

LEMMA AttemptsInvariant == Spec => []AttemptsInv
BY SafeInvariant, InitAttempts, NextAttempts, PTL DEF Spec

\* A job is given up as failed only after max_attempts claims, whatever updates
\* are lost: _set_failed trusts the attempts it read, and they never shrink.
THEOREM FailsExhausted == Spec => []FailedExhausted
<1>1. AttemptsInv => FailedExhausted
  BY DEF AttemptsInv
<1>. QED BY <1>1, AttemptsInvariant, PTL

----------------------------------------------------------------------------
(* finished_at.                                                            *)

\* Each update keeps finished_at in step with the status.
LEMMA FollowsFinished ==
  ASSUME NEW r \in Row, NEW n, Follows(r, n), r.finished <=> r.status \in Terminal
  PROVE  n.finished <=> n.status \in Terminal
<1>1. CASE n = SetQueued(r)
  BY <1>1 DEF SetQueued, Row, Terminal
<1>2. CASE r.status \in Claimable /\ n = SetRunning(r)
  BY <1>2 DEF SetRunning, Row, Terminal, Claimable
<1>3. CASE r.status \in Claimable \cup {"running"} /\ n = SetCancelled(r)
  BY <1>3 DEF SetCancelled, Row, Terminal, Claimable
<1>4. CASE n = SetTerminal(r, "succeeded")
  BY <1>4 DEF SetTerminal, Row, Terminal
<1>5. CASE n = SetFailed(r)
  BY <1>5 DEF SetFailed, SetTerminal, SetRetryWait, Row, Terminal
<1>. QED BY <1>1, <1>2, <1>3, <1>4, <1>5 DEF Follows

\* What the two theorems below rest on.
LifecycleInv == Safe /\ ExecutionInv /\ AbsentIsNew

LEMMA LifecycleInvariant == Spec => []LifecycleInv
<1>1. AttemptsInv => AbsentIsNew
  BY DEF AttemptsInv, AttemptsGrow, AbsentIsNew
<1>2. Spec => []ExecutionInv
  BY SafeInvariant, InitExecution, NextExecution, PTL DEF Spec
<1>. QED BY <1>1, <1>2, SafeInvariant, AttemptsInvariant, PTL DEF LifecycleInv

LEMMA NextFinished ==
  LifecycleInv /\ FinishedIffTerminal /\ [Next]_vars => FinishedIffTerminal'
<1>. SUFFICES ASSUME LifecycleInv, FinishedIffTerminal, [Next]_vars
              PROVE  FinishedIffTerminal'
  OBVIOUS
<1>1. row \in [Jobs -> Row]
  BY DEF LifecycleInv, Safe, Shape, TypeOK
<1>2. CASE Quiet
  BY <1>2 DEF Quiet, FinishedIffTerminal
<1>3. ASSUME NEW j \in Jobs, Writes(j) PROVE FinishedIffTerminal'
  <2>1. j \notin lost' => row'[j].finished <=> row'[j].status \in Terminal
    BY <1>1, <1>3, FollowsFinished DEF Writes, FinishedIffTerminal
  <2>2. \A k \in Jobs : k # j => row'[k] = row[k] /\ (k \in lost' <=> k \in lost)
    BY <1>3 DEF Writes
  <2>. QED BY <2>1, <2>2 DEF FinishedIffTerminal
<1>. QED BY <1>2, <1>3, StepWrites DEF LifecycleInv

\* finished_at and the terminal statuses go together for every job none of
\* whose updates was lost (SetQueued, SetRetryWait and SetCancelled keep the two
\* columns of a row in step).
THEOREM FinishedWhenTerminal == Spec => []FinishedIffTerminal
<1>1. Init => FinishedIffTerminal
  BY DEF Init, FinishedIffTerminal, Absent, Terminal
<1>. QED BY <1>1, LifecycleInvariant, NextFinished, PTL DEF Spec

----------------------------------------------------------------------------
(* The queue implements JobLifecycle.                                      *)

\* What JobLifecycle sees of the rows.
StatusSeen == [j \in Jobs |-> IF j \in lost THEN "untracked" ELSE row[j].status]
AttemptsSeen == [j \in Jobs |-> IF j \in lost THEN 0 ELSE row[j].attempts]

\* A step that leaves the other jobs alone moves what is seen of one job.
LEMMA SeenMoves ==
  ASSUME NEW j \in Jobs, \A k \in Jobs : k # j => row'[k] = row[k],
         lost' = lost, j \notin lost
  PROVE  /\ StatusSeen[j] = row[j].status
         /\ StatusSeen' = [StatusSeen EXCEPT ![j] = row'[j].status]
         /\ AttemptsSeen[j] = row[j].attempts
         /\ AttemptsSeen' = [AttemptsSeen EXCEPT ![j] = row'[j].attempts]
         /\ row'[j].attempts = row[j].attempts => AttemptsSeen' = AttemptsSeen
BY DEF StatusSeen, AttemptsSeen

\* Each update is a step of the lifecycle, a lost one is Lose, and a job already
\* lost is not seen any more.
LEMMA LifecycleStep ==
  LifecycleInv /\ [Next]_vars => [Lifecycle!Next]_(Lifecycle!lifecycleVars)
<1>. SUFFICES ASSUME LifecycleInv, [Next]_vars
              PROVE  Lifecycle!Next \/ UNCHANGED Lifecycle!lifecycleVars
  OBVIOUS
<1>1. row \in [Jobs -> Row]
  BY DEF LifecycleInv, Safe, Shape, TypeOK
<1>2. CASE Quiet
  BY <1>2 DEF Quiet, Lifecycle!lifecycleVars
<1>3. ASSUME NEW j \in Jobs, \A k \in Jobs : k # j => row'[k] = row[k],
             lost' = lost \cup {j}
      PROVE  Lifecycle!Lose(j)
  BY <1>3 DEF Lifecycle!Lose, Lifecycle!Untracked
<1>4. ASSUME NEW j \in Jobs, \A k \in Jobs : k # j => row'[k] = row[k],
             lost' = lost, j \notin lost, Follows(row[j], row'[j])
      PROVE  Lifecycle!Next
  <2>. DEFINE r == row[j]
              n == row'[j]
  <2>1. r \in Row /\ r.attempts \in Nat
    BY <1>1 DEF Row
  <2>2. /\ StatusSeen[j] = r.status
        /\ StatusSeen' = [StatusSeen EXCEPT ![j] = n.status]
        /\ AttemptsSeen[j] = r.attempts
        /\ AttemptsSeen' = [AttemptsSeen EXCEPT ![j] = n.attempts]
        /\ n.attempts = r.attempts => AttemptsSeen' = AttemptsSeen
    BY <1>4, SeenMoves
  <2>3. Follows(r, n)
    BY <1>4
  <2>. HIDE DEF r, n
  <2>4. CASE r.status \in {"absent"} \cup Terminal /\ n = SetQueued(r)
    <3>1. n.status = "queued" /\ n.attempts = r.attempts
      BY <2>1, <2>4 DEF SetQueued, Row
    <3>2. Lifecycle!Submit(j)
      BY <2>2, <2>4, <3>1
      DEF Lifecycle!Submit, Lifecycle!Moves, Lifecycle!KeepsAttempts,
          Lifecycle!Terminal, Terminal, StatusSeen, AttemptsSeen
    <3>. QED BY <3>2 DEF Lifecycle!Next
  <2>5. CASE r.status \in Claimable /\ n = SetRunning(r)
    <3>1. n.status = "running" /\ n.attempts = r.attempts + 1
      BY <2>1, <2>5 DEF SetRunning, Row
    <3>2. Lifecycle!Claim(j)
      BY <2>2, <2>5, <3>1
      DEF Lifecycle!Claim, Lifecycle!Moves, Lifecycle!Claimable, Claimable,
          StatusSeen, AttemptsSeen
    <3>. QED BY <3>2 DEF Lifecycle!Next
  <2>6. CASE r.status \in Claimable \cup {"running"} /\ n = SetCancelled(r)
    <3>1. /\ n.attempts = r.attempts
          /\ \/ r.status \in Claimable /\ n.status = "cancelled"
             \/ r.status = "running" /\ n.status = "cancel_requested"
      BY <2>1, <2>6 DEF SetCancelled, Row, Claimable
    <3>2. Lifecycle!Cancel(j)
      BY <2>2, <3>1
      DEF Lifecycle!Cancel, Lifecycle!Moves, Lifecycle!KeepsAttempts,
          Lifecycle!Claimable, Claimable, StatusSeen, AttemptsSeen
    <3>. QED BY <3>2 DEF Lifecycle!Next
  <2>7. CASE /\ r.status \in {"running", "cancel_requested"}
             /\ n = SetTerminal(r, "succeeded")
    <3>1. n.status = "succeeded" /\ n.attempts = r.attempts
      BY <2>1, <2>7 DEF SetTerminal, Row
    <3>2. Lifecycle!Succeed(j)
      BY <2>2, <2>7, <3>1
      DEF Lifecycle!Succeed, Lifecycle!Moves, Lifecycle!KeepsAttempts,
          StatusSeen, AttemptsSeen
    <3>. QED BY <3>2 DEF Lifecycle!Next
  <2>8. CASE r.status \in {"running", "cancel_requested"} /\ n = SetFailed(r)
    <3>1. /\ n.attempts = r.attempts
          /\ \/ r.status = "cancel_requested" /\ n.status = "cancelled"
             \/ /\ r.status = "running" /\ n.status = "retry_wait"
                /\ r.attempts < MaxAttempts
             \/ /\ r.status = "running" /\ n.status = "failed"
                /\ r.attempts >= MaxAttempts
      BY <2>1, <2>8, BoundsAssumption DEF SetFailed, SetTerminal, SetRetryWait, Row
    <3>2. Lifecycle!Fail(j)
      BY <2>2, <3>1
      DEF Lifecycle!Fail, Lifecycle!Moves, Lifecycle!KeepsAttempts,
          StatusSeen, AttemptsSeen
    <3>. QED BY <3>2 DEF Lifecycle!Next
  <2>. QED BY <2>3, <2>4, <2>5, <2>6, <2>7, <2>8 DEF Follows
<1>5. ASSUME NEW j \in Jobs, Writes(j), lost' = lost, j \in lost
      PROVE  UNCHANGED Lifecycle!lifecycleVars
  BY <1>5 DEF Writes, Lifecycle!lifecycleVars
<1>6. ASSUME NEW j \in Jobs, Writes(j)
      PROVE  Lifecycle!Next \/ UNCHANGED Lifecycle!lifecycleVars
  BY <1>3, <1>4, <1>5, <1>6 DEF Writes, Lifecycle!Next
<1>. QED BY <1>2, <1>6, StepWrites DEF LifecycleInv

\* The queue keeps the promise of JobLifecycle: every job whose updates are not
\* lost follows the edges of the lifecycle, one attempt for each claim.
THEOREM ImplementsJobLifecycle == Spec => LifecycleKept
<1>1. Init => Lifecycle!Init
  BY DEF Init, Lifecycle!Init, Absent
<1>2. Spec => Lifecycle!Spec
  BY <1>1, LifecycleStep, LifecycleInvariant, PTL DEF Spec, Lifecycle!Spec
<1>. QED BY <1>2 DEF LifecycleKept

(***************************************************************************)
(* Part 3: the pipeline.                                                   *)
(***************************************************************************)
----------------------------------------------------------------------------
(* The pipeline implements the queue.                                      *)

USE DEF tables

LEMMA StepIsQueueStep == [PipelineNext]_pipelineVars => [Next]_vars
<1>. SUFFICES ASSUME [PipelineNext]_pipelineVars PROVE [Next]_vars
  OBVIOUS
<1>1. ASSUME NEW w \in Workers, NEW outcome \in {"ok", "err"}, Ends(w, outcome)
      PROVE  Next
  BY <1>1 DEF Ends, Next, WorkerStep
<1>2. ASSUME NEW w \in Workers, PipelineWork(w)
      PROVE  Next \/ UNCHANGED vars
  <2>1. CASE EvaluateStart(w)
    BY <1>1, <2>1 DEF EvaluateStart
  <2>2. CASE EvaluateScore(w)
    BY <1>1, <2>2 DEF EvaluateScore
  <2>3. CASE EvaluateRoute(w)
    <3>1. ASSUME NEW a, NEW b, Handoff(w, a, b)
          PROVE  a \in TailorJobs /\ (Handoff(w, a, TRUE) \/ Handoff(w, a, FALSE))
      BY <3>1 DEF Handoff, EnqueueTailoring
    <3>2. (\E a, b : Handoff(w, a, b)) => Next
      BY <3>1 DEF Next, Handoff, EnqueueTailoring
    <3>. QED BY <1>1, <2>3, <3>2 DEF EvaluateRoute
  <2>4. CASE \E outcome \in {"ok", "err"} : EvaluateReturn(w, outcome)
    BY <1>1, <2>4 DEF EvaluateReturn
  <2>5. CASE TailorStart(w)
    BY <1>1, <2>5 DEF TailorStart
  <2>6. CASE TailorGenerate(w)
    BY <1>1, <2>6 DEF TailorGenerate
  <2>7. CASE TailorWrite(w)
    BY <1>1, <2>7 DEF TailorWrite
  <2>8. CASE TailorLastCheck(w)
    BY <1>1, <2>8 DEF TailorLastCheck
  <2>9. CASE TailorCommit(w)
    BY <1>1, <2>9 DEF TailorCommit
  <2>. QED
    BY <1>2, <2>1, <2>2, <2>3, <2>4, <2>5, <2>6, <2>7, <2>8, <2>9 DEF PipelineWork
<1>3. ASSUME NEW w \in Workers, PipelineClaim(w) \/ PipelineMark(w)
      PROVE  Next
  BY <1>3 DEF PipelineClaim, PipelineMark, Next, WorkerStep
<1>4. ASSUME NEW s \in Submitters, NEW j \in Jobs, ApiSubmit(s, j)
      PROVE  Next
  <2>1. \E b \in BOOLEAN : Submit(s, j, b)
    BY <1>4 DEF ApiSubmit, HasResume
  <2>. QED BY <2>1 DEF Next, ClientStep
<1>5. ASSUME NEW s \in Cancellers, NEW j \in Jobs, Cancel(s, j)
      PROVE  Next
  BY <1>5 DEF Next, ClientStep
<1>6. ASSUME \/ \E a \in TailorJobs : ApiEvaluate(a)
             \/ \E a \in TailorJobs, pdf \in {"local", "external"} : Deliver(a, pdf)
             \/ \E r \in resumes : Download(r)
      PROVE  UNCHANGED vars
  BY <1>6 DEF ApiEvaluate, Deliver, Download
<1>7. ASSUME NEW s \in Sessions, PipelineCommit(s)
      PROVE  Next
  BY <1>7 DEF PipelineCommit, Next
<1>8. ASSUME NEW j \in Jobs, PipelineBackoff(j)
      PROVE  Next
  BY <1>8 DEF PipelineBackoff, Next
<1>9. ASSUME NEW w \in Workers, PipelineCrash(w)
      PROVE  Next
  BY <1>9 DEF PipelineCrash, Next
<1>10. CASE UNCHANGED pipelineVars
  BY <1>10 DEF pipelineVars
<1>11. CASE PipelineClient
  BY <1>4, <1>5, <1>6, <1>11 DEF PipelineClient
<1>. QED
  BY <1>2, <1>3, <1>7, <1>8, <1>9, <1>10, <1>11 DEF PipelineNext, PipelineWorker

\* The pipeline is the queue with Execute filled in: whatever holds of every
\* behaviour of the queue holds in the pipeline.
THEOREM ImplementsAIJobQueue == PipelineSpec => QueueKept
<1>1. PipelineInit => Init
  BY DEF PipelineInit
<1>. QED BY <1>1, StepIsQueueStep, PTL DEF PipelineSpec, QueueKept, Spec

----------------------------------------------------------------------------
(* What the handlers know.                                                 *)

StepRecord == [at : StepNames, n : Nat]

\* What the place of a worker in its handler says of the job and the tables: a
\* worker past the score has an analysis, one past the write has its PDF.
Knows(w) ==
  LET j == worker[w].job
      at == step[w].at
  IN
  worker[w].pc = "run" =>
    /\ at \in {"llm", "generated", "written", "commit"} /\ j \in TailorJobs =>
         analysis[j] # "none"
    /\ at \in {"generated", "written", "commit"} => j \in TailorJobs
    /\ at \in {"written", "commit"} => <<j, step[w].n>> \in files
    /\ at = "evaluated" => j \in EvaluateJobs /\ analysis[AnalysisOf[j]] # "none"

StepInv == \A w \in Workers : Knows(w)

\* No table or file loses what it holds, and an analysis keeps its route.
Kept ==
  /\ files \subseteq files'
  /\ \A a \in TailorJobs : analysis[a] # "none" => analysis'[a] = analysis[a]
  /\ \A a \in TailorJobs : HasResume(a) => HasResume(a)'

LEMMA NothingIsLost == PipelineTypeOK /\ [PipelineNext]_pipelineVars => Kept
<1>. SUFFICES ASSUME PipelineTypeOK, [PipelineNext]_pipelineVars PROVE Kept
  OBVIOUS
<1>1. ASSUME NEW a \in TailorJobs, NEW route, Scores(a, route),
             files' = files, resumes' = resumes
      PROVE  Kept
  BY <1>1 DEF Scores, Kept, HasResume, PipelineTypeOK
<1>2. ASSUME NEW a, NEW n, NEW by, NEW pdf, Stores(a, n, by, pdf),
             files \subseteq files', analysis' = analysis
      PROVE  Kept
  BY <1>2 DEF Stores, Kept, HasResume
<1>3. ASSUME files \subseteq files', resumes' = resumes, analysis' = analysis
      PROVE  Kept
  BY <1>3 DEF Kept, HasResume
<1>4. ASSUME NEW r \in resumes, Download(r)
      PROVE  Kept
  <2>1. [r EXCEPT !.pdf = "local"].of = r.of
    BY DEF PipelineTypeOK, ResumeRow
  <2>. QED BY <1>4, <2>1 DEF Download, Kept, HasResume
<1>5. ASSUME NEW w \in Workers, PipelineWork(w)
      PROVE  Kept
  <2>1. CASE EvaluateScore(w)
    <3>1. CASE \E route \in Routes : Scores(AnalysisOf[worker[w].job], route)
      BY <1>1, <2>1, <3>1, PipelineAssumption DEF EvaluateScore
    <3>. QED BY <1>3, <2>1, <3>1 DEF EvaluateScore
  <2>2. CASE TailorCommit(w)
    BY <1>2, <1>3, <2>2 DEF TailorCommit
  <2>. QED
    BY <1>3, <1>5, <2>1, <2>2
    DEF PipelineWork, EvaluateStart, EvaluateRoute, EvaluateReturn, TailorStart,
        TailorGenerate, TailorWrite, TailorLastCheck
<1>6. CASE PipelineClient
  BY <1>1, <1>2, <1>3, <1>4, <1>6
  DEF PipelineClient, ApiEvaluate, ApiSubmit, Deliver, domainVars
<1>. QED
  BY <1>3, <1>5, <1>6
  DEF PipelineNext, PipelineWorker, PipelineClaim, PipelineMark, PipelineCommit,
      PipelineBackoff, PipelineCrash, pipelineVars, domainVars

Known == PipelineTypeOK /\ StepInv

\* What a worker knows stays true while it stays where it is.
LEMMA KnowsStays ==
  ASSUME Kept, NEW v \in Workers, Knows(v),
         worker'[v] = worker[v], step'[v] = step[v]
  PROVE  Knows(v)'
BY PipelineAssumption DEF Knows, Kept

\* Only worker w moves.
LEMMA OneMoves ==
  ASSUME Kept, StepInv, NEW w \in Workers, Knows(w)',
         \A v \in Workers : v # w => worker'[v] = worker[v] /\ step'[v] = step[v]
  PROVE  StepInv'
<1>1. ASSUME NEW v \in Workers PROVE Knows(v)'
  BY <1>1, KnowsStays DEF StepInv
<1>. QED BY <1>1 DEF StepInv

LEMMA Moving ==
  ASSUME PipelineTypeOK, Shape, NEW w \in Workers
  PROVE  /\ \A name \in StepNames : Goes(w, name) =>
              /\ step' \in [Workers -> StepRecord]
              /\ step'[w].at = name /\ step'[w].n = step[w].n
              /\ \A v \in Workers : v # w => step'[v] = step[v]
         /\ Rests(w) =>
              /\ step' \in [Workers -> StepRecord]
              /\ \A v \in Workers : v # w => step'[v] = step[v]
         /\ \A pc : worker' = [worker EXCEPT ![w].pc = pc] =>
              /\ worker'[w].pc = pc /\ worker'[w].job = worker[w].job
              /\ \A v \in Workers : v # w => worker'[v] = worker[v]
<1>1. step \in [Workers -> StepRecord]
  BY DEF PipelineTypeOK, StepRecord
<1>2. ASSUME NEW name \in StepNames, Goes(w, name)
      PROVE  /\ step' \in [Workers -> StepRecord]
             /\ step'[w].at = name /\ step'[w].n = step[w].n
             /\ \A v \in Workers : v # w => step'[v] = step[v]
  BY <1>1, <1>2 DEF Goes, StepRecord
<1>3. ASSUME Rests(w)
      PROVE  /\ step' \in [Workers -> StepRecord]
             /\ \A v \in Workers : v # w => step'[v] = step[v]
  <2>1. [at |-> "none", n |-> 0] \in StepRecord
    BY DEF StepRecord, StepNames
  <2>. QED BY <1>1, <1>3, <2>1 DEF Rests
<1>4. worker \in [Workers -> WorkerRecord]
  BY DEF Shape, TypeOK, WorkerRecord
<1>5. ASSUME NEW pc, worker' = [worker EXCEPT ![w].pc = pc]
      PROVE  /\ worker'[w].pc = pc /\ worker'[w].job = worker[w].job
             /\ \A v \in Workers : v # w => worker'[v] = worker[v]
  BY <1>4, <1>5 DEF WorkerRecord
<1>. QED BY <1>2, <1>3, <1>5

\* The end of an execution.
LEMMA EndKnows ==
  ASSUME PipelineTypeOK, StepInv, Shape, Kept, NEW w \in Workers,
         NEW outcome \in {"ok", "err"}, Ends(w, outcome)
  PROVE  step' \in [Workers -> StepRecord] /\ StepInv'
<1>1. worker' = [worker EXCEPT ![w].pc = outcome] /\ Rests(w)
  BY DEF Ends, Execute
<1>2. Knows(w)'
  BY <1>1, Moving DEF Knows
<1>. QED BY <1>1, <1>2, Moving, OneMoves

\* Another place in the handler, with the worker's row as it was.
LEMMA GoKnows ==
  ASSUME PipelineTypeOK, StepInv, Shape, Kept, NEW w \in Workers,
         NEW name \in StepNames, Goes(w, name), worker' = worker, Knows(w)'
  PROVE  step' \in [Workers -> StepRecord] /\ StepInv'
BY Moving, OneMoves

LEMMA WorkKnows ==
  ASSUME Known, Shape, Kept, NEW w \in Workers, PipelineWork(w)
  PROVE  step' \in [Workers -> StepRecord] /\ StepInv'
<1>. USE DEF Known
<1>. DEFINE Goal == step' \in [Workers -> StepRecord] /\ StepInv'
<1>0. /\ {"llm", "generated", "written", "commit", "evaluated"} \subseteq StepNames
      /\ step \in [Workers -> StepRecord]
      /\ Knows(w)
      /\ worker[w].job \in EvaluateJobs => worker[w].job \notin TailorJobs
  BY JobsAssumption DEF StepNames, PipelineTypeOK, StepRecord, StepInv
<1>1. ASSUME NEW outcome \in {"ok", "err"}, Ends(w, outcome) PROVE Goal
  BY <1>1, EndKnows
<1>2. ASSUME NEW name \in {"llm", "generated", "written", "commit", "evaluated"},
             Goes(w, name), worker' = worker, Knows(w)'
      PROVE  Goal
  BY <1>0, <1>2, GoKnows
<1>. SUFFICES Goal
  OBVIOUS
<1>. HIDE DEF Goal
<1>3. CASE EvaluateStart(w)
  <2>1. CASE Goes(w, "llm") /\ UNCHANGED vars
    <3>1. worker' = worker /\ step'[w].at = "llm" /\ worker[w].job \in EvaluateJobs
      BY <1>0, <1>3, <2>1, Moving DEF EvaluateStart, vars
    <3>2. Knows(w)'
      BY <1>0, <3>1 DEF Knows
    <3>. QED BY <1>2, <2>1, <3>1, <3>2
  <2>. QED BY <1>1, <1>3, <2>1 DEF EvaluateStart
<1>4. CASE EvaluateScore(w)
  <2>1. CASE Goes(w, "evaluated") /\ UNCHANGED vars
    <3>1. worker' = worker /\ step'[w].at = "evaluated" /\ worker[w].job \in EvaluateJobs
      BY <1>0, <1>4, <2>1, Moving DEF EvaluateScore, vars
    <3>2. AnalysisOf[worker[w].job] \in TailorJobs
      BY <3>1, PipelineAssumption
    <3>3. CASE /\ analysis[AnalysisOf[worker[w].job]] # "none"
               /\ analysis' = analysis
      <4>1. Knows(w)'
        BY <1>0, <3>1, <3>3 DEF Knows
      <4>. QED BY <1>2, <2>1, <3>1, <4>1
    <3>4. CASE \E route \in Routes : Scores(AnalysisOf[worker[w].job], route)
      <4>1. analysis'[AnalysisOf[worker[w].job]] # "none"
        BY <3>2, <3>4 DEF Scores, PipelineTypeOK, Routes
      <4>2. Knows(w)'
        BY <1>0, <3>1, <4>1, PipelineAssumption DEF Knows
      <4>. QED BY <1>2, <2>1, <3>1, <4>2
    <3>5. CASE Ends(w, "err")
      BY <1>1, <3>5
    <3>. QED BY <1>4, <3>3, <3>4, <3>5 DEF EvaluateScore
  <2>. QED BY <1>1, <1>4, <2>1 DEF EvaluateScore
<1>5. CASE EvaluateRoute(w)
  <2>1. CASE step' = step /\ \E a, b : Handoff(w, a, b)
    <3>1. worker' = [worker EXCEPT ![w].pc = "handed"]
      BY <2>1 DEF Handoff
    <3>2. /\ worker'[w].pc = "handed"
          /\ \A v \in Workers : v # w => worker'[v] = worker[v]
      BY <3>1, Moving
    <3>3. Knows(w)'
      BY <3>2 DEF Knows
    <3>. QED BY <1>0, <2>1, <3>2, <3>3, OneMoves DEF Goal
  <2>. QED BY <1>1, <1>5, <2>1 DEF EvaluateRoute
<1>6. CASE \E outcome \in {"ok", "err"} : EvaluateReturn(w, outcome)
  BY <1>1, <1>6 DEF EvaluateReturn
<1>7. CASE TailorStart(w)
  <2>1. CASE /\ analysis[worker[w].job] = "needs_tailoring"
             /\ Goes(w, "llm") /\ UNCHANGED vars
    <3>1. worker' = worker /\ step'[w].at = "llm" /\ analysis' = analysis
      BY <1>0, <1>7, <2>1, Moving DEF TailorStart, vars
    <3>2. Knows(w)'
      BY <1>0, <2>1, <3>1 DEF Knows
    <3>. QED BY <1>2, <2>1, <3>1, <3>2
  <2>. QED BY <1>1, <1>7, <2>1 DEF TailorStart
<1>8. CASE TailorGenerate(w)
  <2>1. CASE Goes(w, "generated") /\ UNCHANGED vars
    <3>1. /\ worker' = worker /\ step'[w].at = "generated" /\ analysis' = analysis
          /\ worker[w].job \in TailorJobs /\ worker[w].pc = "run" /\ step[w].at = "llm"
      BY <1>0, <1>8, <2>1, Moving DEF TailorGenerate, AtStep, vars
    <3>2. Knows(w)'
      BY <1>0, <3>1 DEF Knows
    <3>. QED BY <1>2, <2>1, <3>1, <3>2
  <2>. QED BY <1>1, <1>8, <2>1 DEF TailorGenerate
<1>9. CASE TailorWrite(w)
  <2>1. CASE \E a, n : /\ a = worker[w].job /\ n = minted[a] + 1
                       /\ files' = files \cup {<<a, n>>}
                       /\ step' = [step EXCEPT ![w] = [at |-> "written", n |-> n]]
                       /\ UNCHANGED vars /\ AtStep(w, "generated")
                       /\ analysis' = analysis
    <3>1. PICK n : /\ n = minted[worker[w].job] + 1
                   /\ files' = files \cup {<<worker[w].job, n>>}
                   /\ step' = [step EXCEPT ![w] = [at |-> "written", n |-> n]]
      BY <2>1
    <3>2. /\ worker' = worker /\ worker[w].pc = "run" /\ step[w].at = "generated"
          /\ analysis' = analysis
      BY <2>1 DEF AtStep, vars
    <3>3. worker[w].job \in TailorJobs /\ analysis[worker[w].job] # "none"
      BY <1>0, <3>2 DEF Knows
    <3>4. [at |-> "written", n |-> n] \in StepRecord
      BY <3>1, <3>3 DEF StepRecord, StepNames, PipelineTypeOK
    <3>5. /\ step' \in [Workers -> StepRecord]
          /\ step'[w].at = "written" /\ step'[w].n = n
          /\ \A v \in Workers : v # w => step'[v] = step[v]
      BY <1>0, <3>1, <3>4
    <3>6. Knows(w)'
      BY <3>1, <3>2, <3>3, <3>5 DEF Knows
    <3>. QED BY <3>2, <3>5, <3>6, OneMoves DEF Goal
  <2>. QED BY <1>1, <1>9, <2>1 DEF TailorWrite
<1>10. CASE TailorLastCheck(w)
  <2>1. CASE Goes(w, "commit") /\ UNCHANGED vars
    <3>1. /\ worker' = worker /\ step'[w].at = "commit" /\ step'[w].n = step[w].n
          /\ analysis' = analysis /\ files' = files
          /\ worker[w].pc = "run" /\ step[w].at = "written"
      BY <1>0, <1>10, <2>1, Moving DEF TailorLastCheck, AtStep, vars
    <3>2. Knows(w)'
      BY <1>0, <3>1 DEF Knows
    <3>. QED BY <1>2, <2>1, <3>1, <3>2
  <2>. QED BY <1>1, <1>10, <2>1 DEF TailorLastCheck
<1>11. CASE TailorCommit(w)
  BY <1>1, <1>11 DEF TailorCommit
<1>. QED
  BY <1>3, <1>4, <1>5, <1>6, <1>7, <1>8, <1>9, <1>10, <1>11 DEF PipelineWork

\* Every step of the pipeline, the workers' own and the others.
LEMMA NextSteps ==
  ASSUME Known, Shape, Kept, [PipelineNext]_pipelineVars
  PROVE  step' \in [Workers -> StepRecord] /\ StepInv'
<1>. DEFINE Goal == step' \in [Workers -> StepRecord] /\ StepInv'
<1>0. /\ step \in [Workers -> StepRecord] /\ StepInv /\ PipelineTypeOK
      /\ worker \in [Workers -> WorkerRecord]
      /\ "start" \in StepNames
  BY DEF Known, PipelineTypeOK, StepRecord, StepNames, Shape, TypeOK, WorkerRecord
\* A step that puts nobody into a handler.
<1>1. ASSUME step' = step,
             \A v \in Workers : worker'[v] = worker[v] \/ worker'[v].pc # "run"
      PROVE  Goal
  <2>1. ASSUME NEW v \in Workers PROVE Knows(v)'
    <3>1. CASE worker'[v] = worker[v]
      BY <1>0, <1>1, <3>1, KnowsStays DEF StepInv
    <3>2. CASE worker'[v].pc # "run"
      BY <3>2 DEF Knows
    <3>. QED BY <1>1, <3>1, <3>2
  <2>. QED BY <1>0, <1>1, <2>1 DEF StepInv
<1>2. ASSUME step' = step, worker' = worker PROVE Goal
  BY <1>1, <1>2
<1>3. ASSUME step' = step, NEW w \in Workers, NEW x, x.pc # "run",
             worker' = [worker EXCEPT ![w] = x]
      PROVE  Goal
  BY <1>0, <1>1, <1>3
<1>. SUFFICES Goal
  OBVIOUS
<1>. HIDE DEF Goal
<1>4. ASSUME NEW w \in Workers, PipelineClaim(w) PROVE Goal
  <2>1. CASE ClaimSelect(w) /\ step' = step
    <3>1. PICK j \in Jobs : worker' = [worker EXCEPT ![w] = [pc |-> "claim", job |-> j]]
      BY <2>1 DEF ClaimSelect
    <3>. QED BY <1>3, <2>1, <3>1
  <2>2. CASE ClaimCommit(w) /\ Goes(w, "start")
    <3>1. worker' = [worker EXCEPT ![w].pc = "run"]
      BY <2>2 DEF ClaimCommit
    <3>2. step'[w].at = "start"
      BY <1>0, <2>2, Moving
    <3>3. Knows(w)'
      BY <3>2 DEF Knows
    <3>4. \A v \in Workers : v # w => worker'[v] = worker[v]
      BY <3>1, <1>0, Moving
    <3>. QED BY <1>0, <2>2, <3>3, <3>4, Moving, OneMoves DEF Goal
  <2>. QED BY <1>4, <2>1, <2>2 DEF PipelineClaim, domainVars
<1>5. ASSUME NEW w \in Workers, PipelineMark(w) PROVE Goal
  <2>1. step' = step
    BY <1>5 DEF PipelineMark, domainVars
  <2>2. CASE MarkRead(w)
    <3>1. worker' = [worker EXCEPT ![w].pc = "mark"]
      BY <2>2 DEF MarkRead
    <3>2. worker'[w].pc = "mark" /\ \A v \in Workers : v # w => worker'[v] = worker[v]
      BY <1>0, <3>1, Moving
    <3>. QED BY <1>1, <2>1, <3>2
  <2>3. CASE SucceedCommit(w) \/ FailCommit(w)
    BY <1>3, <2>1, <2>3 DEF SucceedCommit, FailCommit, Idle
  <2>. QED BY <1>5, <2>2, <2>3 DEF PipelineMark
<1>6. ASSUME NEW w \in Workers, PipelineCrash(w) PROVE Goal
  <2>1. worker' = [worker EXCEPT ![w] = Idle] /\ Rests(w)
    BY <1>6 DEF PipelineCrash, Crash
  <2>2. worker'[w].pc = "idle" /\ \A v \in Workers : v # w => worker'[v] = worker[v]
    BY <1>0, <2>1 DEF Idle
  <2>3. Knows(w)'
    BY <2>2 DEF Knows
  <2>. QED BY <1>0, <2>1, <2>2, <2>3, Moving, OneMoves DEF Goal
<1>7. CASE PipelineClient
  BY <1>2, <1>7
  DEF PipelineClient, ApiSubmit, Submit, Cancel, ApiEvaluate, Deliver, Download,
      domainVars, vars
<1>8. ASSUME NEW s \in Sessions, PipelineCommit(s) PROVE Goal
  BY <1>2, <1>8
  DEF PipelineCommit, CommitStep, InsertCommit, RequeueCommit, CancelCommit, domainVars
<1>9. ASSUME NEW j \in Jobs, PipelineBackoff(j) PROVE Goal
  BY <1>2, <1>9 DEF PipelineBackoff, BackoffElapses, domainVars
<1>10. CASE UNCHANGED pipelineVars
  BY <1>2, <1>10 DEF pipelineVars, vars, domainVars
<1>11. ASSUME NEW w \in Workers, PipelineWork(w) PROVE Goal
  BY <1>11, WorkKnows DEF Goal
<1>. QED
  BY <1>4, <1>5, <1>6, <1>7, <1>8, <1>9, <1>10, <1>11 DEF PipelineNext, PipelineWorker

\* The tables and files.
Tables ==
  /\ analysis \in [TailorJobs -> Routes \cup {"none"}]
  /\ canSubmit \in [TailorJobs -> BOOLEAN]
  /\ resumes \subseteq ResumeRow
  /\ files \subseteq TailorJobs \X Nat
  /\ minted \in [TailorJobs -> Nat]
  /\ unreported \subseteq TailorJobs \X Nat
  /\ deliveries \in 0..MaxDeliveries

LEMMA NextTables ==
  ASSUME Known, [PipelineNext]_pipelineVars
  PROVE  Tables'
<1>0. Tables /\ StepInv /\ step \in [Workers -> StepRecord]
  BY DEF Known, PipelineTypeOK, Tables, StepRecord
<1>1. ASSUME UNCHANGED <<analysis, canSubmit, resumes, files, minted, unreported, deliveries>>
      PROVE  Tables'
  BY <1>0, <1>1 DEF Tables
<1>2. ASSUME NEW a \in TailorJobs, NEW route \in Routes, Scores(a, route),
             UNCHANGED <<resumes, files, minted, unreported, deliveries>>
      PROVE  Tables'
  BY <1>0, <1>2 DEF Tables, Scores
<1>3. ASSUME NEW a \in TailorJobs, NEW n \in Nat, NEW by \in {"worker", "user"},
             NEW pdf \in {"local", "external"}, Stores(a, n, by, pdf)
      PROVE  resumes' \subseteq ResumeRow /\ canSubmit' \in [TailorJobs -> BOOLEAN]
  BY <1>0, <1>3 DEF Tables, Stores, ResumeRow
<1>4. ASSUME NEW w \in Workers, TailorWrite(w) PROVE Tables'
  <2>1. worker[w].job \in TailorJobs
    BY <1>0, <1>4 DEF TailorWrite, AtStep, StepInv, Knows
  <2>2. minted[worker[w].job] + 1 \in Nat
    BY <1>0, <2>1 DEF Tables
  <2>3. /\ \/ files' = files
           \/ files' = files \cup {<<worker[w].job, minted[worker[w].job] + 1>>}
        /\ \/ minted' = minted
           \/ minted' = [minted EXCEPT ![worker[w].job] = minted[worker[w].job] + 1]
        /\ UNCHANGED <<analysis, canSubmit, resumes, unreported, deliveries>>
    BY <1>4 DEF TailorWrite
  <2>. QED BY <1>0, <2>1, <2>2, <2>3 DEF Tables
<1>5. ASSUME NEW w \in Workers, TailorCommit(w) PROVE Tables'
  <2>1. worker[w].job \in TailorJobs /\ step[w].n \in Nat
    BY <1>0, <1>5 DEF TailorCommit, AtStep, StepInv, Knows, StepRecord
  <2>2. /\ \/ Stores(worker[w].job, step[w].n, "worker", "local")
           \/ UNCHANGED <<resumes, canSubmit>>
        /\ UNCHANGED <<analysis, files, minted, deliveries>>
        /\ \/ unreported' = unreported
           \/ unreported' = unreported \cup {<<worker[w].job, step[w].n>>}
    BY <1>5 DEF TailorCommit
  <2>. QED BY <1>0, <1>3, <2>1, <2>2 DEF Tables
<1>6. ASSUME NEW a \in TailorJobs, NEW pdf \in {"local", "external"}, Deliver(a, pdf)
      PROVE  Tables'
  <2>1. minted[a] + 1 \in Nat
    BY <1>0 DEF Tables
  <2>2. /\ files' = IF pdf = "local" THEN files \cup {<<a, minted[a] + 1>>} ELSE files
        /\ minted' = [minted EXCEPT ![a] = minted[a] + 1]
        /\ Stores(a, minted[a] + 1, "user", pdf)
        /\ analysis' = analysis /\ unreported' = unreported
    BY <1>6 DEF Deliver
  <2>3. deliveries' \in 0..MaxDeliveries
    BY <1>0, <1>6, PipelineAssumption DEF Deliver, Tables
  <2>4. resumes' \subseteq ResumeRow /\ canSubmit' \in [TailorJobs -> BOOLEAN]
    BY <1>3, <2>1, <2>2
  <2>5. files' \subseteq TailorJobs \X Nat /\ minted' \in [TailorJobs -> Nat]
    BY <1>0, <2>1, <2>2 DEF Tables
  <2>. QED BY <1>0, <2>2, <2>3, <2>4, <2>5 DEF Tables
<1>7. ASSUME NEW r \in resumes, Download(r) PROVE Tables'
  <2>1. [r EXCEPT !.pdf = "local"] \in ResumeRow /\ <<r.of, r.n>> \in TailorJobs \X Nat
    BY <1>0 DEF Tables, ResumeRow
  <2>. QED BY <1>0, <1>7, <2>1 DEF Download, Tables
<1>8. ASSUME NEW w \in Workers, EvaluateScore(w) PROVE Tables'
  <2>1. AnalysisOf[worker[w].job] \in TailorJobs
    BY <1>8, PipelineAssumption DEF EvaluateScore
  <2>. QED BY <1>1, <1>2, <1>8, <2>1 DEF EvaluateScore
<1>9. ASSUME NEW w \in Workers, PipelineWork(w) PROVE Tables'
  BY <1>1, <1>4, <1>5, <1>8, <1>9
  DEF PipelineWork, EvaluateStart, EvaluateRoute, EvaluateReturn, TailorStart,
      TailorGenerate, TailorLastCheck
<1>10. CASE PipelineClient
  BY <1>1, <1>2, <1>6, <1>7, <1>10 DEF PipelineClient, ApiSubmit, ApiEvaluate, domainVars
<1>. QED
  BY <1>1, <1>9, <1>10
  DEF PipelineNext, PipelineWorker, PipelineClaim, PipelineMark, PipelineCommit,
      PipelineBackoff, PipelineCrash, pipelineVars, domainVars

\* The place of a worker and the tables, in every reachable state.
LEMMA KnownInvariant == PipelineSpec => [](Known /\ Safe /\ AttemptsInv)
<1>1. PipelineInit => Known
  BY PipelineAssumption
  DEF PipelineInit, Init, Known, PipelineTypeOK, StepInv, Knows, Idle, StepNames
<1>2. Known /\ Safe /\ [PipelineNext]_pipelineVars => Known'
  <2>. SUFFICES ASSUME Known, Safe, [PipelineNext]_pipelineVars PROVE Known'
    OBVIOUS
  <2>1. Kept
    BY NothingIsLost DEF Known
  <2>2. step' \in [Workers -> StepRecord] /\ StepInv' /\ Tables'
    BY <2>1, NextSteps, NextTables DEF Safe
  <2>. QED BY <2>2 DEF Known, PipelineTypeOK, Tables, StepRecord
<1>3. PipelineSpec => []Safe /\ []AttemptsInv
  BY ImplementsAIJobQueue, SafeInvariant, AttemptsInvariant, PTL DEF QueueKept
<1>. QED BY <1>1, <1>2, <1>3, PTL DEF PipelineSpec

\* The types of the tables, files and places in the handlers.
THEOREM PipelineTypeCorrect == PipelineSpec => []PipelineTypeOK
<1>1. Known => PipelineTypeOK
  BY DEF Known
<1>. QED BY <1>1, KnownInvariant, PTL

----------------------------------------------------------------------------
(* Documents.                                                              *)

\* A resume needs an analysis, so that an analysis is never scored behind the
\* back of its resumes, which would take can_submit away from them.
Documents ==
  /\ SubmittableIffDocument
  /\ PdfBeforeRow
  /\ \A r \in resumes : analysis[r.of] # "none"

LEMMA StoresDocuments ==
  ASSUME Tables, Documents, NEW a \in TailorJobs, NEW n \in Nat,
         NEW by \in {"worker", "user"}, NEW pdf \in {"local", "external"},
         Stores(a, n, by, pdf), analysis[a] # "none", analysis' = analysis,
         files \subseteq files', pdf = "local" => <<a, n>> \in files'
  PROVE  Documents'
<1>. DEFINE new == [of |-> a, n |-> n, by |-> by, pdf |-> pdf]
<1>1. resumes' = resumes \cup {new} /\ new.of = a
  BY DEF Stores
<1>2. \A b \in TailorJobs : HasResume(b)' <=> b = a \/ HasResume(b)
  <2>. HIDE DEF new
  <2>. QED BY <1>1 DEF HasResume
<1>3. \A b \in TailorJobs : canSubmit'[b] <=> b = a \/ canSubmit[b]
  BY DEF Stores, Tables
<1>4. SubmittableIffDocument'
  BY <1>2, <1>3 DEF Documents, SubmittableIffDocument
<1>5. PdfBeforeRow'
  BY <1>1 DEF Documents, PdfBeforeRow
<1>6. (\A r \in resumes : analysis[r.of] # "none")'
  BY <1>1 DEF Documents
<1>. QED BY <1>4, <1>5, <1>6 DEF Documents

LEMMA ScoresDocuments ==
  ASSUME Tables, Documents, NEW a \in TailorJobs, NEW route \in Routes,
         Scores(a, route), resumes' = resumes, files' = files
  PROVE  Documents'
<1>1. ~HasResume(a)
  BY DEF Scores, Documents, HasResume
<1>2. \A b \in TailorJobs : HasResume(b)' <=> HasResume(b)
  BY DEF HasResume
<1>3. /\ analysis'[a] = route /\ (canSubmit'[a] <=> route = "ready_to_submit")
      /\ \A b \in TailorJobs : b # a => analysis'[b] = analysis[b] /\ canSubmit'[b] = canSubmit[b]
  BY DEF Scores, Tables
<1>4. SubmittableIffDocument'
  BY <1>1, <1>2, <1>3 DEF Documents, SubmittableIffDocument
<1>5. PdfBeforeRow'
  BY DEF Documents, PdfBeforeRow
<1>6. (\A r \in resumes : analysis[r.of] # "none")'
  BY <1>3 DEF Documents, Tables, ResumeRow, Routes
<1>. QED BY <1>4, <1>5, <1>6 DEF Documents

LEMMA DownloadDocuments ==
  ASSUME Tables, Documents, NEW r \in resumes, Download(r)
  PROVE  Documents'
<1>. DEFINE new == [r EXCEPT !.pdf = "local"]
<1>1. new.of = r.of /\ new.n = r.n
  BY DEF Tables, ResumeRow
<1>2. resumes' = (resumes \ {r}) \cup {new} /\ files' = files \cup {<<r.of, r.n>>}
  BY DEF Download
<1>. HIDE DEF new
<1>3. \A b \in TailorJobs : HasResume(b)' <=> HasResume(b)
  BY <1>1, <1>2 DEF HasResume
<1>4. analysis' = analysis /\ canSubmit' = canSubmit
  BY DEF Download
<1>5. SubmittableIffDocument'
  BY <1>3, <1>4 DEF Documents, SubmittableIffDocument
<1>6. PdfBeforeRow'
  BY <1>1, <1>2 DEF Documents, PdfBeforeRow
<1>7. (\A q \in resumes : analysis[q.of] # "none")'
  BY <1>1, <1>2, <1>4 DEF Documents
<1>. QED BY <1>5, <1>6, <1>7 DEF Documents

LEMMA NextDocuments ==
  ASSUME Known, Documents, [PipelineNext]_pipelineVars
  PROVE  Documents'
<1>0. Tables /\ StepInv /\ step \in [Workers -> StepRecord]
  BY DEF Known, PipelineTypeOK, Tables, StepRecord
<1>1. ASSUME UNCHANGED <<analysis, canSubmit, resumes>>, files \subseteq files'
      PROVE  Documents'
  BY <1>1 DEF Documents, SubmittableIffDocument, PdfBeforeRow, HasResume
<1>2. ASSUME NEW w \in Workers, EvaluateScore(w) PROVE Documents'
  <2>1. AnalysisOf[worker[w].job] \in TailorJobs
    BY <1>2, PipelineAssumption DEF EvaluateScore
  <2>. QED BY <1>0, <1>1, <1>2, <2>1, ScoresDocuments DEF EvaluateScore
<1>3. ASSUME NEW w \in Workers, TailorCommit(w) PROVE Documents'
  <2>1. /\ worker[w].job \in TailorJobs /\ step[w].n \in Nat
        /\ analysis[worker[w].job] # "none" /\ <<worker[w].job, step[w].n>> \in files
    BY <1>0, <1>3 DEF TailorCommit, AtStep, StepInv, Knows, StepRecord
  <2>2. analysis' = analysis /\ files' = files
    BY <1>3 DEF TailorCommit
  <2>3. CASE Stores(worker[w].job, step[w].n, "worker", "local")
    BY <1>0, <2>1, <2>2, <2>3, StoresDocuments
  <2>. QED BY <1>1, <1>3, <2>2, <2>3 DEF TailorCommit
<1>4. ASSUME NEW a \in TailorJobs, NEW pdf \in {"local", "external"}, Deliver(a, pdf)
      PROVE  Documents'
  <2>1. minted[a] + 1 \in Nat
    BY <1>0 DEF Tables
  <2>2. /\ files' = IF pdf = "local" THEN files \cup {<<a, minted[a] + 1>>} ELSE files
        /\ Stores(a, minted[a] + 1, "user", pdf)
        /\ analysis[a] # "none" /\ analysis' = analysis
    BY <1>4 DEF Deliver
  <2>. QED BY <1>0, <2>1, <2>2, StoresDocuments
<1>5. ASSUME NEW w \in Workers, PipelineWork(w) PROVE Documents'
  BY <1>1, <1>2, <1>3, <1>5
  DEF PipelineWork, EvaluateStart, EvaluateRoute, EvaluateReturn, TailorStart,
      TailorGenerate, TailorWrite, TailorLastCheck
<1>6. CASE PipelineClient
  BY <1>0, <1>1, <1>4, <1>6, ScoresDocuments, DownloadDocuments
  DEF PipelineClient, ApiSubmit, ApiEvaluate, domainVars
<1>. QED
  BY <1>1, <1>5, <1>6
  DEF PipelineNext, PipelineWorker, PipelineClaim, PipelineMark, PipelineCommit,
      PipelineBackoff, PipelineCrash, pipelineVars, domainVars

LEMMA DocumentsInvariant == PipelineSpec => []Documents
<1>1. PipelineInit => Documents
  BY DEF PipelineInit, Documents, SubmittableIffDocument, PdfBeforeRow, HasResume
<1>2. Known /\ Documents /\ [PipelineNext]_pipelineVars => Documents'
  BY NextDocuments
<1>. QED BY <1>1, <1>2, KnownInvariant, PTL DEF PipelineSpec

\* An analysis is offered for submission exactly when it is ready as it stands
\* or has a resume, whatever crashes, cancels and deliveries come between the
\* worker's flush, its PDF and its commit.
THEOREM SubmittableHasDocument == PipelineSpec => []SubmittableIffDocument
<1>1. Documents => SubmittableIffDocument
  BY DEF Documents
<1>. QED BY <1>1, DocumentsInvariant, PTL

\* A stored resume with a local pdf_url has its file.
THEOREM RowsHavePdf == PipelineSpec => []PdfBeforeRow
<1>1. Documents => PdfBeforeRow
  BY DEF Documents
<1>. QED BY <1>1, DocumentsInvariant, PTL

----------------------------------------------------------------------------
(* Outcomes.                                                               *)

\* What a job marked succeeded stands for: a tailor job for a resume, an
\* evaluate job for an analysis that is handed over if it needs tailoring.
Produced(j) ==
  /\ j \in TailorJobs => HasResume(j)
  /\ j \in EvaluateJobs =>
       LET a == AnalysisOf[j] IN
       /\ analysis[a] # "none"
       /\ analysis[a] = "needs_tailoring" => row[a].status # "absent" \/ HasResume(a)

\* Success is established before it is reported, and carried from the handler to
\* the session that marks the job: between the two the tailor job an evaluation
\* enqueues may still be an uncommitted insert.
Outcome(v) ==
  LET j == worker[v].job IN
  /\ worker[v].pc = "ok" => Produced(j)
  /\ worker[v].pc = "handed" =>
       /\ j \in EvaluateJobs
       /\ analysis[AnalysisOf[j]] # "none"
       /\ \/ Produced(j)
          \/ sess[v].op = "insert" /\ sess[v].job = AnalysisOf[j]
  /\ sess[v].op = "succeed" => Produced(sess[v].job)

Outcomes ==
  /\ \A v \in Workers : Outcome(v)
  /\ \A j \in Jobs : row[j].status = "succeeded" => Produced(j)

\* What is produced stays: rows, resumes and routes are never taken away.
LEMMA ProducedStays ==
  ASSUME Kept, Grown, NEW j, Produced(j)
  PROVE  Produced(j)'
<1>1. CASE j \in EvaluateJobs
  <2>. DEFINE a == AnalysisOf[j]
  <2>1. a \in TailorJobs /\ a \in Jobs
    BY <1>1, PipelineAssumption DEF Jobs
  <2>2. analysis[a] # "none" /\ analysis'[a] = analysis[a]
    BY <1>1, <2>1 DEF Produced, Kept
  <2>3. row[a].status # "absent" => row'[a].status # "absent"
    BY <2>1 DEF Grown
  <2>4. HasResume(a) => HasResume(a)'
    BY <2>1 DEF Kept
  <2>5. analysis'[a] = "needs_tailoring" => row'[a].status # "absent" \/ HasResume(a)'
    BY <1>1, <2>2, <2>3, <2>4 DEF Produced
  <2>6. j \in TailorJobs => HasResume(j)'
    BY DEF Produced, Kept
  <2>. HIDE DEF a
  <2>7. analysis'[AnalysisOf[j]] # "none"
    BY <2>2 DEF a
  <2>. QED BY <2>5, <2>6, <2>7 DEF Produced, a
<1>2. CASE j \notin EvaluateJobs
  BY <1>2 DEF Produced, Kept
<1>. QED BY <1>1, <1>2

\* A worker the step does not concern.
LEMMA OutcomeStays ==
  ASSUME Kept, Grown, NEW v \in Workers, Outcome(v),
         worker'[v] = worker[v], sess'[v] = sess[v]
  PROVE  Outcome(v)'
<1>1. worker[v].pc = "ok" => Produced(worker[v].job)'
  BY ProducedStays DEF Outcome
<1>2. sess[v].op = "succeed" => Produced(sess[v].job)'
  BY ProducedStays DEF Outcome
<1>3. worker[v].pc = "handed" =>
        /\ worker[v].job \in EvaluateJobs
        /\ analysis'[AnalysisOf[worker[v].job]] # "none"
        /\ \/ Produced(worker[v].job)'
           \/ sess[v].op = "insert" /\ sess[v].job = AnalysisOf[worker[v].job]
  BY ProducedStays, PipelineAssumption DEF Outcome, Kept
<1>. QED BY <1>1, <1>2, <1>3 DEF Outcome

\* A row becomes succeeded only by a worker that reports a success.
LEMMA NewlySucceeded ==
  ASSUME Safe, [Next]_vars, NEW j \in Jobs, row'[j].status = "succeeded"
  PROVE  \/ row[j].status = "succeeded"
         \/ \E w \in Workers : sess[w].op = "succeed" /\ sess[w].job = j
<1>. DEFINE Goal == \/ row[j].status = "succeeded"
                    \/ \E w \in Workers : sess[w].op = "succeed" /\ sess[w].job = j
<1>0. row \in [Jobs -> Row]
  BY DEF Safe, Shape, TypeOK
<1>1. ASSUME row' = row PROVE Goal
  BY <1>1
<1>2. ASSUME NEW k, NEW r, r.status # "succeeded", row' = [row EXCEPT ![k] = r]
      PROVE  Goal
  BY <1>0, <1>2
<1>3. ASSUME NEW s, NEW new, Commits(s, new), new.status # "succeeded"
      PROVE  Goal
  <2>1. Flush(row[sess[s].job], sess[s].snap, new).status \in
          {new.status, row[sess[s].job].status}
    BY DEF Flush
  <2>2. row' = [row EXCEPT ![sess[s].job] = Flush(row[sess[s].job], sess[s].snap, new)]
    BY <1>3 DEF Commits
  <2>. QED BY <1>0, <1>3, <2>1, <2>2
<1>. HIDE DEF Goal
<1>4. ASSUME NEW s \in Sessions, CommitStep(s) PROVE Goal
  <2>1. sess[s].snap \in Row
    BY DEF Safe, Shape, TypeOK
  <2>2. /\ SetQueued(Absent).status # "succeeded"
        /\ SetQueued(sess[s].snap).status # "succeeded"
        /\ SetCancelled(sess[s].snap).status # "succeeded"
    BY <2>1 DEF SetQueued, SetCancelled, Absent, Row
  <2>3. CASE InsertCommit(s)
    BY <1>1, <1>2, <2>2, <2>3 DEF InsertCommit
  <2>. QED BY <1>3, <1>4, <2>2, <2>3 DEF CommitStep, RequeueCommit, CancelCommit
<1>5. ASSUME NEW w \in Workers, ClaimCommit(w) PROVE Goal
  <2>1. worker[w].job \in Jobs
    BY <1>5 DEF Safe, Shape, WorkerInv, Idle, ClaimCommit
  <2>2. SetRunning(row[worker[w].job]).status # "succeeded"
    BY <1>0, <2>1 DEF SetRunning, Row
  <2>. QED BY <1>2, <1>5, <2>2 DEF ClaimCommit
<1>6. ASSUME NEW w \in Workers, FailCommit(w) PROVE Goal
  <2>1. sess[w].snap \in Row
    BY DEF Safe, Shape, TypeOK, Sessions
  <2>2. SetFailed(sess[w].snap).status # "succeeded"
    BY <2>1 DEF SetFailed, SetTerminal, SetRetryWait, Row
  <2>. QED BY <1>3, <1>6, <2>2 DEF FailCommit
<1>7. ASSUME NEW w \in Workers, SucceedCommit(w) PROVE Goal
  <2>1. CASE sess[w].job = j
    BY <1>7, <2>1 DEF SucceedCommit, Goal
  <2>2. CASE sess[w].job # j
    <3>1. row'[j] = row[j]
      BY <1>0, <1>7, <2>2 DEF SucceedCommit, Commits
    <3>. QED BY <3>1 DEF Goal
  <2>. QED BY <2>1, <2>2
<1>8. Goal
  BY <1>1, <1>4, <1>5, <1>6, <1>7
  DEF Next, ClientStep, WorkerStep, Submit, Cancel, ClaimSelect, Execute, MarkRead,
      Handoff, BackoffElapses, Crash, vars
<1>. QED BY <1>8 DEF Goal

Ready == Known /\ Safe /\ AttemptsInv /\ Outcomes

\* The step of worker w, or of its session, leaves the other workers alone.
LEMMA OneOutcome ==
  ASSUME Kept, Grown, Outcomes, NEW w \in Workers, Outcome(w)',
         \A v \in Workers : v # w => worker'[v] = worker[v] /\ sess'[v] = sess[v]
  PROVE  \A v \in Workers : Outcome(v)'
<1>. SUFFICES ASSUME NEW v \in Workers PROVE Outcome(v)'
  OBVIOUS
<1>. QED BY OutcomeStays DEF Outcomes

\* The end of an execution: "ok" only with what success stands for.
LEMMA EndOutcome ==
  ASSUME Ready, Kept, Grown, NEW w \in Workers, NEW outcome \in {"ok", "err"},
         Ends(w, outcome), outcome = "ok" => Produced(worker[w].job)'
  PROVE  \A v \in Workers : Outcome(v)'
<1>1. /\ worker' = [worker EXCEPT ![w].pc = outcome] /\ sess' = sess
      /\ sess[w] = Closed
  BY DEF Ends, Execute
<1>2. PipelineTypeOK /\ Shape
  BY DEF Ready, Known, Safe
<1>3. /\ worker'[w].pc = outcome /\ worker'[w].job = worker[w].job
      /\ \A v \in Workers : v # w => worker'[v] = worker[v]
  BY <1>1, <1>2, Moving
<1>4. sess'[w].op = "none"
  BY <1>1 DEF Closed
<1>5. Outcome(w)'
  BY <1>3, <1>4 DEF Outcome
<1>. QED BY <1>1, <1>3, <1>5, OneOutcome DEF Ready

\* An evaluation is done when there is nothing to hand over.
LEMMA RouteProduced ==
  ASSUME Known, NEW w \in Workers, AtStep(w, "evaluated"),
         LET a == AnalysisOf[worker[w].job] IN
           analysis[a] = "needs_tailoring" => HasResume(a) \/ row[a].status \in Active
  PROVE  Produced(worker[w].job)
<1>1. /\ worker[w].job \in EvaluateJobs
      /\ analysis[AnalysisOf[worker[w].job]] # "none"
  BY DEF Known, StepInv, Knows, AtStep
<1>2. worker[w].job \notin TailorJobs
  BY <1>1, JobsAssumption
<1>3. "absent" \notin Active
  BY DEF Active, Claimable
<1>. QED BY <1>1, <1>2, <1>3 DEF Produced

LEMMA HandoffOutcome ==
  ASSUME Ready, Kept, Grown, NEW w \in Workers, NEW b, AtStep(w, "evaluated"),
         Handoff(w, AnalysisOf[worker[w].job], b)
  PROVE  \A v \in Workers : Outcome(v)'
<1>. DEFINE j == worker[w].job
            a == AnalysisOf[j]
<1>1. PipelineTypeOK /\ Shape /\ sess \in [Sessions -> SessRecord] /\ Workers \subseteq Sessions
  BY DEF Ready, Known, Safe, Shape, TypeOK, SessRecord, Sessions
<1>2. j \in EvaluateJobs /\ analysis[a] # "none"
  BY DEF Ready, Known, StepInv, Knows, AtStep
<1>3. a \in TailorJobs /\ j \notin TailorJobs
  BY <1>2, PipelineAssumption, JobsAssumption
<1>4. worker' = [worker EXCEPT ![w].pc = "handed"] /\ row' = row
  BY DEF Handoff
<1>5. PICK op \in {"insert", "requeue"} :
        Opens(w, a, op) /\ (op = "insert" \/ row[a].status \in Terminal)
  BY DEF Handoff, EnqueueTailoring, EnqueueRead
<1>6. sess' = [sess EXCEPT ![w] = [op |-> op, job |-> a, snap |-> row[a]]]
  BY <1>5 DEF Opens
<1>7. worker'[w].pc = "handed" /\ worker'[w].job = j
  BY <1>1, <1>4, Moving
<1>8. \A v \in Workers : v # w => worker'[v] = worker[v]
  BY <1>1, <1>4, Moving
<1>9. sess'[w].op = op /\ sess'[w].job = a
  BY <1>1, <1>6
<1>10. \A v \in Workers : v # w => sess'[v] = sess[v]
  BY <1>1, <1>6
<1>11. op = "insert" \/ Produced(j)'
  <2>1. CASE row[a].status \in Terminal
    <3>1. row[a].status # "absent"
      BY <2>1 DEF Terminal
    <3>2. Produced(j)
      BY <1>2, <1>3, <3>1 DEF Produced
    <3>. QED BY <1>7, <3>2, ProducedStays
  <2>. QED BY <1>5, <2>1
<1>12. analysis'[a] # "none"
  BY <1>2, <1>3 DEF Kept
<1>13. Outcome(w)'
  <2>1. worker'[w].job \in EvaluateJobs
    BY <1>2, <1>7
  <2>2. analysis'[AnalysisOf[worker'[w].job]] # "none"
    BY <1>7, <1>12
  <2>3. Produced(worker[w].job)' \/ sess'[w].op = "insert"
    BY <1>9, <1>11
  <2>4. sess'[w].job = AnalysisOf[worker'[w].job] /\ sess'[w].op # "succeed"
    BY <1>7, <1>9
  <2>5. worker'[w].pc # "ok"
    BY <1>7
  <2>. QED BY <2>1, <2>2, <2>3, <2>4, <2>5 DEF Outcome
<1>. QED BY <1>8, <1>10, <1>13, OneOutcome DEF Ready

\* The handlers.
LEMMA WorkOutcome ==
  ASSUME Ready, Kept, Grown, NEW w \in Workers, PipelineWork(w)
  PROVE  \A v \in Workers : Outcome(v)'
<1>. DEFINE Goal == \A v \in Workers : Outcome(v)'
<1>1. ASSUME UNCHANGED vars PROVE Goal
  BY <1>1, OutcomeStays DEF vars, Ready, Outcomes
<1>2. ASSUME Ends(w, "err") PROVE Goal
  BY <1>2, EndOutcome
<1>3. ASSUME Ends(w, "ok"), Produced(worker[w].job)' PROVE Goal
  BY <1>3, EndOutcome
\* The job stays the worker's while its execution ends.
<1>4. ASSUME Ends(w, "ok"), Produced(worker[w].job) PROVE Produced(worker[w].job)'
  <2>1. worker' = [worker EXCEPT ![w].pc = "ok"]
    BY <1>4 DEF Ends, Execute
  <2>2. worker'[w].job = worker[w].job
    BY <2>1, Moving DEF Ready, Known, Safe
  <2>. QED BY <1>4, <2>2, ProducedStays
<1>5. ASSUME AtStep(w, "evaluated"), NEW b, Handoff(w, AnalysisOf[worker[w].job], b)
      PROVE  Goal
  BY <1>5, HandoffOutcome
<1>. SUFFICES Goal
  OBVIOUS
<1>. HIDE DEF Goal
<1>6. CASE EvaluateRoute(w)
  <2>1. CASE LET a == AnalysisOf[worker[w].job] IN
               /\ analysis[a] = "needs_tailoring" => HasResume(a) \/ row[a].status \in Active
               /\ AtStep(w, "evaluated")
               /\ Ends(w, "ok")
    <3>1. Produced(worker[w].job)'
      BY <1>4, <2>1, RouteProduced DEF Ready
    <3>. QED BY <1>3, <2>1, <3>1
  <2>. QED BY <1>2, <1>5, <1>6, <2>1 DEF EvaluateRoute
<1>7. CASE \E outcome \in {"ok", "err"} : EvaluateReturn(w, outcome)
  <2>1. CASE EvaluateReturn(w, "ok")
    <3>1. worker[w].pc = "handed" /\ sess[w] = Closed /\ Ends(w, "ok")
      BY <2>1 DEF EvaluateReturn, Ends, Execute
    <3>2. sess[w].op # "insert"
      BY <3>1 DEF Closed
    <3>3. Produced(worker[w].job)
      BY <3>1, <3>2 DEF Ready, Outcomes, Outcome
    <3>. QED BY <1>3, <1>4, <3>1, <3>3
  <2>. QED BY <1>2, <1>7, <2>1 DEF EvaluateReturn
<1>8. CASE TailorCommit(w)
  <2>1. worker[w].job \in TailorJobs /\ worker[w].job \notin EvaluateJobs
    BY <1>8, JobsAssumption DEF TailorCommit, AtStep, Ready, Known, StepInv, Knows
  <2>2. CASE Stores(worker[w].job, step[w].n, "worker", "local") /\ Ends(w, "ok")
    <3>1. worker' = [worker EXCEPT ![w].pc = "ok"]
      BY <2>2 DEF Ends, Execute
    <3>2. [of |-> worker[w].job, n |-> step[w].n, by |-> "worker", pdf |-> "local"]
            \in resumes'
      BY <2>2 DEF Stores
    <3>3. \E r \in resumes' : r.of = worker[w].job
      BY <3>2
    <3>4. worker'[w].job = worker[w].job
      BY <3>1, Moving DEF Ready, Known, Safe
    <3>. QED BY <1>3, <2>1, <2>2, <3>3, <3>4 DEF Produced, HasResume
  <2>. QED BY <1>2, <1>8, <2>2 DEF TailorCommit
<1>. QED
  BY <1>1, <1>2, <1>6, <1>7, <1>8
  DEF PipelineWork, EvaluateStart, EvaluateScore, TailorStart, TailorGenerate,
      TailorWrite, TailorLastCheck

\* The commit of a session: an insert makes the tailor job a row others can see.
LEMMA CommitOutcome ==
  ASSUME Ready, Kept, Grown, NEW s \in Sessions, CommitStep(s)
  PROVE  \A v \in Workers : Outcome(v)'
<1>0. sess \in [Sessions -> SessRecord] /\ row \in [Jobs -> Row] /\ Workers \subseteq Sessions
  BY DEF Ready, Safe, Shape, TypeOK, SessRecord, Sessions
<1>1. worker' = worker /\ sess' = [sess EXCEPT ![s] = Closed]
  BY DEF CommitStep, InsertCommit, RequeueCommit, CancelCommit, Commits
<1>2. \A v \in Workers : v # s => sess'[v] = sess[v]
  BY <1>0, <1>1
<1>3. ASSUME NEW w \in Workers, w = s PROVE Outcome(w)'
  <2>1. sess'[w].op = "none"
    BY <1>0, <1>1, <1>3 DEF Closed
  <2>2. worker[w].pc = "ok" => Produced(worker[w].job)'
    BY <1>1, ProducedStays DEF Ready, Outcomes, Outcome
  <2>3. CASE worker[w].pc = "handed"
    <3>1. /\ worker[w].job \in EvaluateJobs
          /\ AnalysisOf[worker[w].job] \in TailorJobs
          /\ analysis[AnalysisOf[worker[w].job]] # "none"
      BY <2>3, PipelineAssumption DEF Ready, Outcomes, Outcome
    <3>2. analysis'[AnalysisOf[worker[w].job]] # "none"
      BY <3>1 DEF Kept
    <3>3. CASE Produced(worker[w].job)
      BY <1>1, <2>1, <2>3, <3>1, <3>2, <3>3, ProducedStays DEF Outcome
    <3>4. CASE sess[w].op = "insert" /\ sess[w].job = AnalysisOf[worker[w].job]
      <4>1. InsertCommit(w)
        BY <1>3, <3>4 DEF CommitStep, RequeueCommit, CancelCommit
      <4>2. row'[AnalysisOf[worker[w].job]].status # "absent"
        <5>1. AnalysisOf[worker[w].job] \in Jobs
          BY <3>1 DEF Jobs
        <5>2. SetQueued(Absent).status = "queued"
          BY DEF SetQueued, Absent
        <5>. QED BY <1>0, <3>4, <4>1, <5>1, <5>2 DEF InsertCommit
      <4>3. Produced(worker[w].job)'
        BY <1>1, <3>1, <3>2, <4>2, JobsAssumption DEF Produced
      <4>. QED BY <1>1, <2>1, <2>3, <3>1, <3>2, <4>3 DEF Outcome
    <3>. QED BY <2>3, <3>3, <3>4 DEF Ready, Outcomes, Outcome
  <2>. QED BY <1>1, <2>1, <2>2, <2>3 DEF Outcome
<1>4. ASSUME NEW v \in Workers PROVE Outcome(v)'
  <2>1. CASE v = s
    BY <1>3, <2>1
  <2>2. CASE v # s
    BY <1>1, <1>2, <2>2, OutcomeStays DEF Ready, Outcomes
  <2>. QED BY <2>1, <2>2
<1>. QED BY <1>4

LEMMA NextOutcome ==
  ASSUME Ready, Kept, Grown, [PipelineNext]_pipelineVars
  PROVE  \A v \in Workers : Outcome(v)'
<1>. DEFINE Goal == \A v \in Workers : Outcome(v)'
<1>0. /\ sess \in [Sessions -> SessRecord] /\ worker \in [Workers -> WorkerRecord]
      /\ Workers \subseteq Sessions /\ PipelineTypeOK /\ Shape /\ Outcomes
      /\ \A w \in Workers : sess[w].op = "succeed" => worker[w].pc = "mark"
  BY DEF Ready, Known, Safe, Shape, TypeOK, SessRecord, WorkerRecord, Sessions, SessionInv
<1>1. ASSUME \A v \in Workers : worker'[v] = worker[v] /\ sess'[v] = sess[v]
      PROVE  Goal
  BY <1>0, <1>1, OutcomeStays DEF Outcomes
\* A worker that reports nothing.
<1>2. ASSUME NEW w \in Workers,
             worker'[w].pc \notin {"ok", "handed"}, sess'[w].op # "succeed",
             \A v \in Workers : v # w => worker'[v] = worker[v] /\ sess'[v] = sess[v]
      PROVE  Goal
  <2>1. Outcome(w)'
    BY <1>2 DEF Outcome
  <2>. QED BY <1>0, <1>2, <2>1, OneOutcome
<1>. SUFFICES Goal
  OBVIOUS
<1>. HIDE DEF Goal
<1>3. ASSUME NEW w \in Workers, PipelineClaim(w) PROVE Goal
  <2>1. CASE ClaimSelect(w)
    <3>1. PICK j \in Jobs : worker' = [worker EXCEPT ![w] = [pc |-> "claim", job |-> j]]
      BY <2>1 DEF ClaimSelect
    <3>2. worker'[w].pc = "claim" /\ \A v \in Workers : v # w => worker'[v] = worker[v]
      BY <1>0, <3>1
    <3>3. sess' = sess /\ sess[w].op # "succeed"
      BY <1>0, <2>1 DEF ClaimSelect, Idle
    <3>. QED BY <1>2, <3>2, <3>3
  <2>2. CASE ClaimCommit(w)
    <3>1. worker' = [worker EXCEPT ![w].pc = "run"] /\ worker[w].pc = "claim" /\ sess' = sess
      BY <2>2 DEF ClaimCommit
    <3>2. worker'[w].pc = "run" /\ \A v \in Workers : v # w => worker'[v] = worker[v]
      BY <1>0, <3>1, Moving
    <3>. QED BY <1>0, <1>2, <3>1, <3>2
  <2>. QED BY <1>3, <2>1, <2>2 DEF PipelineClaim
<1>4. ASSUME NEW w \in Workers, MarkRead(w) PROVE Goal
  <2>1. worker' = [worker EXCEPT ![w].pc = "mark"]
    BY <1>4 DEF MarkRead
  <2>2. /\ worker'[w].pc = "mark" /\ worker'[w].job = worker[w].job
        /\ \A v \in Workers : v # w => worker'[v] = worker[v]
    BY <1>0, <2>1, Moving
  <2>3. sess' = [sess EXCEPT ![w] =
                   [op |-> IF worker[w].pc = "ok" THEN "succeed" ELSE "fail",
                    job |-> worker[w].job, snap |-> row[worker[w].job]]]
    BY <1>4 DEF MarkRead, Opens
  <2>4. /\ sess'[w].op = IF worker[w].pc = "ok" THEN "succeed" ELSE "fail"
        /\ sess'[w].job = worker[w].job
        /\ \A v \in Workers : v # w => sess'[v] = sess[v]
    BY <1>0, <2>3
  <2>5. CASE worker[w].pc = "ok"
    <3>1. Produced(worker[w].job)
      BY <1>0, <2>5 DEF Outcomes, Outcome
    <3>2. Produced(sess[w].job)'
      BY <2>4, <3>1, ProducedStays
    <3>3. Outcome(w)'
      BY <2>2, <3>2 DEF Outcome
    <3>. QED BY <1>0, <2>2, <2>4, <3>3, OneOutcome DEF Goal
  <2>6. CASE worker[w].pc # "ok"
    BY <1>2, <2>2, <2>4, <2>6
  <2>. QED BY <2>5, <2>6
<1>5. ASSUME NEW w \in Workers, SucceedCommit(w) \/ FailCommit(w) \/ Crash(w) PROVE Goal
  <2>1. worker' = [worker EXCEPT ![w] = Idle] /\ sess' = [sess EXCEPT ![w] = Closed]
    BY <1>5 DEF SucceedCommit, FailCommit, Crash, Commits
  <2>2. worker'[w].pc = "idle" /\ sess'[w].op = "none"
    BY <1>0, <2>1 DEF Idle, Closed
  <2>3. \A v \in Workers : v # w => worker'[v] = worker[v] /\ sess'[v] = sess[v]
    BY <1>0, <2>1
  <2>. QED BY <1>2, <2>2, <2>3
<1>6. ASSUME NEW s \in Clients, NEW j, NEW op, Opens(s, j, op), worker' = worker PROVE Goal
  <2>1. s \notin Workers
    BY ActorsAssumption
  <2>2. \A v \in Workers : sess'[v] = sess[v]
    BY <1>0, <1>6, <2>1 DEF Opens
  <2>. QED BY <1>1, <1>6, <2>2
<1>7. CASE PipelineClient
  <2>1. ASSUME NEW s \in Submitters, NEW j \in Jobs, ApiSubmit(s, j) PROVE Goal
    <3>1. worker' = worker /\ \E op : Opens(s, j, op)
      BY <2>1 DEF ApiSubmit, Submit, EnqueueTailoring, EnqueueEvaluate, EnqueueRead
    <3>. QED BY <1>6, <3>1 DEF Clients
  <2>2. ASSUME NEW s \in Cancellers, NEW j \in Jobs, Cancel(s, j) PROVE Goal
    BY <1>6, <2>2 DEF Cancel, CancelRead, Clients
  <2>3. ASSUME UNCHANGED vars PROVE Goal
    BY <1>1, <2>3 DEF vars
  <2>. QED
    BY <1>7, <2>1, <2>2, <2>3 DEF PipelineClient, ApiEvaluate, Deliver, Download
<1>8. ASSUME NEW s \in Sessions, PipelineCommit(s) PROVE Goal
  BY <1>8, CommitOutcome DEF PipelineCommit, Goal
<1>9. ASSUME NEW j \in Jobs, PipelineBackoff(j) PROVE Goal
  BY <1>1, <1>9 DEF PipelineBackoff, BackoffElapses
<1>10. CASE UNCHANGED pipelineVars
  BY <1>1, <1>10 DEF pipelineVars, vars
<1>11. ASSUME NEW w \in Workers, PipelineWork(w) PROVE Goal
  BY <1>11, WorkOutcome DEF Goal
<1>. QED
  BY <1>3, <1>4, <1>5, <1>7, <1>8, <1>9, <1>10, <1>11
  DEF PipelineNext, PipelineWorker, PipelineMark, PipelineCrash

LEMMA OutcomesInvariant == PipelineSpec => []Outcomes
<1>1. PipelineInit => Outcomes
  BY DEF PipelineInit, Init, Sessions, Outcomes, Outcome, Idle, Closed, Absent
<1>2. Ready /\ [PipelineNext]_pipelineVars => Outcomes'
  <2>. SUFFICES ASSUME Ready, [PipelineNext]_pipelineVars PROVE Outcomes'
    OBVIOUS
  <2>1. Kept
    BY NothingIsLost DEF Ready, Known
  <2>2. [Next]_vars
    BY StepIsQueueStep
  <2>3. Grown
    BY <2>2, NextGrown DEF Ready
  <2>4. \A v \in Workers : Outcome(v)'
    BY <2>1, <2>3, NextOutcome
  <2>5. ASSUME NEW j \in Jobs, row'[j].status = "succeeded" PROVE Produced(j)'
    <3>1. CASE row[j].status = "succeeded"
      BY <2>1, <2>3, <3>1, ProducedStays DEF Ready, Outcomes
    <3>2. CASE \E w \in Workers : sess[w].op = "succeed" /\ sess[w].job = j
      BY <2>1, <2>3, <3>2, ProducedStays DEF Ready, Outcomes, Outcome
    <3>. QED BY <2>2, <2>5, <3>1, <3>2, NewlySucceeded DEF Ready
  <2>. QED BY <2>4, <2>5 DEF Outcomes
<1>. QED BY <1>1, <1>2, KnownInvariant, PTL DEF PipelineSpec, Ready

\* A tailor job is marked succeeded only when its resume is stored, whoever
\* stored it and whatever updates of its row are lost.
THEOREM SuccessHasResume == PipelineSpec => []SucceededHasResume
<1>1. Outcomes => SucceededHasResume
  BY DEF Outcomes, Produced, SucceededHasResume, Jobs
<1>. QED BY <1>1, OutcomesInvariant, PTL

\* An evaluation is marked succeeded only when the tailor job it leads to exists
\* or is not needed.
THEOREM HandoverBeforeSuccess == PipelineSpec => []EvaluateHandsOver
<1>1. Outcomes => EvaluateHandsOver
  BY DEF Outcomes, Produced, EvaluateHandsOver, Jobs
<1>. QED BY <1>1, OutcomesInvariant, PTL
----------------------------------------------------------------------------
(* One draft.                                                              *)

\* A worker that has stored nothing for its job, or is about to mark a failure.
Unstored(w) == worker[w].pc \in {"run", "handed", "err"} \/ sess[w].op = "fail"

Waiting == {"absent", "queued", "retry_wait", "failed", "cancelled"}

\* A tailor job is put back only if it has not succeeded.
Requeues ==
  \A s \in Sessions :
    sess[s].op = "requeue" /\ sess[s].job \in TailorJobs =>
      sess[s].snap.status # "succeeded"

\* Where a draft has its number.
Late == {"written", "commit"}

Writing(w) == worker[w].pc = "run" /\ step[w].at \in Late

\* A resume, and a draft that is being written, has a number that was given out.
Numbered ==
  /\ \A r \in resumes : r.n <= minted[r.of]
  /\ \A w \in Workers : Writing(w) => step[w].n <= minted[worker[w].job]

\* A reported draft is the last one.
Last(t) == \A r \in Reported(t), q \in Drafts(t) : q = r \/ q.n < r.n

\* What is held of the drafts of analysis t: besides OneDraft, that a worker who
\* has stored nothing finds no reported draft, one at work has an attempt left to
\* pay its draft with, and one that writes has the highest number.
Held(t) ==
  /\ Last(t)
  /\ row[t].status \in Waiting => Reported(t) = {}
  /\ IsFiniteSet(Drafts(t)) /\ Cardinality(Drafts(t)) <= row[t].attempts
  /\ \A w \in Workers : worker[w].job = t =>
       /\ Unstored(w) => Reported(t) = {}
       /\ worker[w].pc = "run" => Cardinality(Drafts(t)) < row[t].attempts
       /\ Writing(w) => \A q \in Drafts(t) : q.n < step[w].n

\* Drafts are stored by the one execution of the job.
DraftInv == Requeues /\ Numbered /\ \A t \in TailorJobs \ lost : Held(t)

\* What the steps that follow rely on.
Drafting == Safe /\ AttemptsInv /\ ExecutionInv /\ Known /\ SucceededHasResume /\ DraftInv

\* A worker begins to be one that has stored nothing by its claim.
LEMMA UnstoredMoves ==
  ASSUME Safe, [Next]_vars, NEW w \in Workers, Unstored(w)'
  PROVE  /\ worker'[w].job = worker[w].job
         /\ Unstored(w) \/ worker[w].pc = "claim"
<1>. DEFINE Goal == /\ worker'[w].job = worker[w].job
                    /\ Unstored(w) \/ worker[w].pc = "claim"
<1>0. /\ sess \in [Sessions -> SessRecord] /\ worker \in [Workers -> WorkerRecord]
      /\ Workers \subseteq Sessions
  BY DEF Safe, Shape, TypeOK, SessRecord, WorkerRecord, Sessions
<1>1. ASSUME worker'[w] = worker[w], sess'[w] = sess[w] \/ sess'[w].op # "fail"
      PROVE  Goal
  BY <1>1 DEF Unstored
<1>2. ASSUME worker'[w].pc \notin {"run", "handed", "err"}, sess'[w].op # "fail"
      PROVE  Goal
  BY <1>2 DEF Unstored
<1>. SUFFICES Goal
  OBVIOUS
<1>. HIDE DEF Goal
<1>3. ASSUME NEW s \in Sessions, NEW j, NEW op, op # "fail", Opens(s, j, op),
             worker' = worker
      PROVE  Goal
  BY <1>0, <1>1, <1>3 DEF Opens
<1>4. CASE ClientStep
  <2>1. ASSUME NEW s \in Submitters, NEW j \in Jobs, NEW b \in BOOLEAN, Submit(s, j, b)
        PROVE  Goal
    BY <1>3, <2>1
    DEF Submit, EnqueueTailoring, EnqueueEvaluate, EnqueueRead, Sessions, Clients
  <2>2. ASSUME NEW s \in Cancellers, NEW j \in Jobs, Cancel(s, j) PROVE Goal
    BY <1>3, <2>2 DEF Cancel, CancelRead, Sessions, Clients
  <2>. QED BY <1>4, <2>1, <2>2 DEF ClientStep
<1>5. ASSUME NEW s \in Sessions, CommitStep(s) PROVE Goal
  <2>1. worker' = worker /\ sess' = [sess EXCEPT ![s] = Closed]
    BY <1>5 DEF CommitStep, InsertCommit, RequeueCommit, CancelCommit, Commits
  <2>2. sess'[w] = sess[w] \/ sess'[w].op # "fail"
    BY <1>0, <2>1 DEF Closed
  <2>. QED BY <1>1, <2>1, <2>2
<1>6. ASSUME NEW v \in Workers, ClaimSelect(v) PROVE Goal
  <2>1. PICK j \in Jobs : worker' = [worker EXCEPT ![v] = [pc |-> "claim", job |-> j]]
    BY <1>6 DEF ClaimSelect
  <2>2. sess' = sess /\ worker[v].pc = "idle"
    BY <1>6 DEF ClaimSelect, Idle
  <2>3. sess[v].op # "fail"
    BY <1>0, <2>2 DEF Safe, Shape, SessionInv
  <2>. QED BY <1>0, <1>1, <1>2, <2>1, <2>2, <2>3
<1>7. ASSUME NEW v \in Workers, NEW pc, worker' = [worker EXCEPT ![v].pc = pc]
      PROVE  /\ worker'[v].pc = pc /\ worker'[w].job = worker[w].job
             /\ v # w => worker'[w] = worker[w]
  BY <1>0, <1>7 DEF WorkerRecord
<1>8. ASSUME NEW v \in Workers,
             ClaimCommit(v) \/ \E outcome \in {"ok", "err"} : Execute(v, outcome)
      PROVE  Goal
  <2>1. /\ \E pc : worker' = [worker EXCEPT ![v].pc = pc]
        /\ sess' = sess /\ worker[v].pc \in {"claim", "run", "handed"}
    BY <1>8 DEF ClaimCommit, Execute
  <2>. QED BY <1>1, <1>7, <2>1 DEF Unstored, Goal
<1>9. ASSUME NEW v \in Workers, MarkRead(v) PROVE Goal
  <2>1. worker' = [worker EXCEPT ![v].pc = "mark"] /\ worker[v].pc \in {"ok", "err"}
    BY <1>9 DEF MarkRead
  <2>2. sess' = [sess EXCEPT ![v] =
                   [op |-> IF worker[v].pc = "ok" THEN "succeed" ELSE "fail",
                    job |-> worker[v].job, snap |-> row[worker[v].job]]]
    BY <1>9 DEF MarkRead, Opens
  <2>3. CASE v = w
    <3>1. worker'[w].pc = "mark" /\ worker'[w].job = worker[w].job
      BY <1>7, <2>1, <2>3
    <3>2. sess'[w].op = "fail" => worker[w].pc = "err"
      BY <1>0, <2>1, <2>2, <2>3
    <3>. QED BY <3>1, <3>2 DEF Unstored, Goal
  <2>4. CASE v # w
    BY <1>0, <1>1, <1>7, <2>1, <2>2, <2>4
  <2>. QED BY <2>3, <2>4
<1>10. ASSUME NEW v \in Workers, SucceedCommit(v) \/ FailCommit(v) \/ Crash(v) PROVE Goal
  <2>1. worker' = [worker EXCEPT ![v] = Idle] /\ sess' = [sess EXCEPT ![v] = Closed]
    BY <1>10 DEF SucceedCommit, FailCommit, Crash, Commits
  <2>2. CASE v = w
    BY <1>0, <1>2, <2>1, <2>2 DEF Idle, Closed
  <2>3. CASE v # w
    BY <1>0, <1>1, <2>1, <2>3
  <2>. QED BY <2>2, <2>3
<1>11. ASSUME NEW v \in Workers, NEW j \in TailorJobs, NEW b \in BOOLEAN, Handoff(v, j, b)
       PROVE  Goal
  <2>1. /\ worker' = [worker EXCEPT ![v].pc = "handed"] /\ worker[v].pc = "run"
        /\ \E op : op # "fail" /\ Opens(v, j, op)
    BY <1>11 DEF Handoff, EnqueueTailoring, EnqueueRead
  <2>2. v # w => sess'[w] = sess[w]
    BY <1>0, <2>1 DEF Opens
  <2>. QED BY <1>1, <1>7, <2>1, <2>2 DEF Unstored, Goal
<1>12. ASSUME NEW j \in Jobs, BackoffElapses(j) PROVE Goal
  BY <1>1, <1>12 DEF BackoffElapses
<1>13. CASE UNCHANGED vars
  BY <1>1, <1>13 DEF vars
<1>. QED
  BY <1>4, <1>5, <1>6, <1>8, <1>9, <1>10, <1>11, <1>12, <1>13 DEF Next, WorkerStep
\* A job comes to wait, or ends without success, only from such a status or by
\* the worker that marks its failure, unless an update of its row is lost.
LEMMA WaitingMoves ==
  ASSUME Safe, Requeues, [Next]_vars, NEW t \in TailorJobs, t \notin lost',
         row'[t].status \in Waiting
  PROVE  /\ t \notin lost
         /\ \/ row[t].status \in Waiting
            \/ \E w \in Workers : sess[w].op = "fail" /\ sess[w].job = t
<1>. DEFINE Goal == /\ t \notin lost
                    /\ \/ row[t].status \in Waiting
                       \/ \E w \in Workers : sess[w].op = "fail" /\ sess[w].job = t
<1>0. /\ row \in [Jobs -> Row] /\ t \in Jobs /\ Shape
      /\ sess \in [Sessions -> SessRecord] /\ Workers \subseteq Sessions
  BY DEF Safe, Shape, TypeOK, Jobs, SessRecord, Sessions
<1>1. ASSUME row'[t] = row[t], lost \subseteq lost' PROVE Goal
  BY <1>1
<1>2. ASSUME NEW s \in Sessions, sess[s].op # "none", NEW new, Commits(s, new),
             sess[s].job = t => Goal
      PROVE  Goal
  <2>1. lost \subseteq lost'
    BY <1>2 DEF Commits
  <2>2. sess[s].job # t => row'[t] = row[t]
    BY <1>0, <1>2, CommitFrame
  <2>. HIDE DEF Goal
  <2>. QED BY <1>1, <1>2, <2>1, <2>2
<1>. SUFFICES Goal
  OBVIOUS
<1>. HIDE DEF Goal
<1>3. ASSUME NEW s \in Sessions, InsertCommit(s) PROVE Goal
  <2>1. lost' = lost /\ (row'[t] = row[t] \/ row[t].status = "absent")
    BY <1>0, <1>3 DEF InsertCommit
  <2>2. CASE row[t].status = "absent"
    BY <2>1, <2>2 DEF Goal, Waiting
  <2>. QED BY <1>1, <2>1, <2>2
<1>4. ASSUME NEW s \in Sessions, RequeueCommit(s) PROVE Goal
  <2>1. /\ sess[s].op = "requeue" /\ Commits(s, SetQueued(sess[s].snap))
        /\ SetQueued(sess[s].snap) \in Row /\ sess[s].snap \in Row
    BY <1>0, <1>4, SnapshotUpdates DEF RequeueCommit, SessRecord
  <2>2. CASE sess[s].job = t
    <3>1. row[t] = sess[s].snap
      BY <1>0, <2>1, <2>2, FreshCommit, UpdatedColumns DEF Statuses
    <3>2. sess[s].snap.status \in Waiting
      BY <1>0, <2>1, <2>2 DEF Requeues, Shape, SessionInv, Terminal, Waiting
    <3>3. t \notin lost
      BY <2>1 DEF Commits
    <3>. QED BY <3>1, <3>2, <3>3 DEF Goal
  <2>. QED BY <1>2, <2>1, <2>2
<1>5. ASSUME NEW s \in Sessions, CancelCommit(s) PROVE Goal
  <2>1. /\ sess[s].op = "cancel" /\ Commits(s, SetCancelled(sess[s].snap))
        /\ SetCancelled(sess[s].snap) \in Row /\ sess[s].snap \in Row
    BY <1>0, <1>5, SnapshotUpdates DEF CancelCommit, SessRecord
  <2>2. CASE sess[s].job = t
    <3>1. /\ row[t] = sess[s].snap /\ row'[t] = SetCancelled(sess[s].snap)
          /\ t \notin lost
      <4>1. SetCancelled(sess[s].snap).attempts = sess[s].snap.attempts
        BY <2>1 DEF SetCancelled, Row
      <4>2. t \notin lost
        BY <2>1 DEF Commits
      <4>. QED BY <1>0, <2>1, <2>2, <4>1, <4>2, FreshCommit
    <3>2. sess[s].snap.status \in Claimable
      BY <2>1, <3>1 DEF SetCancelled, Row, Waiting
    <3>. QED BY <3>1, <3>2 DEF Goal, Claimable, Waiting
  <2>. QED BY <1>2, <2>1, <2>2
<1>6. ASSUME NEW w \in Workers, ClaimCommit(w) PROVE Goal
  <2>1. worker[w].job \in locked[w]
    BY <1>6 DEF ClaimCommit, Safe, LockDiscipline
  <2>2. row[worker[w].job].status \in Waiting
    BY <2>1 DEF Safe, LockDiscipline, Claimable, Waiting
  <2>3. lost' = lost /\ (worker[w].job = t \/ row'[t] = row[t])
    BY <1>0, <1>6 DEF ClaimCommit
  <2>4. CASE worker[w].job = t
    BY <2>2, <2>3, <2>4 DEF Goal
  <2>. QED BY <1>1, <2>3, <2>4
<1>7. ASSUME NEW w \in Workers, SucceedCommit(w) PROVE Goal
  <2>1. /\ sess[w].op = "succeed" /\ Commits(w, SetTerminal(sess[w].snap, "succeeded"))
        /\ SetTerminal(sess[w].snap, "succeeded") \in Row /\ sess[w].snap \in Row
    BY <1>0, <1>7, SnapshotUpdates DEF SucceedCommit, SessRecord
  <2>2. /\ SetTerminal(sess[w].snap, "succeeded").attempts = sess[w].snap.attempts
        /\ SetTerminal(sess[w].snap, "succeeded").status = "succeeded"
    BY <2>1 DEF SetTerminal, Row
  <2>3. sess[w].job # t
    BY <1>0, <2>1, <2>2, FreshCommit DEF Waiting
  <2>. QED BY <1>0, <1>2, <2>1, <2>3
<1>8. ASSUME NEW w \in Workers, FailCommit(w) PROVE Goal
  <2>1. sess[w].op = "fail" /\ Commits(w, SetFailed(sess[w].snap))
    BY <1>8 DEF FailCommit
  <2>2. sess[w].job = t => Goal
    BY <2>1 DEF Goal, Commits
  <2>. QED BY <1>0, <1>2, <2>1, <2>2
<1>9. ASSUME row' = row, lost' = lost PROVE Goal
  BY <1>1, <1>9
<1>10. CASE ClientStep
  BY <1>9, <1>10 DEF ClientStep, Submit, Cancel
<1>11. ASSUME NEW w \in Workers, WorkerStep(w) PROVE Goal
  BY <1>6, <1>7, <1>8, <1>9, <1>11 DEF WorkerStep, ClaimSelect, Execute, MarkRead
<1>. QED
  BY <1>3, <1>4, <1>5, <1>9, <1>10, <1>11
  DEF Next, CommitStep, Handoff, BackoffElapses, Crash, vars

\* A requeue is read only while the analysis has no resume, so of no job that
\* has succeeded.
LEMMA NextRequeues ==
  ASSUME Safe, SucceededHasResume, Requeues, [PipelineNext]_pipelineVars
  PROVE  Requeues'
<1>0. sess \in [Sessions -> SessRecord] /\ Workers \subseteq Sessions
  BY DEF Safe, Shape, TypeOK, SessRecord, Sessions
<1>1. ASSUME \A s \in Sessions : sess'[s] = sess[s] \/ sess'[s].op # "requeue"
      PROVE  Requeues'
  BY <1>1 DEF Requeues
<1>2. ASSUME NEW s \in Sessions, NEW j, NEW op, Opens(s, j, op),
             op = "requeue" /\ j \in TailorJobs => row[j].status # "succeeded"
      PROVE  Requeues'
  <2>1. sess' = [sess EXCEPT ![s] = [op |-> op, job |-> j, snap |-> row[j]]]
    BY <1>2 DEF Opens
  <2>. QED BY <1>0, <1>2, <2>1 DEF Requeues
<1>3. ASSUME NEW s \in Sessions, NEW j, EnqueueTailoring(s, j, HasResume(j))
      PROVE  Requeues'
  BY <1>2, <1>3 DEF EnqueueTailoring, EnqueueRead, SucceededHasResume
<1>4. ASSUME NEW s \in Submitters, NEW j \in Jobs, ApiSubmit(s, j) PROVE Requeues'
  <2>1. CASE j \in TailorJobs
    <3>1. EnqueueTailoring(s, j, HasResume(j))
      BY <1>4, <2>1, JobsAssumption DEF ApiSubmit, Submit, EnqueueEvaluate
    <3>. QED BY <1>3, <3>1 DEF Sessions, Clients
  <2>2. CASE j \notin TailorJobs
    <3>1. \E op : Opens(s, j, op)
      BY <1>4, <2>2
      DEF ApiSubmit, Submit, EnqueueTailoring, EnqueueEvaluate, EnqueueRead
    <3>. QED BY <1>2, <2>2, <3>1 DEF Sessions, Clients
  <2>. QED BY <2>1, <2>2
<1>5. ASSUME NEW s \in Cancellers, NEW j \in Jobs, Cancel(s, j) PROVE Requeues'
  BY <1>2, <1>5 DEF Cancel, CancelRead, Sessions, Clients
<1>6. ASSUME NEW s \in Sessions, sess' = [sess EXCEPT ![s] = Closed] PROVE Requeues'
  BY <1>0, <1>1, <1>6 DEF Closed
<1>7. ASSUME sess' = sess PROVE Requeues'
  BY <1>1, <1>7
<1>8. ASSUME NEW s \in Sessions, PipelineCommit(s) PROVE Requeues'
  BY <1>6, <1>8
  DEF PipelineCommit, CommitStep, InsertCommit, RequeueCommit, CancelCommit, Commits
<1>9. ASSUME NEW w \in Workers, SucceedCommit(w) \/ FailCommit(w) \/ Crash(w)
      PROVE  Requeues'
  BY <1>0, <1>6, <1>9 DEF SucceedCommit, FailCommit, Crash, Commits
<1>10. ASSUME NEW w \in Workers, MarkRead(w) PROVE Requeues'
  BY <1>0, <1>2, <1>10 DEF MarkRead
<1>11. ASSUME NEW w \in Workers, EvaluateRoute(w) PROVE Requeues'
  <2>1. CASE sess' = sess
    BY <1>7, <2>1
  <2>2. CASE Handoff(w, AnalysisOf[worker[w].job], HasResume(AnalysisOf[worker[w].job]))
    BY <1>0, <1>3, <2>2 DEF Handoff
  <2>. QED BY <1>11, <2>1, <2>2 DEF EvaluateRoute, Ends, Execute
<1>12. ASSUME NEW w \in Workers, PipelineWork(w) PROVE Requeues'
  BY <1>7, <1>11, <1>12
  DEF PipelineWork, EvaluateStart, EvaluateScore, EvaluateReturn, TailorStart,
      TailorGenerate, TailorWrite, TailorLastCheck, TailorCommit, Ends, Execute, vars
<1>13. CASE PipelineClient
  BY <1>4, <1>5, <1>7, <1>13 DEF PipelineClient, ApiEvaluate, Deliver, Download, vars
<1>. QED
  BY <1>7, <1>8, <1>9, <1>10, <1>12, <1>13
  DEF PipelineNext, PipelineWorker, PipelineClaim, ClaimSelect, ClaimCommit,
      PipelineMark, PipelineCrash, PipelineBackoff, BackoffElapses, pipelineVars, vars

\* History is never taken back.
LEMMA LostGrows == [Next]_vars => lost \subseteq lost'
<1>. SUFFICES ASSUME [Next]_vars PROVE lost \subseteq lost'
  OBVIOUS
<1>1. ASSUME NEW s \in Sessions, CommitStep(s) PROVE lost \subseteq lost'
  BY <1>1 DEF CommitStep, InsertCommit, RequeueCommit, CancelCommit, Commits
<1>2. ASSUME NEW w \in Workers, WorkerStep(w) PROVE lost \subseteq lost'
  BY <1>2
  DEF WorkerStep, ClaimSelect, ClaimCommit, Execute, MarkRead, SucceedCommit,
      FailCommit, Commits
<1>. QED
  BY <1>1, <1>2
  DEF Next, ClientStep, Submit, Cancel, Handoff, BackoffElapses, Crash, vars

\* A worker gets to work by a claim, and to the commit of a draft by minting it.
LEMMA RunsOn ==
  ASSUME Known, Shape, [PipelineNext]_pipelineVars, NEW w \in Workers,
         worker'[w].pc = "run"
  PROVE  /\ worker'[w].job = worker[w].job
         /\ \/ ClaimCommit(w) /\ step'[w].at \notin Late
            \/ /\ worker[w].pc = "run"
               /\ \/ step'[w].at \notin Late
                  \/ step[w].at \in Late /\ step'[w].n = step[w].n
                  \/ /\ step'[w].n = minted[worker[w].job] + 1
                     /\ minted'[worker[w].job] = minted[worker[w].job] + 1
                     /\ worker[w].job \in TailorJobs /\ resumes' = resumes
<1>. DEFINE Goal == /\ worker'[w].job = worker[w].job
                    /\ \/ ClaimCommit(w) /\ step'[w].at \notin Late
                       \/ /\ worker[w].pc = "run"
                          /\ \/ step'[w].at \notin Late
                             \/ step[w].at \in Late /\ step'[w].n = step[w].n
                             \/ /\ step'[w].n = minted[worker[w].job] + 1
                                /\ minted'[worker[w].job] = minted[worker[w].job] + 1
                                /\ worker[w].job \in TailorJobs /\ resumes' = resumes
<1>0. /\ step \in [Workers -> StepRecord] /\ worker \in [Workers -> WorkerRecord]
      /\ PipelineTypeOK /\ minted \in [TailorJobs -> Nat]
  BY DEF Known, PipelineTypeOK, StepRecord, Shape, TypeOK, WorkerRecord
<1>1. ASSUME worker'[w] = worker[w], step'[w] = step[w] PROVE Goal
  BY <1>1
<1>2. ASSUME NEW v \in Workers, NEW x, x.pc # "run",
             worker' = [worker EXCEPT ![v] = x],
             \A u \in Workers : u # v => step'[u] = step[u]
      PROVE  Goal
  BY <1>0, <1>1, <1>2
<1>3. ASSUME NEW v \in Workers, NEW pc, pc # "run",
             worker' = [worker EXCEPT ![v].pc = pc],
             \A u \in Workers : u # v => step'[u] = step[u]
      PROVE  Goal
  <2>1. worker'[v].pc = pc /\ \A u \in Workers : u # v => worker'[u] = worker[u]
    BY <1>0, <1>3, Moving
  <2>. QED BY <1>1, <1>3, <2>1
<1>4. ASSUME NEW v \in Workers, NEW outcome \in {"ok", "err"}, Ends(v, outcome)
      PROVE  Goal
  BY <1>0, <1>3, <1>4, Moving DEF Ends, Execute
<1>5. ASSUME NEW v \in Workers, NEW name \in StepNames, Goes(v, name), worker' = worker,
             name \in Late => step[v].at \in Late
      PROVE  Goal
  <2>1. /\ step'[v].at = name /\ step'[v].n = step[v].n
        /\ \A u \in Workers : u # v => step'[u] = step[u]
    BY <1>0, <1>5, Moving
  <2>2. CASE v = w
    BY <1>5, <2>1, <2>2
  <2>. QED BY <1>1, <1>5, <2>1, <2>2
<1>. SUFFICES Goal
  OBVIOUS
<1>. HIDE DEF Goal
<1>6. /\ {"start", "llm", "generated", "commit", "evaluated"} \subseteq StepNames
      /\ {"start", "llm", "generated", "evaluated"} \cap Late = {} /\ "written" \in Late
  BY DEF StepNames, Late
<1>7. ASSUME NEW v \in Workers, PipelineWork(v) PROVE Goal
  <2>1. CASE EvaluateStart(v)
    BY <1>4, <1>5, <1>6, <2>1 DEF EvaluateStart, vars
  <2>2. CASE EvaluateScore(v)
    BY <1>4, <1>5, <1>6, <2>2 DEF EvaluateScore, vars
  <2>3. CASE EvaluateRoute(v)
    BY <1>3, <1>4, <2>3 DEF EvaluateRoute, Handoff
  <2>4. CASE \E outcome \in {"ok", "err"} : EvaluateReturn(v, outcome)
    BY <1>4, <2>4 DEF EvaluateReturn
  <2>5. CASE TailorStart(v)
    BY <1>4, <1>5, <1>6, <2>5 DEF TailorStart, vars
  <2>6. CASE TailorGenerate(v)
    BY <1>4, <1>5, <1>6, <2>6 DEF TailorGenerate, vars
  <2>7. CASE TailorWrite(v)
    <3>1. CASE \E outcome \in {"ok", "err"} : Ends(v, outcome)
      BY <1>4, <3>1
    <3>2. CASE ~\E outcome \in {"ok", "err"} : Ends(v, outcome)
      <4>1. PICK n : /\ n = minted[worker[v].job] + 1
                     /\ minted' = [minted EXCEPT ![worker[v].job] = n]
                     /\ step' = [step EXCEPT ![v] = [at |-> "written", n |-> n]]
                     /\ worker' = worker /\ resumes' = resumes /\ AtStep(v, "generated")
        BY <2>7, <3>2 DEF TailorWrite, vars
      <4>2. worker[v].job \in TailorJobs
        BY <4>1 DEF AtStep, Known, StepInv, Knows
      <4>3. /\ step'[v].n = n /\ \A u \in Workers : u # v => step'[u] = step[u]
            /\ minted'[worker[v].job] = n
        BY <1>0, <4>1, <4>2
      <4>4. CASE v = w
        BY <4>1, <4>2, <4>3, <4>4 DEF Goal, AtStep
      <4>. QED BY <1>1, <4>1, <4>3, <4>4
    <3>. QED BY <3>1, <3>2
  <2>8. CASE TailorLastCheck(v)
    BY <1>4, <1>5, <1>6, <2>8 DEF TailorLastCheck, AtStep, vars
  <2>9. CASE TailorCommit(v)
    BY <1>4, <2>9 DEF TailorCommit
  <2>. QED
    BY <1>7, <2>1, <2>2, <2>3, <2>4, <2>5, <2>6, <2>7, <2>8, <2>9 DEF PipelineWork
<1>8. ASSUME NEW v \in Workers, PipelineClaim(v) PROVE Goal
  <2>1. CASE ClaimSelect(v) /\ UNCHANGED domainVars
    <3>1. PICK j \in Jobs : worker' = [worker EXCEPT ![v] = [pc |-> "claim", job |-> j]]
      BY <2>1 DEF ClaimSelect
    <3>. QED BY <1>2, <2>1, <3>1 DEF domainVars
  <2>2. CASE ClaimCommit(v) /\ Goes(v, "start")
    <3>1. /\ worker'[v].job = worker[v].job
          /\ \A u \in Workers : u # v => worker'[u] = worker[u]
      BY <1>0, <2>2, Moving DEF ClaimCommit
    <3>2. /\ step'[v].at = "start"
          /\ \A u \in Workers : u # v => step'[u] = step[u]
      BY <1>0, <1>6, <2>2, Moving
    <3>3. CASE v = w
      BY <1>6, <2>2, <3>1, <3>2, <3>3 DEF Goal
    <3>. QED BY <1>1, <3>1, <3>2, <3>3
  <2>. QED BY <1>8, <2>1, <2>2 DEF PipelineClaim
<1>9. ASSUME NEW v \in Workers, PipelineMark(v) PROVE Goal
  BY <1>2, <1>3, <1>9
  DEF PipelineMark, MarkRead, SucceedCommit, FailCommit, Idle, domainVars
<1>10. ASSUME NEW v \in Workers, PipelineCrash(v) PROVE Goal
  BY <1>0, <1>2, <1>10, Moving DEF PipelineCrash, Crash, Idle
<1>11. ASSUME step' = step, worker' = worker PROVE Goal
  BY <1>1, <1>11
<1>12. CASE PipelineClient
  BY <1>11, <1>12
  DEF PipelineClient, ApiSubmit, Submit, Cancel, ApiEvaluate, Deliver, Download,
      domainVars, vars
<1>. QED
  BY <1>7, <1>8, <1>9, <1>10, <1>11, <1>12
  DEF PipelineNext, PipelineWorker, PipelineCommit, CommitStep, InsertCommit,
      RequeueCommit, CancelCommit, PipelineBackoff, BackoffElapses, pipelineVars,
      vars, domainVars

----------------------------------------------------------------------------
(* How the drafts of an analysis change.                                   *)

\* No draft is added, and none becomes a reported one.
Carried(t) ==
  /\ Reported(t) = {} => Reported(t)' = {}
  /\ Last(t) => Last(t)'
  /\ \A q \in Drafts(t)' : \E p \in Drafts(t) : p.n = q.n
  /\ IsFiniteSet(Drafts(t)) =>
       IsFiniteSet(Drafts(t)') /\ Cardinality(Drafts(t)') <= Cardinality(Drafts(t))

\* Worker w commits a draft of t, and its execution ends.
Adds(w, t) ==
  /\ AtStep(w, "commit") /\ worker[w].job = t
  /\ \E d : /\ d.n = step[w].n
            /\ Drafts(t)' = Drafts(t) \cup {d}
            /\ \/ Ends(w, "ok") /\ Reported(t)' \subseteq Reported(t) \cup {d}
               \/ Ends(w, "err") /\ Reported(t)' \subseteq Reported(t)

LEMMA SameDrafts ==
  ASSUME NEW t, Drafts(t)' = Drafts(t), Reported(t)' = Reported(t)
  PROVE  Carried(t)
<1>1. IsFiniteSet(Drafts(t)) => Cardinality(Drafts(t)) \in Nat
  BY FS_CardinalityType
<1>2. IsFiniteSet(Drafts(t)) => Cardinality(Drafts(t)') <= Cardinality(Drafts(t))
  BY <1>1
<1>3. Last(t) => Last(t)'
  BY DEF Last
<1>. QED BY <1>2, <1>3 DEF Carried

\* A rendered file changes the link of a resume, not whose it is.
LEMMA DownloadCarries ==
  ASSUME PipelineTypeOK, NEW t \in TailorJobs, NEW r \in resumes, Download(r)
  PROVE  Carried(t)
<1>. DEFINE d == [r EXCEPT !.pdf = "local"]
<1>1. /\ d.of = r.of /\ d.by = r.by /\ d.n = r.n
      /\ resumes' = (resumes \ {r}) \cup {d} /\ unreported' = unreported
  BY DEF PipelineTypeOK, ResumeRow, Download
<1>. HIDE DEF d
<1>2. CASE r \notin Drafts(t)
  <2>1. Drafts(t)' = Drafts(t) /\ Reported(t)' = Reported(t)
    BY <1>1, <1>2 DEF Drafts, Reported
  <2>. QED BY <2>1, SameDrafts
<1>3. CASE r \in Drafts(t)
  <2>1. Drafts(t)' = (Drafts(t) \ {r}) \cup {d}
    BY <1>1, <1>3 DEF Drafts
  <2>2. \A q \in Reported(t)' :
          (q = d /\ r \in Reported(t)) \/ (q \in Reported(t) /\ q # r)
    BY <1>1, <1>3, <2>1 DEF Reported
  <2>3. Reported(t) = {} => Reported(t)' = {}
    BY <2>2
  <2>4. \A q \in Drafts(t)' : \E p \in Drafts(t) : p.n = q.n
    BY <1>1, <1>3, <2>1
  <2>5. Last(t) => Last(t)'
    BY <1>1, <1>3, <2>1, <2>2 DEF Last
  <2>6. ASSUME IsFiniteSet(Drafts(t))
        PROVE  IsFiniteSet(Drafts(t)') /\ Cardinality(Drafts(t)') <= Cardinality(Drafts(t))
    <3>. DEFINE S == Drafts(t) \ {r}
    <3>1. IsFiniteSet(S) /\ Cardinality(S) = Cardinality(Drafts(t)) - 1
      BY <1>3, <2>6, FS_RemoveElement
    <3>2. /\ IsFiniteSet(S \cup {d})
          /\ d \in S => S \cup {d} = S
          /\ d \notin S => Cardinality(S \cup {d}) = Cardinality(S) + 1
      BY <3>1, FS_AddElement
    <3>3. Cardinality(Drafts(t)) \in Nat /\ Cardinality(S) \in Nat
      BY <2>6, <3>1, FS_CardinalityType
    <3>. HIDE DEF S
    <3>4. Cardinality(S \cup {d}) <= Cardinality(Drafts(t))
      BY <3>1, <3>2, <3>3
    <3>. QED BY <2>1, <3>2, <3>4 DEF S
  <2>. QED BY <2>3, <2>4, <2>5, <2>6 DEF Carried
<1>. QED BY <1>2, <1>3

LEMMA DraftsMove ==
  ASSUME Known, [PipelineNext]_pipelineVars, NEW t \in TailorJobs
  PROVE  Carried(t) \/ \E w \in Workers : Adds(w, t)
<1>0. PipelineTypeOK /\ StepInv
  BY DEF Known
<1>1. ASSUME UNCHANGED <<resumes, unreported>> PROVE Carried(t)
  BY <1>1, SameDrafts DEF Drafts, Reported
<1>2. ASSUME NEW w \in Workers, TailorCommit(w)
      PROVE  Carried(t) \/ Adds(w, t)
  <2>1. CASE UNCHANGED <<resumes, unreported>>
    BY <1>1, <2>1
  <2>2. CASE Stores(worker[w].job, step[w].n, "worker", "local")
    <3>. PICK a, n : a = worker[w].job /\ n = step[w].n
      OBVIOUS
    <3>. DEFINE d == [of |-> a, n |-> n, by |-> "worker", pdf |-> "local"]
    <3>1. /\ d.of = a /\ d.n = n /\ d.by = "worker" /\ resumes' = resumes \cup {d}
          /\ AtStep(w, "commit")
      BY <1>2, <2>2 DEF Stores, TailorCommit
    <3>. HIDE DEF d
    <3>2. \/ Ends(w, "ok") /\ UNCHANGED unreported
          \/ Ends(w, "err") /\ unreported' = unreported \cup {<<a, n>>}
          \/ UNCHANGED <<resumes, unreported>>
      BY <1>2 DEF TailorCommit
    <3>3. CASE a # t
      <4>1. Drafts(t)' = Drafts(t)
        BY <3>1, <3>3 DEF Drafts
      <4>2. \A m : <<t, m>> \in unreported' <=> <<t, m>> \in unreported
        BY <3>2, <3>3
      <4>3. Reported(t)' = Reported(t)
        BY <4>1, <4>2 DEF Reported
      <4>. QED BY <4>1, <4>3, SameDrafts
    <3>4. CASE a = t
      <4>1. Drafts(t)' = Drafts(t) \cup {d}
        BY <3>1, <3>4 DEF Drafts
      <4>2. CASE Ends(w, "ok") /\ UNCHANGED unreported
        <5>1. Reported(t)' \subseteq Reported(t) \cup {d}
          BY <4>1, <4>2 DEF Reported
        <5>. QED BY <3>1, <3>4, <4>1, <4>2, <5>1 DEF Adds
      <4>3. CASE Ends(w, "err") /\ unreported' = unreported \cup {<<a, n>>}
        <5>1. Reported(t)' \subseteq Reported(t)
          BY <3>1, <3>4, <4>1, <4>3 DEF Reported
        <5>. QED BY <3>1, <3>4, <4>1, <4>3, <5>1 DEF Adds
      <4>. QED BY <1>1, <3>2, <4>2, <4>3
    <3>. QED BY <3>3, <3>4
  <2>. QED BY <1>2, <2>1, <2>2 DEF TailorCommit
<1>3. ASSUME NEW w \in Workers, PipelineWork(w)
      PROVE  Carried(t) \/ Adds(w, t)
  BY <1>1, <1>2, <1>3
  DEF PipelineWork, EvaluateStart, EvaluateScore, EvaluateRoute, EvaluateReturn,
      TailorStart, TailorGenerate, TailorWrite, TailorLastCheck
\* What the user brings is no draft.
<1>4. ASSUME NEW a \in TailorJobs, NEW pdf, Deliver(a, pdf) PROVE Carried(t)
  <2>1. PICK d : d.by = "user" /\ resumes' = resumes \cup {d} /\ unreported' = unreported
    BY <1>4 DEF Deliver, Stores
  <2>2. Drafts(t)' = Drafts(t) /\ Reported(t)' = Reported(t)
    BY <2>1 DEF Drafts, Reported
  <2>. QED BY <2>2, SameDrafts
<1>5. CASE PipelineClient
  BY <1>0, <1>1, <1>4, <1>5, DownloadCarries
  DEF PipelineClient, ApiSubmit, ApiEvaluate, domainVars
<1>. QED
  BY <1>1, <1>3, <1>5
  DEF PipelineNext, PipelineWorker, PipelineClaim, PipelineMark, PipelineCommit,
      PipelineBackoff, PipelineCrash, pipelineVars, domainVars

----------------------------------------------------------------------------
(* The numbers of the drafts.                                              *)

\* Numbers only grow.
LEMMA MintedGrows ==
  ASSUME Known, [PipelineNext]_pipelineVars, NEW a \in TailorJobs
  PROVE  minted[a] \in Nat /\ minted'[a] \in Nat /\ minted'[a] >= minted[a]
<1>0. minted \in [TailorJobs -> Nat]
  BY DEF Known, PipelineTypeOK
<1>1. minted' = minted \/ \E b : minted' = [minted EXCEPT ![b] = minted[b] + 1]
  <2>1. ASSUME NEW w \in Workers, PipelineWork(w)
        PROVE  minted' = minted \/ \E b : minted' = [minted EXCEPT ![b] = minted[b] + 1]
    BY <2>1
    DEF PipelineWork, EvaluateStart, EvaluateScore, EvaluateRoute, EvaluateReturn,
        TailorStart, TailorGenerate, TailorWrite, TailorLastCheck, TailorCommit
  <2>2. CASE PipelineClient
    BY <2>2 DEF PipelineClient, ApiSubmit, ApiEvaluate, Deliver, Download, domainVars
  <2>. QED
    BY <2>1, <2>2
    DEF PipelineNext, PipelineWorker, PipelineClaim, PipelineMark, PipelineCommit,
        PipelineBackoff, PipelineCrash, pipelineVars, domainVars
<1>. QED BY <1>0, <1>1

\* A resume, and a draft that is being written, has a number that was given out.
LEMMA NextNumbered ==
  ASSUME Known, Safe, Numbered, [PipelineNext]_pipelineVars
  PROVE  Numbered'
<1>. DEFINE Given == \A r \in resumes' : r.n <= minted'[r.of]
<1>0. /\ PipelineTypeOK /\ StepInv /\ step \in [Workers -> StepRecord]
      /\ \A a \in TailorJobs : minted[a] \in Nat /\ minted'[a] \in Nat /\ minted'[a] >= minted[a]
  BY MintedGrows DEF Known, PipelineTypeOK, StepRecord
<1>1. ASSUME NEW r \in resumes
      PROVE  r.of \in TailorJobs /\ r.n \in Nat /\ r.n <= minted'[r.of]
  <2>1. r.of \in TailorJobs /\ r.n \in Nat
    BY <1>0 DEF PipelineTypeOK, ResumeRow
  <2>2. r.n <= minted[r.of]
    BY DEF Numbered
  <2>3. minted[r.of] \in Nat /\ minted'[r.of] \in Nat /\ minted'[r.of] >= minted[r.of]
    BY <1>0, <2>1
  <2>. QED BY <2>1, <2>2, <2>3
<1>2. ASSUME resumes' = resumes PROVE Given
  BY <1>1, <1>2
<1>3. ASSUME NEW d, d.n <= minted'[d.of], resumes' \subseteq resumes \cup {d} PROVE Given
  BY <1>1, <1>3
<1>. HIDE DEF Given
<1>4. ASSUME NEW w \in Workers, TailorCommit(w) PROVE Given
  <2>1. CASE Stores(worker[w].job, step[w].n, "worker", "local")
    <3>1. PICK d : /\ d.of = worker[w].job /\ d.n = step[w].n
                   /\ resumes' = resumes \cup {d}
      BY <2>1 DEF Stores
    <3>2. step[w].n <= minted[worker[w].job] /\ minted' = minted
      BY <1>4 DEF TailorCommit, AtStep, Numbered, Writing, Late
    <3>. QED BY <1>3, <3>1, <3>2
  <2>. QED BY <1>2, <1>4, <2>1 DEF TailorCommit
<1>5. ASSUME NEW w \in Workers, PipelineWork(w) PROVE Given
  BY <1>2, <1>4, <1>5
  DEF PipelineWork, EvaluateStart, EvaluateScore, EvaluateRoute, EvaluateReturn,
      TailorStart, TailorGenerate, TailorWrite, TailorLastCheck
<1>6. ASSUME NEW a \in TailorJobs, NEW pdf, Deliver(a, pdf) PROVE Given
  <2>1. PICK d : d.of = a /\ d.n = minted[a] + 1 /\ resumes' = resumes \cup {d}
    BY <1>6 DEF Deliver, Stores
  <2>2. minted' = [minted EXCEPT ![a] = minted[a] + 1] /\ minted \in [TailorJobs -> Nat]
    BY <1>0, <1>6 DEF Deliver, PipelineTypeOK
  <2>3. d.n <= minted'[d.of]
    BY <1>0, <2>1, <2>2
  <2>. QED BY <1>3, <2>1, <2>3
<1>7. ASSUME NEW r \in resumes, Download(r) PROVE Given
  <2>1. PICK d : d.of = r.of /\ d.n = r.n /\ resumes' = (resumes \ {r}) \cup {d}
    BY <1>0, <1>7 DEF Download, PipelineTypeOK, ResumeRow
  <2>. QED BY <1>1, <1>3, <2>1
<1>8. ASSUME PipelineClient PROVE Given
  BY <1>2, <1>6, <1>7, <1>8 DEF PipelineClient, ApiSubmit, ApiEvaluate, domainVars
<1>9. Given
  BY <1>2, <1>5, <1>8
  DEF PipelineNext, PipelineWorker, PipelineClaim, PipelineMark, PipelineCommit,
      PipelineBackoff, PipelineCrash, pipelineVars, domainVars
<1>10. ASSUME NEW w \in Workers, worker'[w].pc = "run", step'[w].at \in Late
       PROVE  step'[w].n <= minted'[worker'[w].job]
  <2>1. /\ worker'[w].job = worker[w].job /\ worker[w].pc = "run"
        /\ \/ step[w].at \in Late /\ step'[w].n = step[w].n
           \/ /\ step'[w].n = minted[worker[w].job] + 1
              /\ minted'[worker[w].job] = minted[worker[w].job] + 1
              /\ worker[w].job \in TailorJobs
    BY <1>10, RunsOn DEF Safe
  <2>2. CASE step[w].at \in Late /\ step'[w].n = step[w].n
    <3>1. step[w].n <= minted[worker[w].job] /\ worker[w].job \in TailorJobs
      BY <1>0, <2>1, <2>2 DEF Numbered, Writing, StepInv, Knows, Late
    <3>2. step[w].n \in Nat
      BY <1>0 DEF StepRecord
    <3>3. /\ minted[worker[w].job] \in Nat /\ minted'[worker[w].job] \in Nat
          /\ minted'[worker[w].job] >= minted[worker[w].job]
      BY <1>0, <3>1
    <3>. QED BY <2>1, <2>2, <3>1, <3>2, <3>3
  <2>. QED BY <1>0, <2>1, <2>2
<1>. QED BY <1>9, <1>10 DEF Numbered, Writing, Given

----------------------------------------------------------------------------
(* Every step keeps what is held of an analysis.                           *)

\* A step that adds no draft of t.
LEMMA HeldCarried ==
  ASSUME Drafting, [PipelineNext]_pipelineVars, NEW t \in TailorJobs, t \notin lost',
         Carried(t)
  PROVE  Held(t)'
<1>0. /\ Safe /\ Known /\ Requeues /\ Numbered /\ PipelineTypeOK
      /\ [Next]_vars /\ lost \subseteq lost' /\ t \in Jobs
  BY StepIsQueueStep, LostGrows DEF Drafting, DraftInv, Known, Jobs
<1>1. t \notin lost /\ Held(t)
  BY <1>0 DEF Drafting, DraftInv
<1>2. /\ row[t].attempts \in Nat /\ row'[t].attempts >= row[t].attempts
      /\ row'[t].attempts \in Nat
  <2>1. Shape'
    BY <1>0, NextShape DEF Safe
  <2>2. Grown
    BY <1>0, NextGrown DEF Drafting
  <2>. QED BY <1>0, <2>1, <2>2 DEF Grown, Safe, Shape, TypeOK, Row
<1>3. /\ IsFiniteSet(Drafts(t)) /\ Cardinality(Drafts(t)) \in Nat
      /\ IsFiniteSet(Drafts(t)') /\ Cardinality(Drafts(t)') \in Nat
      /\ Cardinality(Drafts(t)') <= Cardinality(Drafts(t))
      /\ Cardinality(Drafts(t)) <= row[t].attempts
  BY <1>1, FS_CardinalityType DEF Held, Carried
<1>4. Last(t)' /\ IsFiniteSet(Drafts(t)') /\ Cardinality(Drafts(t)') <= row'[t].attempts
  BY <1>1, <1>2, <1>3 DEF Held, Carried
<1>5. ASSUME row'[t].status \in Waiting PROVE Reported(t)' = {}
  <2>1. CASE row[t].status \in Waiting
    BY <1>1, <2>1 DEF Held, Carried
  <2>2. ASSUME NEW w \in Workers, sess[w].op = "fail", sess[w].job = t
        PROVE  Reported(t)' = {}
    <3>1. worker[w].job = t /\ Unstored(w)
      BY <1>0, <2>2 DEF Safe, Shape, SessionInv, Unstored, Sessions
    <3>. QED BY <1>1, <3>1 DEF Held, Carried
  <2>. QED BY <1>0, <1>5, <2>1, <2>2, WaitingMoves
<1>6. ASSUME NEW w \in Workers, worker[w].pc = "claim", worker[w].job = t
      PROVE  row[t].status \in Waiting
  BY <1>0, <1>6 DEF Safe, LockDiscipline, Claimable, Waiting
<1>7. ASSUME NEW w \in Workers, worker'[w].job = t, Unstored(w)'
      PROVE  Reported(t)' = {}
  <2>1. worker[w].job = t /\ (Unstored(w) \/ worker[w].pc = "claim")
    BY <1>0, <1>7, UnstoredMoves
  <2>. QED BY <1>1, <1>6, <2>1 DEF Held, Carried
<1>8. ASSUME NEW w \in Workers, worker'[w].job = t, worker'[w].pc = "run"
      PROVE  /\ Cardinality(Drafts(t)') < row'[t].attempts
             /\ step'[w].at \in Late => \A q \in Drafts(t)' : q.n < step'[w].n
  <2>1. /\ worker[w].job = t
        /\ \/ ClaimCommit(w) /\ step'[w].at \notin Late
           \/ /\ worker[w].pc = "run"
              /\ \/ step'[w].at \notin Late
                 \/ step[w].at \in Late /\ step'[w].n = step[w].n
                 \/ /\ step'[w].n = minted[t] + 1
                    /\ minted'[t] = minted[t] + 1 /\ resumes' = resumes
    BY <1>0, <1>8, RunsOn DEF Safe
  <2>2. CASE ClaimCommit(w)
    <3>1. row'[t].attempts = row[t].attempts + 1
      BY <1>0, <2>1, <2>2 DEF ClaimCommit, SetRunning, Safe, Shape, TypeOK, Row
    <3>2. step'[w].at \notin Late
      BY <2>1, <2>2 DEF ClaimCommit
    <3>. QED BY <1>2, <1>3, <3>1, <3>2
  <2>3. CASE worker[w].pc = "run"
    <3>1. Cardinality(Drafts(t)) < row[t].attempts
      BY <1>1, <2>1, <2>3 DEF Held
    <3>2. Cardinality(Drafts(t)') < row'[t].attempts
      BY <1>2, <1>3, <3>1
    <3>3. CASE step'[w].at \notin Late
      BY <3>2, <3>3
    <3>4. CASE step[w].at \in Late /\ step'[w].n = step[w].n
      BY <1>1, <2>1, <2>3, <3>2, <3>4 DEF Held, Writing, Carried
    <3>5. CASE step'[w].n = minted[t] + 1 /\ resumes' = resumes
      <4>1. \A q \in Drafts(t)' : q.n <= minted[t] /\ q.n \in Nat
        BY <1>0, <3>5 DEF Drafts, Numbered, PipelineTypeOK, ResumeRow
      <4>2. minted[t] \in Nat
        BY <1>0 DEF PipelineTypeOK
      <4>. QED BY <3>2, <3>5, <4>1, <4>2
    <3>6. \/ step'[w].at \notin Late
          \/ step[w].at \in Late /\ step'[w].n = step[w].n
          \/ step'[w].n = minted[t] + 1 /\ resumes' = resumes
      BY <2>1
    <3>. QED BY <3>3, <3>4, <3>5, <3>6
  <2>. QED BY <2>1, <2>2, <2>3
<1>. QED BY <1>4, <1>5, <1>7, <1>8 DEF Held, Writing

\* The commit of a draft: the worker is the one that executes its job, and the
\* job is running or being cancelled.
LEMMA HeldAdds ==
  ASSUME Drafting, NEW t \in TailorJobs, t \notin lost',
         NEW w \in Workers, Adds(w, t)
  PROVE  Held(t)'
<1>0. /\ worker \in [Workers -> WorkerRecord] /\ Shape /\ ExecutionInv /\ t \in Jobs
      /\ worker[w].pc = "run" /\ step[w].at = "commit" /\ worker[w].job = t
  BY DEF Drafting, Safe, Shape, TypeOK, WorkerRecord, AtStep, Adds, Jobs
<1>1. /\ row' = row /\ lost' = lost /\ sess' = sess
      /\ \E outcome \in {"ok", "err"} : worker' = [worker EXCEPT ![w].pc = outcome]
  BY DEF Adds, Ends, Execute
<1>2. t \notin lost /\ Held(t)
  BY <1>1 DEF Drafting, DraftInv
<1>3. Reported(t) = {} /\ Cardinality(Drafts(t)) < row[t].attempts
      /\ \A q \in Drafts(t) : q.n < step[w].n
  BY <1>0, <1>2 DEF Held, Unstored, Writing, Late
<1>4. PICK d : /\ d.n = step[w].n
               /\ Drafts(t)' = Drafts(t) \cup {d}
               /\ \/ Ends(w, "ok") /\ Reported(t)' \subseteq {d}
                  \/ Ends(w, "err") /\ Reported(t)' = {}
  BY <1>3 DEF Adds
<1>5. Last(t)'
  BY <1>3, <1>4 DEF Last
<1>6. row'[t].status \notin Waiting
  BY <1>0, <1>1, <1>2 DEF ExecutionInv, ExecutedIsRunning, Executes, Waiting
<1>7. IsFiniteSet(Drafts(t)') /\ Cardinality(Drafts(t)') <= row'[t].attempts
  <2>1. IsFiniteSet(Drafts(t)) /\ Cardinality(Drafts(t)) \in Nat /\ row[t].attempts \in Nat
    BY <1>0, <1>2, FS_CardinalityType DEF Held, Shape, TypeOK, Row
  <2>2. /\ IsFiniteSet(Drafts(t) \cup {d})
        /\ Cardinality(Drafts(t) \cup {d}) \in
             {Cardinality(Drafts(t)), Cardinality(Drafts(t)) + 1}
    <3>1. CASE d \in Drafts(t)
      <4>1. Drafts(t) \cup {d} = Drafts(t)
        BY <3>1
      <4>. QED BY <2>1, <4>1
    <3>2. CASE d \notin Drafts(t)
      BY <2>1, <3>2, FS_AddElement
    <3>. QED BY <3>1, <3>2
  <2>. QED BY <1>1, <1>3, <1>4, <2>1, <2>2
\* No other worker is at the job, and this one only if its execution has failed.
<1>8. ASSUME NEW v \in Workers, worker'[v].job = t,
             Unstored(v)' \/ worker'[v].pc = "run"
      PROVE  v = w /\ worker'[v].pc = "err"
  <2>1. CASE v = w
    <3>1. worker'[w].pc \in {"ok", "err"} /\ (Ends(w, "ok") => worker'[w].pc = "ok")
      BY <1>0, <1>1 DEF WorkerRecord, Ends, Execute
    <3>2. sess[w].op # "fail"
      BY <1>0 DEF Shape, SessionInv, Sessions
    <3>. QED BY <1>1, <1>8, <2>1, <3>1, <3>2 DEF Unstored
  <2>2. CASE v # w
    <3>1. worker'[v] = worker[v]
      BY <1>0, <1>1, <2>2
    <3>2. worker[v].pc \in {"run", "handed", "err", "mark"}
      BY <1>0, <1>1, <1>8, <3>1 DEF Unstored, Shape, SessionInv, Sessions
    <3>3. Executes(v, t) /\ Executes(w, t)
      BY <1>0, <1>8, <3>1, <3>2 DEF Executes
    <3>. QED BY <1>0, <1>2, <2>2, <3>3 DEF ExecutionInv, Exclusive
  <2>. QED BY <2>1, <2>2
<1>9. ASSUME worker'[w].pc = "err" PROVE Reported(t)' = {}
  <2>1. ~Ends(w, "ok")
    BY <1>0, <1>9 DEF Ends, Execute, WorkerRecord
  <2>. QED BY <1>4, <2>1
<1>10. ASSUME NEW v \in Workers, worker'[v].job = t
       PROVE  /\ Unstored(v)' => Reported(t)' = {}
              /\ worker'[v].pc # "run"
  BY <1>8, <1>9, <1>10
<1>. QED BY <1>5, <1>6, <1>7, <1>10 DEF Held, Writing

LEMMA NextDrafts ==
  ASSUME Drafting, [PipelineNext]_pipelineVars
  PROVE  DraftInv'
<1>1. [Next]_vars /\ Requeues' /\ Numbered'
  BY StepIsQueueStep, NextRequeues, NextNumbered DEF Drafting, DraftInv
<1>2. ASSUME NEW t \in TailorJobs \ lost' PROVE Held(t)'
  BY <1>2, DraftsMove, HeldCarried, HeldAdds DEF Drafting
<1>. QED BY <1>1, <1>2 DEF DraftInv

\* While no update of its row is lost, an analysis gets a second draft only after
\* one whose execution ended in an error behind its commit, no draft follows one
\* that was reported, and each has cost an attempt; for any number of workers,
\* cancels, retries, requeues and crashes.
THEOREM OneDraftOnly == PipelineSpec => []OneDraft
<1>1. PipelineInit => ExecutionInv /\ DraftInv
  <2>1. PipelineInit => ExecutionInv
    BY InitExecution DEF PipelineInit
  <2>2. PipelineInit => Requeues /\ Numbered
    BY DEF PipelineInit, Init, Requeues, Closed, Numbered, Writing, Idle
  <2>3. ASSUME PipelineInit, NEW t \in TailorJobs PROVE Held(t)
    <3>1. Drafts(t) = {} /\ Reported(t) = {}
      BY <2>3 DEF PipelineInit, Drafts, Reported
    <3>2. /\ IsFiniteSet(Drafts(t)) /\ Cardinality(Drafts(t)) = 0
          /\ row[t].attempts = 0
      BY <2>3, <3>1, FS_EmptySet DEF PipelineInit, Init, Absent, Jobs
    <3>3. \A w \in Workers : worker[w].pc # "run"
      BY <2>3 DEF PipelineInit, Init, Idle
    <3>. QED BY <3>1, <3>2, <3>3 DEF Held, Last, Writing
  <2>. QED BY <2>1, <2>2, <2>3 DEF DraftInv
<1>2. Safe /\ Known /\ AttemptsInv /\ SucceededHasResume /\ ExecutionInv /\ DraftInv
        /\ [PipelineNext]_pipelineVars
      => (ExecutionInv /\ DraftInv)'
  BY StepIsQueueStep, NextExecution, NextDrafts DEF Drafting
<1>3. DraftInv => OneDraft
  BY DEF DraftInv, Held, Last, OneDraft, Waiting
<1>. QED BY <1>1, <1>2, <1>3, KnownInvariant, SuccessHasResume, PTL DEF PipelineSpec
=============================================================================
