----------------------------- MODULE ScrapeRuns ------------------------------
(***************************************************************************)
(* Scrape runs: the rows of table scrape_runs, the API calls that create   *)
(* and stop them, and the background tasks that execute them one after the *)
(* other (backend/app/services/scrapers/pipeline.py, api/scrape.py).       *)
(*                                                                         *)
(* As in AIJobQueue, a session reads a row in one step and commits in a    *)
(* later one, and the commit overwrites what the row has become meanwhile. *)
(* Tasks live in the memory of the server process; the rows outlive it.    *)
(***************************************************************************)
EXTENDS Naturals, Sequences

CONSTANTS
  Clients,     \* API sessions
  Tasks,       \* background tasks of the server process
  MaxSources,  \* most sources one call scrapes, one run each
  MaxRuns,     \* bound: runs created
  MaxCalls,    \* bound: API calls
  MaxCrashes   \* bound: tasks that die, restarts of the server

ASSUME BoundsAssumption ==
  /\ MaxSources \in Nat \ {0}
  /\ MaxRuns \in Nat
  /\ MaxCalls \in Nat
  /\ MaxCrashes \in Nat

Runs == 1..MaxRuns

VARIABLES
  status,    \* scrape_runs.status, "absent" before the run is created
  finished,  \* whether scrape_runs.finished_at is set
  created,   \* number of runs created so far
  stored,    \* runs whose drafts are committed to job_listings
  task,      \* where each task is, the runs it has left, what it last read
  client,    \* where each session is, and the statuses it has read
  calls,     \* API calls made so far
  crashes,   \* deaths of a task or of the server so far
  lost       \* history: runs overwritten by a commit of a stale read

vars == <<status, finished, created, stored, task, client, calls, crashes, lost>>

Active      == {"queued", "running", "cancel_requested"}
Done        == {"cancelled", "succeeded", "partial", "failed"}
StopSignals == {"cancel_requested", "cancelled"}
Statuses    == Active \cup Done \cup {"absent"}

Free   == [pc |-> "free", todo |-> <<>>, snap |-> "absent"]
Closed == [pc |-> "closed", snap |-> <<>>]

TaskPcs == {"free", "load", "begin", "scrape", "fetch", "check", "store",
            "finish", "cancel", "fail", "failing"}
ClientPcs == {"closed", "replace", "stop", "replacing", "stopping", "create"}

ActiveRuns == {r \in Runs : status[r] \in Active}

Current(t) == Head(task[t].todo)

Init ==
  /\ status = [r \in Runs |-> "absent"]
  /\ finished = [r \in Runs |-> FALSE]
  /\ created = 0
  /\ stored = {}
  /\ task = [t \in Tasks |-> Free]
  /\ client = [c \in Clients |-> Closed]
  /\ calls = 0
  /\ crashes = 0
  /\ lost = {}

\* Runs whose row changed since it was read as snap: a commit overwrites them.
Stale(snap) == {r \in DOMAIN snap : status[r] # snap[r]}

----------------------------------------------------------------------------
(* The API.                                                                *)

Calls(c, pc, snap) ==
  /\ client[c] = Closed
  /\ calls < MaxCalls
  /\ calls' = calls + 1
  /\ client' = [client EXCEPT ![c] = [pc |-> pc, snap |-> snap]]
  /\ UNCHANGED <<status, finished, created, stored, task, crashes, lost>>

\* POST /scrape/control/start reads the active runs: with none it goes on to
\* create, with stop_existing it stops them first, otherwise it is refused.
StartRead(c) ==
  \/ ActiveRuns = {} /\ Calls(c, "create", <<>>)
  \/ ActiveRuns # {} /\ Calls(c, "replace", [r \in ActiveRuns |-> status[r]])

\* POST /scrape/run and the command line do not look for active runs.
RunRead(c) == Calls(c, "create", <<>>)

\* POST /scrape/control/stop.
StopRead(c) == Calls(c, "stop", <<>>)

\* request_cancel_active_runs queries again; rows the session has already
\* loaded keep the values it read first.
CancelQuery(c) ==
  LET seen == client[c].snap
      next == [replace |-> "replacing", stop |-> "stopping"]
  IN
  /\ client[c].pc \in DOMAIN next
  /\ client' = [client EXCEPT ![c] =
       [pc   |-> next[@.pc],
        snap |-> [r \in ActiveRuns |->
                    IF r \in DOMAIN seen THEN seen[r] ELSE status[r]]]]
  /\ UNCHANGED <<status, finished, created, stored, task, calls, crashes, lost>>

\* The commit of request_cancel_active_runs: one UPDATE per run it read as
\* queued or running.
CancelCommit(c) ==
  LET snap == client[c].snap
      waiting == {r \in DOMAIN snap : snap[r] = "queued"}
      running == {r \in DOMAIN snap : snap[r] = "running"}
  IN
  /\ client[c].pc \in {"replacing", "stopping"}
  /\ status' = [r \in Runs |->
       IF r \in waiting THEN "cancelled"
       ELSE IF r \in running THEN "cancel_requested" ELSE status[r]]
  /\ finished' = [r \in Runs |-> finished[r] \/ r \in waiting]
  /\ lost' = lost \cup (Stale(snap) \cap (waiting \cup running))
  /\ client' = [client EXCEPT ![c] =
       IF @.pc = "stopping" THEN Closed ELSE [pc |-> "create", snap |-> <<>>]]
  /\ UNCHANGED <<created, stored, task, calls, crashes>>

\* Schedules a task for the first source only.
MutCreate(c, n) ==
  /\ client[c].pc = "create"
  /\ created + n <= MaxRuns
  /\ created' = created + n
  /\ status' = [r \in Runs |-> IF r \in created + 1..created' THEN "queued" ELSE status[r]]
  /\ client' = [client EXCEPT ![c] = Closed]
  /\ \E t \in Tasks :
       /\ task[t] = Free
       /\ task' = [task EXCEPT ![t] =
            [pc |-> "load", todo |-> <<created + 1>>, snap |-> "absent"]]
  /\ UNCHANGED <<finished, stored, calls, crashes, lost>>

\* One queued run per source, and a background task that executes them.
Create(c, n) ==
  LET fresh == created + 1..created + n IN
  /\ client[c].pc = "create"
  /\ created + n <= MaxRuns
  /\ created' = created + n
  /\ status' = [r \in Runs |-> IF r \in fresh THEN "queued" ELSE status[r]]
  /\ client' = [client EXCEPT ![c] = Closed]
  /\ \E t \in Tasks :
       /\ task[t] = Free
       /\ task' = [task EXCEPT ![t] =
            [pc |-> "load", todo |-> [i \in 1..n |-> created + i], snap |-> "absent"]]
  /\ UNCHANGED <<finished, stored, calls, crashes, lost>>

----------------------------------------------------------------------------
(* Background tasks (execute_scrape_run).                                  *)

Moves(t, pc, snap) == task' = [task EXCEPT ![t].pc = pc, ![t].snap = snap]

OnlyTask == UNCHANGED <<status, finished, created, stored, client, calls, crashes, lost>>

Load(t) ==
  LET s == status[Current(t)] IN
  /\ task[t].pc = "load"
  /\ Moves(t, IF s \in StopSignals THEN "cancel" ELSE "begin", s)
  /\ OnlyTask

\* Task t commits status s for its current run.
Writes(t, s) ==
  LET r == Current(t) IN
  /\ status' = [status EXCEPT ![r] = s]
  /\ lost' = IF status[r] = task[t].snap THEN lost ELSE lost \cup {r}

\* Stops after the first run of the task.
MutConcludes(t, s) ==
  /\ Writes(t, s)
  /\ finished' = [finished EXCEPT ![Current(t)] = TRUE]
  /\ task' = [task EXCEPT ![t] = Free]
  /\ UNCHANGED <<created, stored, client, calls, crashes>>

\* Writes the final status and goes on to the next run.
Concludes(t, s) ==
  LET rest == Tail(task[t].todo) IN
  /\ Writes(t, s)
  /\ finished' = [finished EXCEPT ![Current(t)] = TRUE]
  /\ task' = [task EXCEPT ![t] =
       IF rest = <<>> THEN Free ELSE [pc |-> "load", todo |-> rest, snap |-> "absent"]]
  /\ UNCHANGED <<created, stored, client, calls, crashes>>

Begin(t) ==
  /\ task[t].pc = "begin"
  /\ Writes(t, "running")
  /\ Moves(t, "scrape", "running")
  /\ UNCHANGED <<finished, created, stored, client, calls, crashes>>

\* Refreshes the row and does not look at it.
MutLook(t, pc, next) ==
  /\ task[t].pc = pc
  /\ Moves(t, next, status[Current(t)])
  /\ OnlyTask

\* _is_cancel_requested refreshes the row.
Look(t, pc, next) ==
  LET s == status[Current(t)] IN
  /\ task[t].pc = pc
  /\ Moves(t, IF s \in StopSignals THEN "cancel" ELSE next, s)
  /\ OnlyTask

\* An HTTP request of the scraper: more is left to fetch, this was the last
\* one, or it raises.
Fetch(t) ==
  /\ task[t].pc = "fetch"
  /\ \E pc \in {"scrape", "check", "fail"} : Moves(t, pc, task[t].snap)
  /\ OnlyTask

\* An error of the upsert is taken for success.
MutStore(t) ==
  /\ task[t].pc = "store"
  /\ stored' = stored \/ stored' = stored \cup {Current(t)}
  /\ Moves(t, "finish", task[t].snap)
  /\ UNCHANGED <<status, finished, created, client, calls, crashes, lost>>

\* upsert_drafts_with_stats commits the drafts of the run, or raises.
Store(t) ==
  /\ task[t].pc = "store"
  /\ \/ /\ stored' = stored \cup {Current(t)}
        /\ Moves(t, "finish", task[t].snap)
     \/ /\ Moves(t, "fail", task[t].snap)
        /\ UNCHANGED stored
  /\ UNCHANGED <<status, finished, created, client, calls, crashes, lost>>

\* _apply_stats: no look at the status in between.
Finish(t) ==
  /\ task[t].pc = "finish"
  /\ \E s \in {"succeeded", "partial"} : Concludes(t, s)

MarkCancelled(t) == task[t].pc = "cancel" /\ Concludes(t, "cancelled")

\* After the rollback the row is read again.
FailRead(t) ==
  /\ task[t].pc = "fail"
  /\ Moves(t, "failing", status[Current(t)])
  /\ OnlyTask

FailCommit(t) == task[t].pc = "failing" /\ Concludes(t, "failed")

TaskStep(t) ==
  \/ Load(t) \/ Begin(t)
  \/ Look(t, "scrape", "fetch") \/ Fetch(t) \/ Look(t, "check", "store")
  \/ Store(t) \/ Finish(t) \/ MarkCancelled(t) \/ FailRead(t) \/ FailCommit(t)

----------------------------------------------------------------------------

\* A commit outside the try fails: the exception ends the task, and nothing
\* takes up the runs it had left.
TaskDies(t) ==
  /\ task[t] # Free
  /\ crashes < MaxCrashes
  /\ crashes' = crashes + 1
  /\ task' = [task EXCEPT ![t] = Free]
  /\ UNCHANGED <<status, finished, created, stored, client, calls, lost>>

\* The server process restarts.
Restart ==
  /\ crashes < MaxCrashes
  /\ crashes' = crashes + 1
  /\ task' = [t \in Tasks |-> Free]
  /\ client' = [c \in Clients |-> Closed]
  /\ UNCHANGED <<status, finished, created, stored, calls, lost>>

ClientStep(c) ==
  \/ CancelQuery(c) \/ CancelCommit(c)
  \/ \E n \in 1..MaxSources : Create(c, n)

Next ==
  \/ \E c \in Clients : StartRead(c) \/ RunRead(c) \/ StopRead(c) \/ ClientStep(c)
  \/ \E t \in Tasks : TaskStep(t) \/ TaskDies(t)
  \/ Restart

Spec == Init /\ [][Next]_vars

\* A handler and a background task run to their end; a scraper does not fetch
\* for ever (its drafts and pages are limited), so it reaches its last check.
Fairness ==
  /\ \A c \in Clients : WF_vars(ClientStep(c))
  /\ \A t \in Tasks : WF_vars(TaskStep(t))
  /\ \A t \in Tasks : SF_vars(Fetch(t) /\ task'[t].pc # "scrape")

FairSpec == Spec /\ Fairness

----------------------------------------------------------------------------
(* Properties.                                                             *)

\* The statuses of active runs, as a session may have read them.
Reads == UNION {[seen -> Active] : seen \in SUBSET Runs}

\* The type invariant: rows, tasks and sessions keep their shape.
TypeOK ==
  /\ status \in [Runs -> Statuses]
  /\ finished \in [Runs -> BOOLEAN]
  /\ created \in 0..MaxRuns
  /\ stored \subseteq Runs
  /\ task \in [Tasks -> [pc : TaskPcs, todo : Seq(Runs), snap : Statuses]]
  /\ client \in [Clients -> [pc : ClientPcs, snap : Reads]]
  /\ calls \in 0..MaxCalls
  /\ crashes \in 0..MaxCrashes
  /\ lost \subseteq Runs

Works(t, r) == \E i \in DOMAIN task[t].todo : task[t].todo[i] = r

\* No two tasks ever work on the same run, and unless a task died or an update
\* of the run was lost, every active run has a task that will conclude it: the
\* control page does not show a run as active that nothing executes.
Worked ==
  \A r \in Runs :
    /\ \A t, u \in Tasks : Works(t, r) /\ Works(u, r) => t = u
    /\ status[r] \in Active /\ crashes = 0 /\ r \notin lost
         => \E t \in Tasks : Works(t, r)

\* A cancelled or failed run has stored nothing, a successful one has stored its
\* drafts, and finished_at is set exactly on the runs that are over, unless an
\* update of the run was lost.
StoredIffSucceeded ==
  \A r \in Runs \ lost :
    /\ status[r] \in {"cancelled", "failed"} => r \notin stored
    /\ status[r] \in {"succeeded", "partial"} => r \in stored
    /\ finished[r] <=> status[r] \in Done

Edges ==
  {<<"absent", "queued">>, <<"queued", "running">>, <<"queued", "cancelled">>,
   <<"running", "cancel_requested">>, <<"running", "succeeded">>,
   <<"running", "partial">>, <<"running", "failed">>,
   <<"cancel_requested", "cancelled">>, <<"cancel_requested", "failed">>}

\* The life of a run whose updates are not lost: a final status is kept, and a
\* cancel request is answered by cancelled, or by failed when the scraper
\* raised, never by success.
RunLifecycle ==
  [][\A r \in Runs \ lost' :
       status'[r] # status[r] => <<status[r], status'[r]>> \in Edges]_vars

\* Every run is concluded, when no task dies and no update of it is lost.
RunsSettle ==
  \A r \in Runs :
    status[r] \in Active ~> (status[r] \in Done \/ r \in lost \/ crashes > 0)
=============================================================================
