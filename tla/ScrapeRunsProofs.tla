--------------------------- MODULE ScrapeRunsProofs ---------------------------
(***************************************************************************)
(* Theorems about ScrapeRuns for every set of sessions and tasks and every *)
(* number of sources and runs: a run has one task, its status follows the  *)
(* life of a run, and what is stored agrees with how the run ended, unless *)
(* an update of its row was lost.                                          *)
(***************************************************************************)
EXTENDS ScrapeRuns, SequenceTheorems, TLAPS

----------------------------------------------------------------------------
(* Types.                                                                  *)

TaskRecord == [pc : TaskPcs, todo : Seq(Runs), snap : Statuses]
ClientRecord == [pc : ClientPcs, snap : Reads]

LEMMA RunsAreNumbers == Runs \subseteq Nat
BY BoundsAssumption DEF Runs

LEMMA NothingRead == <<>> \in Reads
<1>1. <<>> \in [{} -> Active]
  OBVIOUS
<1>. QED BY <1>1 DEF Reads

LEMMA InitTypeOK == Init => TypeOK
<1>. SUFFICES ASSUME Init PROVE TypeOK
  OBVIOUS
<1>1. Free \in TaskRecord
  BY DEF Free, TaskRecord, TaskPcs, Statuses
<1>2. Closed \in ClientRecord
  BY NothingRead DEF Closed, ClientRecord, ClientPcs
<1>. QED
  BY <1>1, <1>2, BoundsAssumption
  DEF Init, TypeOK, TaskRecord, ClientRecord, Statuses

LEMMA MovesTyped ==
  ASSUME TypeOK, NEW t \in Tasks, NEW pc \in TaskPcs, NEW snap \in Statuses,
         Moves(t, pc, snap)
  PROVE  /\ task' \in [Tasks -> TaskRecord]
         /\ task'[t] = [pc |-> pc, todo |-> task[t].todo, snap |-> snap]
         /\ \A u \in Tasks : u # t => task'[u] = task[u]
<1>1. task \in [Tasks -> TaskRecord]
  BY DEF TypeOK, TaskRecord
<1>. QED BY <1>1 DEF Moves, TaskRecord

\* A task has runs exactly while it works, each of them once, and no run has two
\* tasks.
Shared ==
  /\ \A t \in Tasks :
       task[t] # Free => task[t].pc # "free" /\ task[t].todo # <<>>
  /\ \A t \in Tasks : \A i, k \in DOMAIN task[t].todo :
       task[t].todo[i] = task[t].todo[k] => i = k
  /\ \A t, u \in Tasks, r \in Runs : Works(t, r) /\ Works(u, r) => t = u
  /\ \A t \in Tasks, r \in Runs : Works(t, r) => r <= created

Shape == TypeOK /\ Shared

\* The task of a run in hand, and the run.
LEMMA CurrentRun ==
  ASSUME Shape, NEW t \in Tasks, task[t].pc # "free"
  PROVE  /\ task[t] \in TaskRecord /\ task[t].todo # <<>>
         /\ Current(t) \in Runs /\ Works(t, Current(t))
         /\ Current(t) = task[t].todo[1] /\ 1 \in DOMAIN task[t].todo
<1>1. task[t] \in TaskRecord /\ task[t].todo \in Seq(Runs) /\ task[t].todo # <<>>
  BY DEF Shape, TypeOK, TaskRecord, Shared, Free
<1>2. 1 \in DOMAIN task[t].todo /\ Current(t) = task[t].todo[1] /\ task[t].todo[1] \in Runs
  BY <1>1 DEF Current
<1>. QED BY <1>1, <1>2 DEF Works

\* What is left when the current run is done.
LEMMA Remaining ==
  ASSUME Shape, NEW t \in Tasks, task[t].pc # "free",
         NEW rest, rest = Tail(task[t].todo)
  PROVE  /\ rest \in Seq(Runs)
         /\ \A i \in DOMAIN rest : rest[i] = task[t].todo[i + 1] /\ i + 1 \in DOMAIN task[t].todo
         /\ \A r \in Runs :
              Works(t, r) /\ r # Current(t) => \E i \in DOMAIN rest : rest[i] = r
         /\ \A i \in DOMAIN rest : Works(t, rest[i]) /\ rest[i] # Current(t)
         /\ \A i, k \in DOMAIN rest : rest[i] = rest[k] => i = k
<1>. DEFINE todo == task[t].todo
<1>1. todo \in Seq(Runs) /\ todo # <<>> /\ Current(t) = todo[1] /\ 1 \in DOMAIN todo
  BY CurrentRun DEF TaskRecord
<1>2. \A i, k \in DOMAIN todo : todo[i] = todo[k] => i = k
  BY DEF Shape, Shared
<1>3. \A r : Works(t, r) <=> \E i \in DOMAIN todo : todo[i] = r
  BY DEF Works
<1>. HIDE DEF todo
<1>4. rest = Tail(todo)
  BY DEF todo
<1>5. rest \in Seq(Runs) /\ Len(rest) = Len(todo) - 1 /\ Len(todo) \in Nat
  <2>1. todo \in Seq(Runs) /\ todo # <<>>
    BY <1>1
  <2>2. Tail(todo) \in Seq(Runs) /\ Len(Tail(todo)) = Len(todo) - 1
    BY <2>1, HeadTailProperties
  <2>3. Len(todo) \in Nat
    BY <2>1
  <2>. QED BY <1>4, <2>2, <2>3
<1>6. \A i \in DOMAIN rest : rest[i] = todo[i + 1] /\ i + 1 \in DOMAIN todo /\ i + 1 # 1
  BY <1>1, <1>4, <1>5, HeadTailProperties
<1>7. \A i \in DOMAIN todo : i # 1 => i - 1 \in DOMAIN rest /\ rest[i - 1] = todo[i]
  BY <1>1, <1>4, <1>5, HeadTailProperties
<1>8. \A r \in Runs :
        Works(t, r) /\ r # Current(t) => \E i \in DOMAIN rest : rest[i] = r
  BY <1>1, <1>3, <1>7
<1>9. \A i \in DOMAIN rest : Works(t, rest[i]) /\ rest[i] # Current(t)
  BY <1>1, <1>2, <1>3, <1>6
<1>10. \A i, k \in DOMAIN rest : rest[i] = rest[k] => i = k
  <2>1. DOMAIN rest \subseteq Nat
    BY <1>5
  <2>. QED BY <1>2, <1>6, <2>1
<1>11. \A i \in DOMAIN rest : rest[i] = task[t].todo[i + 1] /\ i + 1 \in DOMAIN task[t].todo
  BY <1>6 DEF todo
<1>. QED BY <1>5, <1>8, <1>9, <1>10, <1>11

\* The next run of a task, or none.
LEMMA ConcludesTyped ==
  ASSUME Shape, NEW t \in Tasks, task[t].pc # "free", NEW s \in Statuses, Concludes(t, s)
  PROVE  /\ task' \in [Tasks -> TaskRecord]
         /\ task'[t].todo = Tail(task[t].todo)
         /\ task'[t].pc = (IF Tail(task[t].todo) = <<>> THEN "free" ELSE "load")
         /\ Tail(task[t].todo) = <<>> => task'[t] = Free
         /\ \A u \in Tasks : u # t => task'[u] = task[u]
<1>. DEFINE rest == Tail(task[t].todo)
<1>1. rest \in Seq(Runs)
  BY Remaining
<1>2. task \in [Tasks -> TaskRecord]
  BY DEF Shape, TypeOK, TaskRecord
<1>. HIDE DEF rest
<1>3. /\ Free \in TaskRecord
      /\ [pc |-> "load", todo |-> rest, snap |-> "absent"] \in TaskRecord
  BY <1>1 DEF Free, TaskRecord, TaskPcs, Statuses
<1>4. task' = [task EXCEPT ![t] =
        IF rest = <<>> THEN Free ELSE [pc |-> "load", todo |-> rest, snap |-> "absent"]]
  BY DEF Concludes, rest
<1>5. task' \in [Tasks -> TaskRecord] /\ \A u \in Tasks : u # t => task'[u] = task[u]
  BY <1>2, <1>3, <1>4
<1>6. task'[t].todo = rest /\ task'[t].pc = (IF rest = <<>> THEN "free" ELSE "load")
  BY <1>2, <1>4 DEF Free
<1>7. rest = <<>> => task'[t] = Free
  BY <1>2, <1>4
<1>. QED BY <1>5, <1>6, <1>7 DEF rest

\* Every status a run is given.
LEMMA WritesTyped ==
  ASSUME TypeOK, NEW t \in Tasks, NEW s \in Statuses, Writes(t, s), Current(t) \in Runs
  PROVE  status' \in [Runs -> Statuses] /\ lost' \subseteq Runs
BY DEF TypeOK, Writes

LEMMA TaskTyped ==
  ASSUME Shape, NEW t \in Tasks, TaskStep(t)
  PROVE  TypeOK'
<1>0. /\ TypeOK /\ task[t].snap \in Statuses
      /\ {"load", "begin", "scrape", "fetch", "check", "store", "finish", "cancel",
          "fail", "failing"} \subseteq TaskPcs
      /\ {"running", "succeeded", "partial", "cancelled", "failed"} \subseteq Statuses
  BY DEF Shape, TypeOK, TaskPcs, Statuses, Active, Done
<1>1. /\ task[t].pc # "free"
      /\ Current(t) \in Runs /\ status[Current(t)] \in Statuses
  <2>1. task[t].pc # "free"
    BY DEF TaskStep, Load, Begin, Look, Fetch, Store, Finish, MarkCancelled, FailRead,
           FailCommit
  <2>. QED BY <1>0, <2>1, CurrentRun DEF TypeOK
<1>2. ASSUME NEW pc \in TaskPcs, NEW snap \in Statuses, Moves(t, pc, snap), OnlyTask
      PROVE  TypeOK'
  BY <1>0, <1>2, MovesTyped DEF TypeOK, OnlyTask, TaskRecord
<1>3. ASSUME NEW s \in Statuses, Concludes(t, s) PROVE TypeOK'
  <2>1. task' \in [Tasks -> TaskRecord]
    BY <1>1, <1>3, ConcludesTyped
  <2>2. status' \in [Runs -> Statuses] /\ lost' \subseteq Runs
    BY <1>0, <1>1, <1>3, WritesTyped DEF Concludes
  <2>3. finished' \in [Runs -> BOOLEAN]
    BY <1>0, <1>1, <1>3 DEF Concludes, TypeOK
  <2>. QED BY <1>0, <1>3, <2>1, <2>2, <2>3 DEF Concludes, TypeOK, TaskRecord
<1>4. CASE Load(t)
  BY <1>0, <1>1, <1>2, <1>4 DEF Load
<1>5. CASE Begin(t)
  <2>1. task' \in [Tasks -> TaskRecord]
    BY <1>0, <1>5, MovesTyped DEF Begin
  <2>2. status' \in [Runs -> Statuses] /\ lost' \subseteq Runs
    BY <1>0, <1>1, <1>5, WritesTyped DEF Begin
  <2>. QED BY <1>0, <1>5, <2>1, <2>2 DEF Begin, TypeOK, TaskRecord
<1>6. CASE Look(t, "scrape", "fetch") \/ Look(t, "check", "store")
  BY <1>0, <1>1, <1>2, <1>6 DEF Look
<1>7. CASE Fetch(t)
  BY <1>0, <1>2, <1>7 DEF Fetch
<1>8. CASE Store(t)
  <2>1. task' \in [Tasks -> TaskRecord]
    BY <1>0, <1>8, MovesTyped DEF Store
  <2>. QED BY <1>0, <1>1, <1>8, <2>1 DEF Store, TypeOK, TaskRecord
<1>9. CASE Finish(t) \/ MarkCancelled(t) \/ FailCommit(t)
  BY <1>0, <1>3, <1>9 DEF Finish, MarkCancelled, FailCommit
<1>10. CASE FailRead(t)
  BY <1>0, <1>1, <1>2, <1>10 DEF FailRead
<1>. QED BY <1>4, <1>5, <1>6, <1>7, <1>8, <1>9, <1>10 DEF TaskStep

LEMMA CallTyped ==
  ASSUME TypeOK, NEW c \in Clients, NEW pc \in ClientPcs, NEW snap \in Reads,
         Calls(c, pc, snap)
  PROVE  TypeOK'
<1>1. [pc |-> pc, snap |-> snap] \in ClientRecord
  BY DEF ClientRecord
<1>2. client' \in [Clients -> ClientRecord]
  BY <1>1 DEF Calls, TypeOK, ClientRecord
<1>3. calls' \in 0..MaxCalls
  BY BoundsAssumption DEF Calls, TypeOK
<1>. QED BY <1>2, <1>3 DEF Calls, TypeOK, ClientRecord

\* The task a new call starts.
LEMMA NewTask ==
  ASSUME TypeOK, NEW c \in Clients, NEW n \in 1..MaxSources, Create(c, n)
  PROVE  \E t \in Tasks, todo \in Seq(Runs) :
           /\ task[t] = Free
           /\ todo = [i \in 1..n |-> created + i] /\ todo # <<>> /\ DOMAIN todo = 1..n
           /\ task' = [task EXCEPT ![t] = [pc |-> "load", todo |-> todo, snap |-> "absent"]]
<1>. DEFINE todo == [i \in 1..n |-> created + i]
<1>1. n \in Nat /\ created \in Nat /\ created + n <= MaxRuns /\ n >= 1 /\ MaxRuns \in Nat
  BY BoundsAssumption DEF TypeOK, Create
<1>2. todo \in [1..n -> Runs]
  BY <1>1 DEF Runs
<1>3. todo \in Seq(Runs)
  BY <1>1, <1>2
<1>4. todo # <<>>
  BY <1>1
<1>. QED BY <1>3, <1>4 DEF Create

LEMMA ClientTyped ==
  ASSUME TypeOK, NEW c \in Clients,
         StartRead(c) \/ RunRead(c) \/ StopRead(c) \/ ClientStep(c)
  PROVE  TypeOK'
<1>0. /\ {"closed", "replace", "stop", "replacing", "stopping", "create"} \subseteq ClientPcs
      /\ {"queued", "cancelled", "cancel_requested"} \subseteq Statuses
      /\ ActiveRuns \subseteq Runs /\ \A r \in ActiveRuns : status[r] \in Active
      /\ client \in [Clients -> ClientRecord] /\ task \in [Tasks -> TaskRecord]
  BY DEF ClientPcs, Statuses, Active, Done, ActiveRuns, TypeOK, ClientRecord, TaskRecord
<1>1. CASE StartRead(c)
  <2>1. [r \in ActiveRuns |-> status[r]] \in [ActiveRuns -> Active]
    BY <1>0
  <2>2. [r \in ActiveRuns |-> status[r]] \in Reads
    BY <1>0, <2>1 DEF Reads
  <2>. QED BY <1>0, <1>1, <2>2, CallTyped, NothingRead DEF StartRead
<1>2. CASE RunRead(c) \/ StopRead(c)
  BY <1>0, <1>2, CallTyped, NothingRead DEF RunRead, StopRead
<1>3. CASE CancelQuery(c)
  <2>. DEFINE seen == client[c].snap
              snap == [r \in ActiveRuns |->
                         IF r \in DOMAIN seen THEN seen[r] ELSE status[r]]
  <2>1. client[c].snap \in Reads
    BY <1>0 DEF ClientRecord
  <2>2. \A r \in DOMAIN seen : seen[r] \in Active
    BY <2>1 DEF Reads
  <2>3. snap \in [ActiveRuns -> Active]
    BY <1>0, <2>2
  <2>4. snap \in Reads
    BY <1>0, <2>3 DEF Reads
  <2>5. client[c].pc \in {"replace", "stop"}
    BY <1>3 DEF CancelQuery
  <2>. DEFINE pc == [replace |-> "replacing", stop |-> "stopping"][client[c].pc]
  <2>6. client' = [client EXCEPT ![c] = [pc |-> pc, snap |-> snap]]
    BY <1>3 DEF CancelQuery
  <2>7. pc \in ClientPcs
    BY <1>0, <2>5
  <2>. HIDE DEF pc, seen, snap
  <2>8. client' \in [Clients -> ClientRecord]
    BY <1>0, <2>4, <2>6, <2>7 DEF ClientRecord
  <2>. QED BY <1>3, <2>8 DEF CancelQuery, TypeOK, ClientRecord
<1>4. CASE CancelCommit(c)
  <2>1. status' \in [Runs -> Statuses]
    BY <1>0, <1>4 DEF CancelCommit, TypeOK
  <2>2. finished' \in [Runs -> BOOLEAN]
    BY <1>4 DEF CancelCommit, TypeOK
  <2>3. DOMAIN client[c].snap \subseteq Runs
    BY <1>0 DEF ClientRecord, Reads
  <2>4. lost' \subseteq Runs
    BY <1>4, <2>3 DEF CancelCommit, TypeOK, Stale
  <2>5. Closed \in ClientRecord /\ [pc |-> "create", snap |-> <<>>] \in ClientRecord
    BY <1>0, NothingRead DEF Closed, ClientRecord
  <2>6. client' \in [Clients -> ClientRecord]
    BY <1>0, <1>4, <2>5 DEF CancelCommit
  <2>. QED BY <1>4, <2>1, <2>2, <2>4, <2>6 DEF CancelCommit, TypeOK, ClientRecord
<1>5. ASSUME NEW n \in 1..MaxSources, Create(c, n) PROVE TypeOK'
  <2>1. created' \in 0..MaxRuns
    BY <1>5, BoundsAssumption DEF Create, TypeOK
  <2>2. status' \in [Runs -> Statuses]
    BY <1>0, <1>5 DEF Create, TypeOK
  <2>3. task' \in [Tasks -> TaskRecord]
    <3>1. PICK t \in Tasks, todo \in Seq(Runs) :
            task' = [task EXCEPT ![t] = [pc |-> "load", todo |-> todo, snap |-> "absent"]]
      BY <1>5, NewTask
    <3>2. [pc |-> "load", todo |-> todo, snap |-> "absent"] \in TaskRecord
      BY DEF TaskRecord, TaskPcs, Statuses
    <3>. QED BY <1>0, <3>1, <3>2
  <2>4. Closed \in ClientRecord
    BY <1>0, NothingRead DEF Closed, ClientRecord
  <2>5. client' \in [Clients -> ClientRecord]
    BY <1>0, <1>5, <2>4 DEF Create
  <2>. QED BY <1>5, <2>1, <2>2, <2>3, <2>5 DEF Create, TypeOK, ClientRecord, TaskRecord
<1>. QED BY <1>1, <1>2, <1>3, <1>4, <1>5 DEF ClientStep

\* The runs of the task that is moved stay the same or become fewer.
LEMMA FewerRuns ==
  ASSUME Shape, NEW t \in Tasks, created' = created,
         \A u \in Tasks : u # t => task'[u] = task[u],
         task'[t] # Free => task'[t].pc # "free" /\ task'[t].todo # <<>>,
         \A i, k \in DOMAIN task'[t].todo : task'[t].todo[i] = task'[t].todo[k] => i = k,
         \A i \in DOMAIN task'[t].todo : Works(t, task'[t].todo[i])
  PROVE  Shared' /\ \A u \in Tasks, r \in Runs : Works(u, r)' => Works(u, r)
<1>1. \A u \in Tasks, r \in Runs : Works(u, r)' => Works(u, r)
  BY DEF Works
<1>2. ASSUME NEW u \in Tasks
      PROVE  /\ task'[u] # Free => task'[u].pc # "free" /\ task'[u].todo # <<>>
             /\ \A i, k \in DOMAIN task'[u].todo :
                  task'[u].todo[i] = task'[u].todo[k] => i = k
  <2>1. CASE u = t
    BY <2>1
  <2>2. CASE u # t
    BY <2>2 DEF Shape, Shared
  <2>. QED BY <2>1, <2>2
<1>3. \A u, v \in Tasks, r \in Runs : Works(u, r)' /\ Works(v, r)' => u = v
  BY <1>1 DEF Shape, Shared
<1>4. \A u \in Tasks, r \in Runs : Works(u, r)' => r <= created'
  BY <1>1 DEF Shape, Shared
<1>. QED BY <1>1, <1>2, <1>3, <1>4 DEF Shared

\* A task that goes on with its run.
LEMMA SameRuns ==
  ASSUME Shape, NEW t \in Tasks, NEW pc \in TaskPcs \ {"free"}, NEW snap \in Statuses,
         task[t].pc # "free", Moves(t, pc, snap), created' = created
  PROVE  /\ Shared' /\ Current(t)' = Current(t)
         /\ \A u \in Tasks, r \in Runs : Works(u, r)' <=> Works(u, r)
<1>1. /\ task'[t] = [pc |-> pc, todo |-> task[t].todo, snap |-> snap]
      /\ \A u \in Tasks : u # t => task'[u] = task[u]
  BY MovesTyped DEF Shape
<1>2. task'[t].todo = task[t].todo /\ task'[t].pc = pc
  BY <1>1
<1>3. task[t].todo # <<>>
  BY CurrentRun
<1>4. \A i, k \in DOMAIN task'[t].todo : task'[t].todo[i] = task'[t].todo[k] => i = k
  BY <1>2 DEF Shape, Shared
<1>5. \A i \in DOMAIN task'[t].todo : Works(t, task'[t].todo[i])
  BY <1>2 DEF Works
<1>6. Shared'
  BY <1>1, <1>2, <1>3, <1>4, <1>5, FewerRuns
<1>7. ASSUME NEW u \in Tasks PROVE task'[u].todo = task[u].todo
  BY <1>1, <1>2
<1>8. \A u \in Tasks, r \in Runs : Works(u, r)' <=> Works(u, r)
  BY <1>7 DEF Works
<1>. QED BY <1>2, <1>6, <1>8 DEF Current

\* A task that is done with its run.
LEMMA NextRuns ==
  ASSUME Shape, NEW t \in Tasks, NEW s \in Statuses, task[t].pc # "free", Concludes(t, s)
  PROVE  /\ Shared'
         /\ \A u \in Tasks, r \in Runs : Works(u, r)' => Works(u, r)
         /\ \A r \in Runs : Works(t, r)' <=> Works(t, r) /\ r # Current(t)
         /\ \A u \in Tasks : u # t => task'[u] = task[u]
<1>. DEFINE rest == Tail(task[t].todo)
<1>1. /\ task'[t].todo = rest
      /\ task'[t].pc = (IF rest = <<>> THEN "free" ELSE "load")
      /\ rest = <<>> => task'[t] = Free
      /\ \A u \in Tasks : u # t => task'[u] = task[u]
  BY ConcludesTyped
<1>2. /\ \A r \in Runs :
           Works(t, r) /\ r # Current(t) => \E i \in DOMAIN rest : rest[i] = r
      /\ \A i \in DOMAIN rest : Works(t, rest[i]) /\ rest[i] # Current(t)
      /\ \A i, k \in DOMAIN rest : rest[i] = rest[k] => i = k
  BY Remaining
<1>. HIDE DEF rest
<1>3. created' = created
  BY DEF Concludes
<1>4. Shared' /\ \A u \in Tasks, r \in Runs : Works(u, r)' => Works(u, r)
  BY <1>1, <1>2, <1>3, FewerRuns
<1>5. \A r \in Runs : Works(t, r)' <=> Works(t, r) /\ r # Current(t)
  BY <1>1, <1>2 DEF Works
<1>. QED BY <1>1, <1>4, <1>5

LEMMA CreateShared ==
  ASSUME Shape, NEW c \in Clients, NEW n \in 1..MaxSources, Create(c, n)
  PROVE  /\ Shared'
         /\ \E t \in Tasks :
              /\ task[t] = Free
              /\ task'[t].pc = "load"
              /\ \A r \in Runs : Works(t, r)' <=> r \in created + 1..created'
              /\ \A u \in Tasks : u # t => task'[u] = task[u]
<1>1. PICK t \in Tasks, todo \in Seq(Runs) :
        /\ task[t] = Free
        /\ todo = [i \in 1..n |-> created + i] /\ todo # <<>> /\ DOMAIN todo = 1..n
        /\ task' = [task EXCEPT ![t] = [pc |-> "load", todo |-> todo, snap |-> "absent"]]
  BY NewTask DEF Shape
<1>2. /\ task'[t] = [pc |-> "load", todo |-> todo, snap |-> "absent"]
      /\ \A u \in Tasks : u # t => task'[u] = task[u]
  BY <1>1 DEF Shape, TypeOK
<1>3. task'[t].pc = "load" /\ task'[t].todo = todo
  BY <1>2
<1>4. /\ created' = created + n /\ n \in Nat /\ created \in Nat
  BY BoundsAssumption DEF Create, Shape, TypeOK
<1>5. \A r \in Runs : Works(t, r)' <=> r \in created + 1..created'
  <2>1. \A r : Works(t, r)' <=> \E i \in 1..n : todo[i] = r
    BY <1>1, <1>3 DEF Works
  <2>2. \A i \in 1..n : todo[i] = created + i
    BY <1>1
  <2>3. ASSUME NEW r \in created + 1..created' PROVE r - created \in 1..n /\ r = created + (r - created)
    BY <1>4
  <2>. QED BY <1>4, <2>1, <2>2, <2>3
<1>6. \A u \in Tasks, r \in Runs : u # t => (Works(u, r)' <=> Works(u, r)) /\ (Works(u, r) => r <= created)
  BY <1>2 DEF Works, Shape, Shared
<1>7. \A r \in Runs : r \in Nat
  BY RunsAreNumbers
<1>8. \A u, v \in Tasks, r \in Runs : Works(u, r)' /\ Works(v, r)' => u = v
  <2>. SUFFICES ASSUME NEW u \in Tasks, NEW v \in Tasks, NEW r \in Runs,
                       Works(u, r)', Works(v, r)'
                PROVE  u = v
    OBVIOUS
  <2>1. CASE u # t /\ v # t
    BY <1>6, <2>1 DEF Shape, Shared
  <2>. QED BY <1>4, <1>5, <1>6, <1>7, <2>1
<1>9. \A u \in Tasks, r \in Runs : Works(u, r)' => r <= created'
  BY <1>4, <1>5, <1>6, <1>7
<1>10. ASSUME NEW u \in Tasks
       PROVE  /\ task'[u] # Free => task'[u].pc # "free" /\ task'[u].todo # <<>>
              /\ \A i, k \in DOMAIN task'[u].todo :
                   task'[u].todo[i] = task'[u].todo[k] => i = k
  <2>1. CASE u = t
    <3>1. \A i, k \in DOMAIN todo : todo[i] = todo[k] => i = k
      BY <1>1, <1>4
    <3>. QED BY <1>1, <1>3, <2>1, <3>1
  <2>2. CASE u # t
    BY <1>2, <2>2 DEF Shape, Shared
  <2>. QED BY <2>1, <2>2
<1>. QED BY <1>1, <1>2, <1>3, <1>5, <1>8, <1>9, <1>10 DEF Shared

LEMMA DeathTyped ==
  ASSUME Shape,
         Restart \/ \E t \in Tasks : TaskDies(t)
  PROVE  TypeOK' /\ Shared' /\ \A u \in Tasks, r \in Runs : Works(u, r)' => Works(u, r)
<1>1. task \in [Tasks -> TaskRecord] /\ client \in [Clients -> ClientRecord]
  BY DEF Shape, TypeOK, TaskRecord, ClientRecord
<1>2. \A u \in Tasks : task'[u] = Free \/ task'[u] = task[u]
  BY <1>1 DEF Restart, TaskDies
<1>3. Free \in TaskRecord /\ Closed \in ClientRecord
  BY NothingRead DEF Free, TaskRecord, TaskPcs, Statuses, Closed, ClientRecord, ClientPcs
<1>4. task' \in [Tasks -> TaskRecord] /\ client' \in [Clients -> ClientRecord]
  BY <1>1, <1>3 DEF Restart, TaskDies
<1>5. crashes' \in 0..MaxCrashes
  BY BoundsAssumption DEF Restart, TaskDies, Shape, TypeOK
<1>6. TypeOK'
  BY <1>4, <1>5 DEF Restart, TaskDies, Shape, TypeOK, TaskRecord, ClientRecord
<1>7. created' = created
  BY DEF Restart, TaskDies
<1>8. \A u \in Tasks, r \in Runs : Works(u, r)' => task'[u] = task[u] /\ Works(u, r)
  BY <1>2 DEF Works, Free
<1>9. Shared'
  BY <1>2, <1>7, <1>8 DEF Shape, Shared, Free
<1>. QED BY <1>6, <1>8, <1>9

----------------------------------------------------------------------------
(* Runs and their tasks.                                                   *)

\* What task t relies on for a run r it has, in hand or still ahead: an update of
\* the row that does not fit is a lost one.
Knows(t, r) ==
  LET at == IF r = Current(t) THEN task[t].pc ELSE "load"
      snap == task[t].snap
  IN
  /\ at \in {"load", "begin"} => status[r] \in {"queued", "cancelled"}
  /\ at = "begin" => snap = "queued"
  /\ at \in {"scrape", "fetch", "check", "store", "finish"} =>
       snap = "running" /\ status[r] \in {"running", "cancel_requested"}
  /\ at \in {"fail", "failing"} => status[r] \in {"running", "cancel_requested"}
  /\ at = "failing" => snap \in {"running", "cancel_requested"}
  /\ at = "cancel" => snap \in StopSignals /\ status[r] = snap
  /\ r \in stored <=> at = "finish"

\* What a row says of the run.
Tells(r) ==
  /\ status[r] = "absent" <=> r > created
  /\ status[r] \in {"absent", "queued", "cancelled", "failed"} => r \notin stored
  /\ status[r] \in {"succeeded", "partial"} => r \in stored
  /\ finished[r] <=> status[r] \in Done
  /\ status[r] \in Active /\ crashes = 0 => \E t \in Tasks : Works(t, r)

Known ==
  \A r \in Runs \ lost :
    Tells(r) /\ \A t \in Tasks : Works(t, r) => Knows(t, r)

Lives ==
  \A r \in Runs \ lost' : status'[r] = status[r] \/ <<status[r], status'[r]>> \in Edges

\* A step of task t that touches the row of its run r alone.
LEMMA OneRun ==
  ASSUME Shape, Known, NEW t \in Tasks, NEW r \in Runs, r = Current(t), Works(t, r),
         created' = created, crashes' = crashes, lost \subseteq lost',
         \A u \in Tasks : u # t => task'[u] = task[u],
         \A q \in Runs : q # r =>
           /\ status'[q] = status[q] /\ finished'[q] = finished[q]
           /\ q \in stored' <=> q \in stored
           /\ Works(t, q)' <=> Works(t, q)
           /\ Works(t, q)' /\ q = Current(t)' => task'[t].pc = "load",
         r \notin lost' =>
           /\ Tells(r)' /\ (Works(t, r)' => Knows(t, r)')
           /\ status'[r] = status[r] \/ <<status[r], status'[r]>> \in Edges
  PROVE  Known' /\ Lives
<1>1. \A u \in Tasks, q \in Runs : q # r => (Works(u, q)' <=> Works(u, q))
  BY DEF Works
<1>2. ASSUME NEW q \in Runs \ lost', q # r
      PROVE  Tells(q)' /\ \A u \in Tasks : Works(u, q)' => Knows(u, q)'
  <2>1. q \notin lost /\ Tells(q) /\ \A u \in Tasks : Works(u, q) => Knows(u, q)
    BY <1>2 DEF Known
  <2>2. Tells(q)'
    BY <1>1, <1>2, <2>1 DEF Tells
  <2>3. ASSUME NEW u \in Tasks, Works(u, q)' PROVE Knows(u, q)'
    <3>1. CASE u # t
      BY <1>1, <1>2, <2>1, <2>3, <3>1 DEF Knows, Current
    <3>2. CASE u = t
      <4>1. Knows(t, q)
        BY <1>1, <1>2, <2>1, <2>3, <3>2
      <4>2. status[q] \in {"queued", "cancelled"} /\ q \notin stored
        BY <1>2, <4>1 DEF Knows
      <4>3. (IF q = Current(t)' THEN task'[t].pc ELSE "load") = "load"
        BY <1>2, <2>3, <3>2
      <4>. QED BY <1>2, <3>2, <4>2, <4>3 DEF Knows
    <3>. QED BY <3>1, <3>2
  <2>. QED BY <2>2, <2>3
<1>3. ASSUME r \notin lost'
      PROVE  Tells(r)' /\ \A u \in Tasks : Works(u, r)' => Knows(u, r)'
  <2>1. ASSUME NEW u \in Tasks, Works(u, r)', u # t PROVE FALSE
    <3>1. Works(u, r)
      BY <2>1 DEF Works
    <3>. QED BY <2>1, <3>1 DEF Shape, Shared
  <2>. QED BY <1>3, <2>1
<1>4. Known'
  BY <1>2, <1>3 DEF Known
<1>5. Lives
  BY DEF Lives
<1>. QED BY <1>4, <1>5

\* A task that goes on with its run: what it knows next.
LEMMA GoesOn ==
  ASSUME Shape, Known, NEW t \in Tasks, NEW r \in Runs, r = Current(t),
         task[t].pc # "free", NEW pc \in TaskPcs \ {"free"}, NEW snap \in Statuses,
         Moves(t, pc, snap), UNCHANGED <<created, crashes>>, lost \subseteq lost',
         \A q \in Runs : q # r =>
           /\ status'[q] = status[q] /\ finished'[q] = finished[q]
           /\ q \in stored' <=> q \in stored,
         r \notin lost' =>
           /\ status'[r] = status[r] \/ <<status[r], status'[r]>> \in Edges
           /\ status'[r] = status[r] \/ {status[r], status'[r]} \subseteq Active
           /\ finished'[r] = finished[r]
           /\ status'[r] = "queued" => r \notin stored'
           /\ status'[r] = status[r] /\ status[r] \in Done => stored' = stored
           /\ pc = "begin" => snap = "queued" /\ status'[r] \in {"queued", "cancelled"}
           /\ pc # "load"
           /\ pc \in {"scrape", "fetch", "check", "store", "finish"} =>
                snap = "running" /\ status'[r] \in {"running", "cancel_requested"}
           /\ pc \in {"fail", "failing"} => status'[r] \in {"running", "cancel_requested"}
           /\ pc = "failing" => snap \in {"running", "cancel_requested"}
           /\ pc = "cancel" => snap \in StopSignals /\ status'[r] = snap
           /\ r \in stored' <=> pc = "finish"
  PROVE  Known' /\ Lives
<1>1. /\ Shared' /\ Current(t)' = Current(t)
      /\ \A u \in Tasks, q \in Runs : Works(u, q)' <=> Works(u, q)
  BY SameRuns
<1>2. /\ task'[t] = [pc |-> pc, todo |-> task[t].todo, snap |-> snap]
      /\ \A u \in Tasks : u # t => task'[u] = task[u]
  BY MovesTyped DEF Shape
<1>3. task'[t].pc = pc /\ task'[t].snap = snap
  BY <1>2
<1>4. Works(t, r) /\ Works(t, r)'
  BY <1>1, CurrentRun
<1>5. ASSUME r \notin lost' PROVE Tells(r)' /\ Knows(t, r)'
  <2>1. Tells(r)
    BY <1>5 DEF Known
  <2>2. r = Current(t)'
    BY <1>1
  <2>3. Knows(t, r)'
    BY <1>3, <1>5, <2>2 DEF Knows
  <2>4. Tells(r)'
    BY <1>1, <1>4, <1>5, <2>1 DEF Tells, Active, Done
  <2>. QED BY <2>3, <2>4
<1>. QED BY <1>1, <1>2, <1>4, <1>5, OneRun

\* A task that concludes its run.
LEMMA Ends ==
  ASSUME Shape, Known, NEW t \in Tasks, NEW r \in Runs, r = Current(t),
         task[t].pc # "free", NEW s \in Done, Concludes(t, s),
         r \notin lost' =>
           /\ <<status[r], s>> \in Edges \/ status[r] = s
           /\ s \in {"cancelled", "failed"} => r \notin stored
           /\ s \in {"succeeded", "partial"} => r \in stored
  PROVE  Known' /\ Lives
<1>0. s \in Statuses /\ status \in [Runs -> Statuses] /\ finished \in [Runs -> BOOLEAN]
  BY DEF Statuses, Shape, TypeOK
<1>1. /\ \A q \in Runs : Works(t, q)' <=> Works(t, q) /\ q # Current(t)
      /\ \A u \in Tasks : u # t => task'[u] = task[u]
  BY <1>0, NextRuns
<1>2. /\ task'[t].todo = Tail(task[t].todo)
      /\ task'[t].pc = (IF Tail(task[t].todo) = <<>> THEN "free" ELSE "load")
  BY <1>0, ConcludesTyped
<1>3. \A q \in Runs : Works(t, q)' => task'[t].pc = "load"
  BY <1>2 DEF Works
<1>4. /\ status'[r] = s /\ finished'[r] = TRUE
      /\ \A q \in Runs : q # r => status'[q] = status[q] /\ finished'[q] = finished[q]
      /\ UNCHANGED <<created, crashes, stored>> /\ lost \subseteq lost'
  BY <1>0 DEF Concludes, Writes
<1>5. r \notin lost' => Tells(r)'
  <2>1. r \notin lost' => Tells(r)
    BY <1>4 DEF Known
  <2>2. s \notin Active /\ s # "absent" /\ s # "queued"
    BY DEF Active, Done
  <2>3. r \notin lost' => status[r] # "absent"
    BY DEF Edges, Done
  <2>. QED BY <1>4, <2>1, <2>2, <2>3 DEF Tells
<1>6. Works(t, r)
  BY CurrentRun
<1>. QED BY <1>1, <1>3, <1>4, <1>5, <1>6, OneRun

LEMMA TaskKnown ==
  ASSUME Shape, Known, NEW t \in Tasks, TaskStep(t)
  PROVE  Shared' /\ Known' /\ Lives
<1>1. task[t].pc # "free"
  BY DEF TaskStep, Load, Begin, Look, Fetch, Store, Finish, MarkCancelled, FailRead,
         FailCommit
<1>2. PICK r \in Runs : r = Current(t) /\ Works(t, r)
  BY <1>1, CurrentRun
<1>3. /\ status \in [Runs -> Statuses] /\ task[t].snap \in Statuses
      /\ {"begin", "scrape", "fetch", "check", "store", "finish", "cancel", "fail",
          "failing"} \subseteq TaskPcs \ {"free"}
      /\ Done \subseteq Statuses /\ "running" \in Statuses
  BY DEF Shape, TypeOK, TaskPcs, Statuses, Active
<1>4. r \notin lost => Knows(t, r) /\ Tells(r)
  BY <1>2 DEF Known
<1>. DEFINE Goal == Shared' /\ Known' /\ Lives
<1>5. ASSUME NEW pc \in {"begin", "scrape", "fetch", "check", "store", "finish",
                         "cancel", "fail", "failing"},
             NEW snap \in Statuses, Moves(t, pc, snap), OnlyTask,
             r \notin lost =>
               /\ pc = "begin" => snap = "queued" /\ status[r] \in {"queued", "cancelled"}
               /\ pc \in {"scrape", "fetch", "check", "store", "finish"} =>
                    snap = "running" /\ status[r] \in {"running", "cancel_requested"}
               /\ pc \in {"fail", "failing"} => status[r] \in {"running", "cancel_requested"}
               /\ pc = "failing" => snap \in {"running", "cancel_requested"}
               /\ pc = "cancel" => snap \in StopSignals /\ status[r] = snap
               /\ r \in stored <=> pc = "finish"
      PROVE  Goal
  <2>1. UNCHANGED <<status, finished, created, stored, crashes, lost>>
    BY <1>5 DEF OnlyTask
  <2>2. pc \in TaskPcs \ {"free"} /\ pc # "load"
    BY <1>3, <1>5
  <2>3. Shared'
    BY <1>1, <1>5, <2>1, <2>2, SameRuns
  <2>4. r \notin lost => (status[r] = "queued" => r \notin stored)
    BY <1>4 DEF Tells
  <2>5. Known' /\ Lives
    BY <1>1, <1>2, <1>5, <2>1, <2>2, <2>4, GoesOn
  <2>. QED BY <2>3, <2>5
<1>6. ASSUME NEW s \in Done, Concludes(t, s),
             r \notin lost' =>
               /\ <<status[r], s>> \in Edges \/ status[r] = s
               /\ s \in {"cancelled", "failed"} => r \notin stored
               /\ s \in {"succeeded", "partial"} => r \in stored
      PROVE  Goal
  <2>1. Shared'
    BY <1>1, <1>3, <1>6, NextRuns
  <2>. QED BY <1>1, <1>2, <1>6, <2>1, Ends
\* The update is lost unless the row is as the task read it.
<1>7. ASSUME NEW s, Writes(t, s), r \notin lost'
      PROVE  r \notin lost /\ status[r] = task[t].snap
  BY <1>2, <1>7 DEF Writes
<1>. SUFFICES Goal
  OBVIOUS
<1>. HIDE DEF Goal
<1>8. CASE Load(t)
  BY <1>2, <1>3, <1>4, <1>5, <1>8 DEF Load, Knows, StopSignals
<1>9. CASE Begin(t)
  <2>1. Moves(t, "scrape", "running") /\ Writes(t, "running")
        /\ UNCHANGED <<finished, created, stored, client, calls, crashes>>
    BY <1>9 DEF Begin
  <2>2. /\ status'[r] = "running" /\ \A q \in Runs : q # r => status'[q] = status[q]
        /\ lost \subseteq lost'
    BY <1>2, <1>3, <2>1 DEF Writes
  <2>3. r \notin lost' => status[r] = "queued" /\ r \notin stored
    BY <1>2, <1>4, <1>7, <1>9, <2>1 DEF Begin, Knows
  <2>4. Shared'
    BY <1>1, <1>3, <2>1, SameRuns
  <2>5. <<"queued", "running">> \in Edges /\ "queued" \in Active /\ "running" \in Active
        /\ "queued" \notin Done
    BY DEF Edges, Active, Done
  <2>6. Known' /\ Lives
    BY <1>1, <1>2, <1>3, <2>1, <2>2, <2>3, <2>5, GoesOn
  <2>. QED BY <2>4, <2>6 DEF Goal
<1>10. CASE Look(t, "scrape", "fetch") \/ Look(t, "check", "store")
  BY <1>2, <1>3, <1>4, <1>5, <1>10 DEF Look, Knows, StopSignals
<1>11. CASE Fetch(t)
  BY <1>2, <1>3, <1>4, <1>5, <1>11 DEF Fetch, Knows
<1>12. CASE Store(t)
  <2>1. UNCHANGED <<status, finished, created, crashes, lost>> /\ task[t].pc = "store"
    BY <1>12 DEF Store
  <2>2. r \notin lost =>
          /\ task[t].snap = "running" /\ status[r] \in {"running", "cancel_requested"}
          /\ r \notin stored
    BY <1>2, <1>4, <2>1 DEF Knows
  <2>3. PICK pc \in {"finish", "fail"} :
          /\ Moves(t, pc, task[t].snap)
          /\ stored' = IF pc = "finish" THEN stored \cup {r} ELSE stored
    BY <1>2, <1>12 DEF Store
  <2>4. Shared'
    BY <1>1, <1>3, <2>1, <2>3, SameRuns
  <2>5. pc \in TaskPcs \ {"free"}
    BY <1>3
  <2>6. \A q \in Runs : q # r => (q \in stored' <=> q \in stored)
    BY <2>3
  <2>7. r \notin lost => (r \in stored' <=> pc = "finish")
    BY <2>2, <2>3
  <2>8. "running" \notin Done /\ "cancel_requested" \notin Done
    BY DEF Done
  <2>9. Known' /\ Lives
    BY <1>1, <1>2, <1>3, <2>1, <2>2, <2>3, <2>5, <2>6, <2>7, <2>8, GoesOn
  <2>. QED BY <2>4, <2>9 DEF Goal
<1>13. CASE Finish(t)
  <2>1. PICK s \in {"succeeded", "partial"} : Concludes(t, s) /\ task[t].pc = "finish"
    BY <1>13 DEF Finish
  <2>2. r \notin lost' => status[r] = "running" /\ r \in stored
    BY <1>2, <1>4, <1>7, <2>1 DEF Concludes, Knows
  <2>. QED BY <1>6, <2>1, <2>2 DEF Done, Edges
<1>14. CASE MarkCancelled(t)
  <2>1. Concludes(t, "cancelled") /\ task[t].pc = "cancel"
    BY <1>14 DEF MarkCancelled
  <2>2. r \notin lost' => status[r] \in StopSignals /\ r \notin stored
    BY <1>2, <1>4, <1>7, <2>1 DEF Concludes, Knows
  <2>. QED BY <1>6, <2>1, <2>2 DEF Done, Edges, StopSignals
<1>15. CASE FailRead(t)
  BY <1>2, <1>3, <1>4, <1>5, <1>15 DEF FailRead, Knows
<1>16. CASE FailCommit(t)
  <2>1. Concludes(t, "failed") /\ task[t].pc = "failing"
    BY <1>16 DEF FailCommit
  <2>2. r \notin lost' => status[r] \in {"running", "cancel_requested"} /\ r \notin stored
    BY <1>2, <1>4, <1>7, <2>1 DEF Concludes, Knows
  <2>. QED BY <1>6, <2>1, <2>2 DEF Done, Edges
<1>. QED
  BY <1>8, <1>9, <1>10, <1>11, <1>12, <1>13, <1>14, <1>15, <1>16 DEF TaskStep

\* Rows and runs as they were, tasks perhaps fewer.
LEMMA RowsKept ==
  ASSUME Known, UNCHANGED <<status, finished, created, stored, lost>>,
         \A u \in Tasks, r \in Runs : Works(u, r)' => task'[u] = task[u] /\ Works(u, r),
         (task' = task /\ crashes' = crashes) \/ crashes' # 0
  PROVE  Known' /\ Lives
<1>1. ASSUME NEW r \in Runs \ lost'
      PROVE  Tells(r)' /\ \A u \in Tasks : Works(u, r)' => Knows(u, r)'
  <2>1. Tells(r) /\ \A u \in Tasks : Works(u, r) => Knows(u, r)
    BY <1>1 DEF Known
  <2>2. Tells(r)'
    BY <2>1 DEF Tells, Works
  <2>3. \A u \in Tasks : Works(u, r)' => Knows(u, r)'
    BY <1>1, <2>1 DEF Knows, Current
  <2>. QED BY <2>2, <2>3
<1>. QED BY <1>1 DEF Known, Lives

\* The commit of a cancel: an update that is not lost cancels a queued run or asks
\* a running one to stop.
LEMMA CancelKnown ==
  ASSUME Shape, Known, NEW c \in Clients, CancelCommit(c)
  PROVE  Known' /\ Lives
<1>. DEFINE snap == client[c].snap
<1>0. /\ UNCHANGED <<created, stored, task, crashes>> /\ lost \subseteq lost'
      /\ finished \in [Runs -> BOOLEAN]
  BY DEF CancelCommit, Shape, TypeOK
<1>1. ASSUME NEW r \in Runs \ lost'
      PROVE  \/ status'[r] = status[r] /\ finished'[r] = finished[r]
             \/ status[r] = "queued" /\ status'[r] = "cancelled" /\ finished'[r] = TRUE
             \/ /\ status[r] = "running" /\ status'[r] = "cancel_requested"
                /\ finished'[r] = finished[r]
  <2>1. CASE r \in DOMAIN snap /\ snap[r] = "queued"
    <3>1. status[r] = "queued"
      BY <1>1, <2>1 DEF CancelCommit, Stale
    <3>. QED BY <1>1, <2>1, <3>1 DEF CancelCommit
  <2>2. CASE r \in DOMAIN snap /\ snap[r] = "running"
    <3>1. status[r] = "running"
      BY <1>1, <2>2 DEF CancelCommit, Stale
    <3>. QED BY <1>0, <1>1, <2>2, <3>1 DEF CancelCommit
  <2>3. CASE ~(r \in DOMAIN snap /\ snap[r] \in {"queued", "running"})
    BY <1>0, <1>1, <2>3 DEF CancelCommit
  <2>. QED BY <2>1, <2>2, <2>3
<1>2. \A u \in Tasks, r \in Runs : Works(u, r)' <=> Works(u, r)
  BY <1>0 DEF Works
<1>3. ASSUME NEW r \in Runs \ lost'
      PROVE  Tells(r)' /\ \A u \in Tasks : Works(u, r)' => Knows(u, r)'
  <2>1. Tells(r) /\ \A u \in Tasks : Works(u, r) => Knows(u, r)
    BY <1>0, <1>3 DEF Known
  <2>2. Tells(r)'
    BY <1>0, <1>1, <1>2, <1>3, <2>1 DEF Tells, Active, Done
  <2>3. ASSUME NEW u \in Tasks, Works(u, r)' PROVE Knows(u, r)'
    <3>1. Knows(u, r)
      BY <1>2, <2>1, <2>3
    <3>2. task'[u] = task[u] /\ Current(u)' = Current(u) /\ stored' = stored
      BY <1>0 DEF Current
    <3>3. task[u].pc \in TaskPcs
      BY DEF Shape, TypeOK
    <3>. QED BY <1>1, <1>3, <3>1, <3>2, <3>3 DEF Knows, StopSignals, TaskPcs
  <2>. QED BY <2>2, <2>3
<1>4. Lives
  BY <1>1 DEF Lives, Edges
<1>. QED BY <1>3, <1>4 DEF Known

\* New runs, with their task.
LEMMA CreateKnown ==
  ASSUME Shape, Known, NEW c \in Clients, NEW n \in 1..MaxSources, Create(c, n)
  PROVE  Known' /\ Lives
<1>1. PICK t \in Tasks :
        /\ task[t] = Free /\ task'[t].pc = "load"
        /\ \A r \in Runs : Works(t, r)' <=> r \in created + 1..created'
        /\ \A u \in Tasks : u # t => task'[u] = task[u]
  BY CreateShared
<1>2. /\ created \in Nat /\ created' \in Nat /\ created' >= created /\ Runs \subseteq Nat
      /\ status \in [Runs -> Statuses]
      /\ UNCHANGED <<finished, stored, crashes, lost>>
  BY RunsAreNumbers, BoundsAssumption DEF Create, Shape, TypeOK
<1>3. \A r \in Runs :
        status'[r] = IF r \in created + 1..created' THEN "queued" ELSE status[r]
  BY DEF Create
<1>4. ASSUME NEW r \in Runs \ lost'
      PROVE  /\ Tells(r)' /\ \A u \in Tasks : Works(u, r)' => Knows(u, r)'
             /\ status'[r] = status[r] \/ <<status[r], status'[r]>> \in Edges
  <2>1. Tells(r) /\ \A u \in Tasks : Works(u, r) => Knows(u, r)
    BY <1>2, <1>4 DEF Known
  <2>2. CASE r \in created + 1..created'
    <3>1. r > created /\ ~(r > created') /\ status'[r] = "queued" /\ Works(t, r)'
      BY <1>1, <1>2, <1>3, <2>2
    <3>2. status[r] = "absent" /\ r \notin stored /\ ~finished[r]
      BY <2>1, <3>1 DEF Tells, Done
    <3>3. Tells(r)'
      BY <1>2, <3>1, <3>2 DEF Tells, Done
    <3>4. ASSUME NEW u \in Tasks, Works(u, r)' PROVE u = t
      <4>1. u # t => Works(u, r)
        BY <1>1, <3>4 DEF Works
      <4>2. Works(u, r) => r <= created
        BY <1>4 DEF Shape, Shared
      <4>. QED BY <1>2, <1>4, <3>1, <4>1, <4>2
    <3>5. Knows(t, r)'
      BY <1>1, <1>2, <3>1, <3>2 DEF Knows
    <3>. QED BY <3>1, <3>2, <3>3, <3>4, <3>5 DEF Edges
  <2>3. CASE r \notin created + 1..created'
    <3>1. status'[r] = status[r] /\ (r > created' <=> r > created)
      BY <1>2, <1>3, <2>3
    <3>2. \A u \in Tasks : Works(u, r)' => u # t
      BY <1>1, <2>3
    <3>3. \A u \in Tasks : u # t => (Works(u, r)' <=> Works(u, r))
      BY <1>1 DEF Works
    <3>4. ~Works(t, r)
      BY <1>1 DEF Works, Free
    <3>5. Tells(r)'
      BY <1>2, <2>1, <3>1, <3>2, <3>3, <3>4 DEF Tells
    <3>6. \A u \in Tasks : Works(u, r)' => Knows(u, r)'
      BY <1>1, <1>2, <2>1, <3>1, <3>2, <3>3 DEF Knows, Current
    <3>. QED BY <3>1, <3>5, <3>6
  <2>. QED BY <2>2, <2>3
<1>. QED BY <1>2, <1>4 DEF Known, Lives

Ready == Shape /\ Known

LEMMA NextReady == Ready /\ [Next]_vars => Ready' /\ Lives
<1>. SUFFICES ASSUME Ready, [Next]_vars PROVE Ready' /\ Lives
  OBVIOUS
<1>. USE DEF Ready, Shape
<1>1. ASSUME UNCHANGED <<status, finished, created, stored, task, crashes, lost>>, TypeOK'
      PROVE  Ready' /\ Lives
  <2>1. Shared'
    BY <1>1 DEF Shared, Works
  <2>2. \A u \in Tasks, r \in Runs : Works(u, r)' => task'[u] = task[u] /\ Works(u, r)
    BY <1>1 DEF Works
  <2>. QED BY <1>1, <2>1, <2>2, RowsKept
<1>2. ASSUME NEW t \in Tasks, TaskStep(t) PROVE Ready' /\ Lives
  BY <1>2, TaskTyped, TaskKnown
<1>3. CASE Restart \/ \E t \in Tasks : TaskDies(t)
  <2>1. TypeOK' /\ Shared'
    BY <1>3, DeathTyped
  <2>2. /\ UNCHANGED <<status, finished, created, stored, lost>>
        /\ crashes' = crashes + 1 /\ crashes \in Nat
        /\ \A u \in Tasks : task'[u] = Free \/ task'[u] = task[u]
    BY <1>3, BoundsAssumption DEF Restart, TaskDies, TypeOK
  <2>3. \A u \in Tasks, r \in Runs : Works(u, r)' => task'[u] = task[u] /\ Works(u, r)
    BY <2>2 DEF Works, Free
  <2>. QED BY <2>1, <2>2, <2>3, RowsKept
<1>4. ASSUME NEW c \in Clients,
             StartRead(c) \/ RunRead(c) \/ StopRead(c) \/ ClientStep(c)
      PROVE  Ready' /\ Lives
  <2>1. TypeOK'
    BY <1>4, ClientTyped
  <2>2. CASE CancelCommit(c)
    <3>1. Shared'
      BY <2>2 DEF CancelCommit, Shared, Works
    <3>. QED BY <2>1, <2>2, <3>1, CancelKnown
  <2>3. CASE \E n \in 1..MaxSources : Create(c, n)
    BY <2>1, <2>3, CreateShared, CreateKnown
  <2>4. CASE StartRead(c) \/ RunRead(c) \/ StopRead(c) \/ CancelQuery(c)
    BY <1>1, <2>1, <2>4 DEF StartRead, RunRead, StopRead, Calls, CancelQuery
  <2>. QED BY <1>4, <2>2, <2>3, <2>4 DEF ClientStep
<1>5. CASE UNCHANGED vars
  <2>1. TypeOK'
    BY <1>5 DEF vars, TypeOK
  <2>. QED BY <1>1, <1>5, <2>1 DEF vars
<1>. QED BY <1>2, <1>3, <1>4, <1>5 DEF Next

LEMMA ReadyInvariant == Spec => []Ready
<1>1. Init => Ready
  <2>. SUFFICES ASSUME Init PROVE Ready
    OBVIOUS
  <2>1. \A t \in Tasks, r \in Runs : ~Works(t, r)
    BY DEF Init, Works, Free
  <2>2. Shared
    BY <2>1 DEF Init, Shared, Free
  <2>3. \A r \in Runs : Tells(r)
    BY DEF Init, Tells, Runs, Active, Done
  <2>. QED BY <2>1, <2>2, <2>3, InitTypeOK DEF Ready, Shape, Known
<1>. QED BY <1>1, NextReady, PTL DEF Spec

\* Rows, tasks and sessions keep their shape.
THEOREM TypeCorrect == Spec => []TypeOK
<1>1. Ready => TypeOK
  BY DEF Ready, Shape
<1>. QED BY <1>1, ReadyInvariant, PTL

\* A run never has two tasks, and an active one has one, as long as no task died
\* and no update of the run was lost.
THEOREM RunsHaveTasks == Spec => []Worked
<1>1. Ready => Worked
  BY DEF Ready, Shape, Shared, Known, Tells, Worked
<1>. QED BY <1>1, ReadyInvariant, PTL

\* What is stored agrees with how the run ended, and finished_at with its status.
THEOREM OutcomeTellsStored == Spec => []StoredIffSucceeded
<1>1. Ready => StoredIffSucceeded
  BY DEF Ready, Known, Tells, StoredIffSucceeded
<1>. QED BY <1>1, ReadyInvariant, PTL

\* The status of a run takes no other way than the life of a run.
THEOREM LifeOfARun == Spec => RunLifecycle
<1>1. Ready /\ [Next]_vars =>
        [\A r \in Runs \ lost' :
           status'[r] # status[r] => <<status[r], status'[r]>> \in Edges]_vars
  BY NextReady DEF Lives
<1>. QED BY <1>1, ReadyInvariant, PTL DEF Spec, RunLifecycle
=============================================================================
