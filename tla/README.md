# Verification of Resume Helper

Resume Helper (`src/readme.md`) is a FastAPI application over PostgreSQL. It
scores job descriptions against a profile, tailors resumes to those that score
well in background jobs, collects listings with scrapers, and tracks
applications. What is hard about it is that several processes write the same
rows: API requests, queue workers, scrape tasks and the command line. This
directory holds TLA+ models of those parts, TLC runs that check them on small
instances, and theorems that TLAPS checks for all instances.

## What the code relies on

Every model rests on three facts of `backend/app/db.py` and the drivers:

* PostgreSQL runs at READ COMMITTED, and no model class has a version column.
* The sessions are made with `autoflush=False` and expire their rows on commit.
  A handler reads a row, changes attributes, and its commit issues an UPDATE by
  primary key of the columns whose value differs from what was read.
* Only `claim_next_job` reads `FOR UPDATE`.

So each read-modify-write of a row is two steps in the models, a read that
remembers a snapshot and a commit that writes over whatever the row is by then.
A commit over a row that changed since it was read is a *lost update*. The
history variable `lost` collects the jobs, or runs, this has happened to. Many
properties hold of all others and say so: lost updates are then the only way to
break them. Findings below show what a lost update does.

## Inventory

| Component | State | Operations | Interacts with | What makes it correct |
|---|---|---|---|---|
| AI job queue (`services/job_queue.py`) | rows of `ai_jobs` | enqueue, requeue, claim, mark, retry | API, workers | one execution at a time, statuses follow a life cycle, nothing is stuck |
| Job API (`api/jobs.py`) | none | show, cancel | queue | a cancel is answered |
| Queue worker (`workers/job_queue.py`) | claimed job | poll, execute, mark | queue, evaluation, tailoring | an outcome is marked once and truthfully |
| Tailor worker (`workers/tailor.py`) | open transaction, PDF | check, call the LLM, store | queue (cancel), analyses, files | no second draft behind one it has reported, no row without its file, cancel honoured |
| Evaluation (`services/evaluator_v2.py`) | `job_analyses` | cached or fresh score, routing | API, worker, batches | one analysis per key, tailoring follows |
| Evaluation API (`api/evaluate.py`) | none | evaluate, bulk, listings, callback, revision, download | all of the above | submittable means there is a document |
| Profiles, proof points (`api/profile.py`, `services/proof_points.py`) | `baseline_profile`, `proof_points`, uploaded PDF | create, upload, update, extract, delete, default | evaluation, tailoring | one default, a resume is made from the profile that scored |
| Scrape runs (`services/scrapers/pipeline.py`, `api/scrape.py`) | `scrape_runs`, tasks in memory | start, replace, stop, execute | persistence | a stopped run stores nothing, no run is active without a task |
| Listing persistence (`persistence.py`) | `job_listings` | upsert, unlink on change | runs, batches | an analysis belongs to the text shown |
| Scrapers (`scraper_*.py`) | page cursor | search, detail | outside sites | no page twice, bounded |
| Batch evaluation (`batch_evaluator.py`, `ai_guardrails.py`) | none | evaluate listings under limits | evaluation, queue | limits hold, results are linked |
| Listing administration (`listing_admin.py`) | backup file | bulk delete | listings | analysed listings survive |
| Application tracker (`api/applications.py`) | `applications` | find or create, update, delete | listings, analyses, resumes | one per target, links agree, the resume that was sent stays |
| Beautified resumes (`api/beautify.py`) | row, HTML, PDF | render | LLM, files, audit | row and files agree |
| Rate limiter (`rate_limit.py`, `main.py`) | windows in memory | check, prune | every limited POST | limits hold, Retry-After is honest |
| LLM clients, contracts, audit (`services/llm/`) | `llm_audit_logs` | call, validate, record | workers, API | only valid output is stored |
| Evaluate page (`static/features/evaluate.js`, `resume-modal.js`) | globals: timer, current resume, editor | evaluate, poll, render, edit, save | API | what is displayed as running is polled, a text is saved where it was edited |
| Other pages (`static/`) | none beyond what they show | one request each | API | |

Opportunities, health and debug endpoints only read. The offline harnesses,
migrations and scripts run alone.

The hard behaviours are stale reads between API and workers, crashes of a
worker or of the server between two commits, cooperative cancellation, retries
with a limited number of attempts, and files beside rows. `PROJECT.json` lists
each hazard at its line.

## Modules

| Module | Models |
|---|---|
| `JobLifecycle` | abstract: the edges a job's status may follow and when its attempts move |
| `AIJobQueue` | queue, job API and the claim / mark skeleton of the worker |
| `JobPipeline` | extends `AIJobQueue` with what workers do between claim and mark, and with the endpoints that score, deliver and download |
| `ScrapeRuns` | scrape runs, the calls that start and stop them, the tasks that execute them |
| `Guardrails` | pure: what a batch is estimated to take in tokens and cost, and which batches its limits let through |
| `Listings` | extends `Guardrails`: rows of `job_listings` and `job_analyses` under upserts, batches of evaluations, bulk deletions and what they queue for tailoring |
| `Profiles` | profiles, the default flag under row locks, uploads, proof points, and the score and resume made from them |
| `Tracker` | the application tracker in overlapping requests, and what its rows link to |
| `Contracts` | pure: what each contract of `services/llm/contracts.py` accepts and normalises, over classes of values |
| `LLMCalls` | extends `Contracts`: the four calls from the answer of the model to the row, the files and the audit row |
| `EvaluatePage` | the evaluate page: its globals, its timer, requests in flight |
| `FixedWindow` | abstract: what the rate limiter promises per bucket |
| `RateLimiter` | the limiter with its table and its pruning |
| `JobPipelineProofs` | theorems about the queue and the pipeline |
| `ScrapeRunsProofs`, `ListingsProofs`, `ProfilesProofs`, `TrackerProofs`, `LLMCallsProofs`, `EvaluatePageProofs`, `RateLimiterProofs` | theorems about the module each is named for |
| `MC*` | constants and symmetry for TLC |

### AIJobQueue

`row[j]` holds the columns of `ai_jobs` that steer the queue: status, attempts,
and whether `finished_at` is set. There is one row per `dedupe_key`. `due` is
the order of `run_after` among the jobs whose time has come. `sess[s]` is an
open read-modify-write: its operation, job and snapshot. `worker[w]` is where a
worker is. `locked[w]` is the set of rows it holds `FOR UPDATE`, which are *all*
rows its query found, because the code fetches the first row of a query that
has no LIMIT. `Flush` is the ORM's UPDATE: unchanged columns are left alone.

`EnqueueTailoring`, `EnqueueEvaluate` and `CancelRead` open a session, and
`InsertCommit`, `RequeueCommit` and `CancelCommit` commit it. A duplicate insert
meets the unique key and returns the existing job. `ClaimSelect` and
`ClaimCommit` are `claim_next_job`. `Execute`, `MarkRead`, `SucceedCommit` and
`FailCommit` are the rest of `run_job_queue_once`. Outcomes of the enqueue
functions that write none of the modelled columns (merging a payload, returning
a reference) are not steps. `mark_job_cancelled` has no caller. All jobs have
the default priority, as in the code.

### JobPipeline

An analysis is named by its tailor job, since the `dedupe_key` of the job is the
id of the analysis. Each worker has a `step` within its execution, so that
cancel requests, crashes and other workers come between any two of: guard,
LLM call, checks, flush and PDF, last check, commit. `EvaluateRoute` uses the
`Handoff` of the queue, so the tailor job is a row of the same queue. LLM calls,
PDF rendering and commits may always fail, and so may what follows the commit of
a draft: the refresh inside the same `try`, and the audit after it, which reads a
profile that may be gone and prices token counts the model may have made up. The
execution then ends in an error with its draft stored (`TailorCommit`), the job is
tried again, and the history `unreported` keeps that draft. With `CheckMayRaise` a
cancel check may raise, which counts as *not cancelled*. What the LLM answers and
what becomes of the audit row are the business of `LLMCalls`; which profile and
which evidence a resume is made from, of `Profiles`.

`OneDraft` says how far a retry is safe. A draft that was reported is the last one:
nothing tailors the analysis again, however it is requeued, unless an update of the
row was lost. A second draft comes only after an execution that stored one and then
ended in an error, and as every draft costs an attempt there are no more of them
than attempts. That one appears without any lost update is what `tailor.py:234-268`
does; no document of the repository says otherwise, so it is no finding.

### ScrapeRuns

`status` and `finished` are the columns of a run. `task[t]` is a background task
with the runs it has left and the status it last read. `client[c]` is an API
session with the statuses it has loaded. `CancelQuery` keeps the values of rows
already loaded by the session, as the identity map does. The scraper fetches an
unknown number of times, looking for a stop before each. The description
filter and the counters of a run are left out; the evaluation that may follow a
scrape is a kind of batch in `Listings`. The last look at the status comes before
the upsert, so a stop that commits between the two does not keep the drafts from
being stored, and the final status overwrites it: such a run is in `lost`.

### Guardrails and Listings

A text is its number of characters, a price a number of millionths of a dollar.
`EstimateTokens`, `Cost` and the two estimates are those of `ai_guardrails.py`, with
the rounding of `Decimal.quantize`; `CheckBatchGuardrails` holds one against the
limits of items, tokens and cost. `StartBatch` refuses a batch by the texts as
they are loaded (`GuardTexts`), although each listing may be read again before it
is scored. `AllowedOf` is `_apply_tailoring_guardrails`: the first fresh analyses up
to the cap, or none of them when tailoring them is over a limit; `HandsOver` is what
then reaches the queue. The settings that give the item limit of a batch, one per
endpoint, are one constant, `MaxItems`.

`row[k]` is the listing stored under a `(source, source_id)`: its `id` counts the
inserts under that key, so a deleted and re-inserted listing is another one. Its
link names an analysis by the description it scored, since an analysis is unique
per description and profile. `analysis[d]` is that row, with the prompt version
it was made under and whether the score needs tailoring. There is one profile.

Each session keeps what it has read. `scraper[u].read` holds the rows that
`upsert_drafts_with_stats` has found so far, one query per draft, and
`UpsertCommit` writes the columns that differ from them (`Updated`), or raises
and stores nothing (`Conflict`). `deleter[x]` holds the ids that passed the check
of `bulk_delete`. `batch[b].loaded` is the identity map of an evaluating session:
the rows of the batch are loaded at its start and stay as they were until the
first commit of the session, which expires them; from then on each listing is
read when its turn comes. `batch[b].seen` is the listing under evaluation.

A batch has one of three kinds: `listings` (`POST /evaluate/by-listings` and
`/pending-listings`), `scrape` (after a scrape, where only fresh analyses are
queued) and `bulk` (pasted descriptions, queued one by one). `TakeListing` and
`TakeText` look the cache up, `CallScores` inserts under the unique key or
raises, `CallFails` is an error of the provider, `Link` sets `job_analysis_id`,
`Report` reads the listing again for the answer, `Finish` applies the quota and
`QueueNext` queues. A cached analysis that the listing is linked to already
issues no UPDATE; after an insert the row is expired, so the UPDATE is always
issued. An UPDATE or a refresh of a deleted row, and a duplicate insert, raise
what the batch does not catch: it `Breaks`. What becomes of a queued job is the
business of `AIJobQueue`; here `jobs` is the set of analyses that have one.

`crossed` records the listings that kept a link when a commit wrote a row that
had changed since it was read, `blocked` what the quota refused, `broken` what a
broken batch had scored and not queued, `unstored` the scores that could not be
inserted.

`LinkIsCurrent` says that a listing shows an analysis of its own description
unless its row was crossed. The exception is real: a batch that reads a listing,
calls the provider, and links the result after a scrape has changed the
description leaves the listing with the analysis of the old text, and
`evaluate_pending_listings` will not take it up again because it has a link.
`TailoringAccounted` says the same of tailoring: the only ways to lose one are
the quota and a batch that broke off.

### Profiles

`profile[i]` is the row of profile `i`, ids being given out in order; `file` the
profiles whose PDF is on disk, `point[q]` the profile a proof point belongs to,
`analysis[i]` the profile named by the analysis that profile `i` scored, and
`resumes` what was tailored. `session[s]` is an open request: its place, the
row it has read and what it will write. `Written` is the UPDATE of the columns
that differ.

`_set_only_default` is an `UPDATE ... WHERE id != :id`: it works on the rows
committed when it starts (`todo`), locks them one at a time (`ClearRow`) and
waits for rows another session has locked. Two such requests may wait for each
other, and `Abort` is PostgreSQL ending one of them; that it always does is a promise
of the database and not checked. A row that is being created
is invisible to others until `CreateCommit`. An upload is two transactions with
a file between them (`CreateCommit`, `SaveFile`, `SavePath`). The disk may refuse the
file, `Restart` may come between any two steps, and `cut` holds the uploads that
were broken off by either. `TailorRead`, `TailorBaseline`, `TailorPoints` and
`TailorStore` are the four reads and the write by which `run_tailoring` makes a
resume of a profile and its evidence.

History: `rivals` holds the pairs of profiles of which one was not yet visible
when the request about the other one cleared the flags, `mixed` the requests that
overlapped another writer of profiles, `given` whom the user gave a proof point to.

### Tracker

`app[i]` is an application with its four modelled columns, `scored[l]` the
analysis of a listing, `resumes[r]` the analysis of resume `r` in the order of
creation. `LoadLinks` and `FindExisting` are the look-ups of the handler; a
request is one read (`CreateRead`, `UpdateRead`, `DeleteRead`) and one commit.
Listings are scored anew or deleted, and resumes stored, at any time between
the two. A POST or PATCH may name any of the links together, and nothing compares
them; `Bodies` bounds which combinations are tried. No unique key keeps two
applications of one target apart; `raced` holds the pairs whose requests overlapped,
`patched` the applications a PATCH has given other links, `combined` those made, or
filled, by a POST that names several, `rescored` the analyses some listing has left.

### Contracts and LLMCalls

A contract looks only at the class of a value: of the right type and within
bounds, padded, over the limit with or without its padding, blank, of another
type, null, absent, and for documents fenced, with a preamble, incomplete, unsafe
or with invented facts. `ClientAccepts`, `CallerAccepts` and `Normal` say for
each class what the code does with it; `Answers` enumerates the answers that
deviate from what was asked for in at most one field, and those that say nothing.

`call[c].pc` follows a call: `llm`, `store`, `render`, `commit`, `audit`, `ended`;
`told` is what its caller gets. The result is committed before the audit row is
written, so that a crash, a deleted profile or token counts made up by the model
come between them. Each commit is followed by a refresh that may raise (`Unread`);
of a tailoring the two are in one `try`, so that a stored resume is told as
`tailor_persist_failed`, and nothing is audited. `Render` is the renderer of
`write_beautified_artifacts` with its two kinds of failure.

### EvaluatePage

`timer` is the global `pollTimer` and `intervals` the intervals that run;
`flight[s]` is a request whose answer has not been handled, with what the server
said when it was sent. `Answers` lets it be answered with that or with what is
true at its receipt, so answers are overtaken by others. A handler is one action
up to its next `await`. `Evaluates` and `Tailors` are the server. `late` is set
when a handler that stops or replaces the timer runs for something else than
what the page is waiting for, `switched` when the current resume changes while
the editor, or a revision on its way, holds the text of another. The answer to
"succeeded" always has a result: a job is marked so only with one, which leaves the
error of `evaluate.js:167-171` without a cause. An interval is known by its kind and
its evaluation, so two intervals of the same poll would be one element; each start
goes through `StartsPoll`, which clears the one before.

### RateLimiter

A check is one step, because the code holds the limiter's lock. The clock of the
code is a float: here a second has `Ticks` steps, a window is a whole number of
seconds, and `RetryAfter` rounds what is left of it up to seconds, and to one at
least. What is left out is the rounding error of the float itself. So a client may
be told to wait up to a second beyond the end of its window, never less than to its
end, which is what `RetryAfterHonest` says. `admitted` and `waiting` are history variables:
the admissions of a bucket in their order, each with its time and the start of its
window, and what the refused clients were told.

## Runs

| Run | Checks | Bounds |
|---|---|---|
| `pipeline` | `SubmittableIffDocument`, `PdfBeforeRow`, `EvaluateHandsOver`, `QueueKept`: implements `AIJobQueue` | one job description with both jobs, 2 workers, 2 calls, 1 crash, 1 delivery, raising checks |
| `pipeline_races` | `LockDiscipline`, `Exclusive`, `FinishedIffTerminal`, `FailedExhausted`, `SucceededHasResume`, `OneDraft`, `LifecycleKept`: implements `JobLifecycle` | one tailor job, 2 enqueuers, 1 canceller, 2 workers, 4 calls, 2 attempts, 1 crash, raising checks |
| `pipeline_live` | `Settles`, `CancelHonoured` | one description with both jobs, 2 workers, 2 calls, no crash, checks that do not raise |
| `scrape` | `Worked`, `StoredIffSucceeded`, `RunLifecycle`, `RunsSettle` | 2 runs of 1 or 2 sources, 2 sessions, 2 tasks, 3 calls, 1 death |
| `listings` | `LinkIsCurrent`, `TailoringAccounted` | one key inserted up to twice, a short and a long description, 2 upserts, 2 batches of up to 2 items, limits of tokens and cost that two long texts exceed, cap of 1 job, 1 deletion, 1 crash |
| `limiter` | `TwiceLimit`, `RetryAfterHonest`, `WindowKept`: implements `FixedWindow` | 2 buckets with limits 1 and 2, a clock of half seconds, windows of 2 s, 5 s, pruning every 2 checks |
| `profiles` | `OneDefault`, `BaselineKept`, `EvidenceOwned`, `UploadKept`, `AloneKeepsPromise` | 2 profiles stored and one created, 1 proof point, 2 sessions, 3 requests, 1 restart |
| `tracker` | `OneApplication`, `LinksAgree`, `SentResumeKept`, `StatusKept` | 2 listings, 2 analyses, 2 applications, 2 sessions, 3 requests that name one link, the status, or a listing with a resume, 3 changes of what they link to |
| `llm_calls` | `StoredClean`, `AuditTrue`, `FilesAccounted`, `StoredIsReported` | 2 calls of any step and client, every class of answer, 1 crash, 1 deletion of the profile |
| `page` | `OneInterval`, `TailoringWatched`, `SavedWhereEdited`, `PageSettles` | 2 evaluations, 2 requests in flight, 1 failing request, 1 revision |

Each property is checked in one run. What holds of the queue alone is checked in
`pipeline_races`, where workers and tables are there as well. `StoredIffSucceeded`
relates the drafts of a scrape, its status and its `finished_at`. The type
invariants are proved for all instances, so no run repeats them.

Why these bounds are enough to be interesting: a double execution needs two
sessions that requeue the same terminal job and two workers, hence two calls
before (create, finish) and two after. A job fails for good with two attempts
after one retry. A second draft needs a job to be put back after its first
execution. One crash between any two steps exercises every place where work is
forgotten. Jobs interact only through the order in which they are claimed, the
locks of a claim and the hand-over, for which two are enough. A window of two
seconds on a clock of half seconds has an inside, both edges, and rests that are
whole seconds and rests that are not; five seconds hold the windows that a burst
across an edge needs.

Two defaults need two requests, and a third shows that the next one alone
repairs them; three profiles let two UPDATEs lock two rows in opposite order.
Two applications of one target need two creating requests that overlap; the
third request is the PATCH or DELETE between a read and its commit, and three
changes score a listing, score it anew and store a resume. A listing with a resume
is the combination in which the two name different analyses; the theorems hold for
all. Calls of the LLM meet
only in the profile they work for, so two of them suffice. The page holds at most
one timer, so two evaluations are what an answer can confuse, and two slots are
what lets one answer overtake another.

An analysis goes out of date with one row, a batch and an upsert, and a second
batch and a re-insert make every snapshot old in turn; a cap of one with two
items has something to cut off. Descriptions, keys, evaluators and scrapers are
interchangeable, and so are workers, sessions and what the tracker links; the
runs use this symmetry where they check safety only.

`CHECK_DEADLOCK FALSE` is given everywhere: the calls, crashes and the clock are
bounded, so a model stops when they are used up and everything has settled.

Mutants: for every property `PROJECT.json` names a changed definition, next to
the original and prefixed `Mut`, under which TLC finds the property violated.

## Findings

Two disagreements between the code and its documents are runs that TLC must find
violated:

* **A job is lost on restart** (`restart_finding`). `claim_next_job` selects
  `queued` and `retry_wait` only, and nothing resets a `running` row. A worker
  that dies leaves its job running for ever. `src/readme.md:30` promises
  "not lost on restart".
* **A tailoring nobody polls** (`poll_finding`). `setInterval` polls whether or not
  the last poll has been answered. One answer ends the evaluation and starts the
  poll of the tailoring; an overlapping one that fails then calls `stopPoll`,
  which clears the timer of the tailoring. Its spinner stays.
  `src/specs/current-product-spec.md:241-243` says that the frontend polls until
  the job has ended.

Four more have a configuration each (`tlc -config <file> <module>`):

* **A cancel may go unanswered** (`CancelFinding.cfg`, `MCAIJobQueue`,
  `CancelAnswered`). `cancel_job` reads `running`; the worker marks the outcome;
  the cancel then commits `cancel_requested` over it. No worker is left to observe
  "the durable signal workers should observe" (`src/backend/app/api/jobs.py:47`).
* **The cap on tailoring jobs is not one** (`TailoringCapFinding.cfg`, `MCListings`,
  `TailoringCap`). `bulk_evaluate` never looks at it, and batches of listings let
  cached analyses through beside the fresh ones it counts. `src/readme.md:109`
  says it "caps how many generated resume jobs can be queued from one batch". After
  a scrape the cap does hold: that is the theorem `ScrapeIsCapped`.
* **A new prompt version cannot be stored** (`PromptFinding.cfg`, `MCListings`,
  `PromptFresh`). The cache asks for the prompt version, the unique key of the
  table does not have it: the provider is paid and the insert raises.
  `evaluator_v2.py:154` says "Prompt changes must produce a fresh score".
* **An analysed listing is deleted without force** (`DeleteFinding.cfg`,
  `MCListings`, `RefusesAnalysed`). The check and the DELETE of `bulk_delete` are
  apart, and the DELETE goes by id alone. Its docstring says such listings "are
  refused unless `force=True`".

`AIJobQueue.cfg` checks the queue without the pipeline, with a tailor and an
evaluate job.

Properties that hold only with an exception name what the code does not prevent: two
defaults when a profile is created while another becomes the default (`OneDefault`);
two applications when two requests look before either has committed
(`OneApplication`); a resume of another analysis in an application when a POST names
both, or when a listing was scored anew and is tracked again (`LinksAgree`); an
upload without its PDF when the server stops between its two transactions or the
disk refuses the file (`UploadKept`); a stored result reported as an error when it
cannot be read back or its audit breaks off (`StoredIsReported`), and then a second
draft (`OneDraft`); a cancelled job that goes on when the check itself raises
(`CancelHonoured`, checked with checks that do not); a revision saved on a resume
other than the one it was edited from when a tailoring ends under the open editor
(`SavedWhereEdited`).

## Fairness

`run_job_queue_loop` polls for ever and a request handler runs to its end, so
the steps of workers and the commits of open sessions are weakly fair; so is
the end of a backoff, which is time passing. Calls and crashes are never fair.
In `ScrapeRuns` the tasks are weakly fair, and a scraper that keeps fetching
eventually makes its last request (strong fairness of `Fetch` not returning to
its loop): `limit`, `OVER_FETCH_CAP` and the page limits of the scrapers bound
it. `pipeline_live` has no crash, as the restart finding shows that a crash
breaks it; `RunsSettle` makes an exception of behaviours in which something
died. In `EvaluatePage` the server goes on with its jobs
and every request is answered (weak fairness per slot), and the interval keeps
firing: a bounded number of slots may be taken by other requests whenever it
would, which a browser does not do, hence strong fairness of `Tick`.

## Theorems

All are proved from the named assumptions on the constants only (disjoint sets
of jobs, disjoint clients and workers, values distinct from the null value, natural
bounds), for any number of jobs, sessions, workers, runs, calls and requests.

`JobPipelineProofs`, about the queue

* `TypeCorrect`: `TypeOK`. It is not inductive alone, since a commit indexes
  `row` by the job of its session. The inductive invariant is
  `Shape == TypeOK /\ SessionInv /\ WorkerInv`: an open session names a job and a
  row its operation applies to, and a worker with a place has a job.
* `LocksExclude`: `LockDiscipline`, inductive relative to `Shape`. A commit
  never writes a locked row (`CommitFrame`), a claim takes only rows nobody
  holds.
* `ExecutionExclusive`: `Exclusive`, by the strengthening `ExecutedIsRunning`: a
  job somebody executes is running or being cancelled, unless its update was
  lost. A claim takes a waiting job, so nobody executes it. A commit by a session
  that starts no execution writes a status only on a fresh row; on a fresh
  running row the operation is a mark by the one worker that executes the job,
  or a cancel, which keeps it executed.
* `FailsExhausted`: `FailedExhausted`, without the exception for lost updates. The
  strengthening is `AttemptsGrow` (a session never read more attempts than the
  row has now) and `Exists` (nobody works on a row that is not there). `Grown`
  carries the argument: a commit keeps the stored attempts, the claim adds one,
  and `failed` is written only by a session that read `max_attempts` of them.
* `FinishedWhenTerminal`: `FinishedIffTerminal`.
* `ImplementsJobLifecycle`: `LifecycleKept`. Every step writes at most one row,
  and writes it along an update it applies to (`Follows`) or loses it
  (`StepWrites`). For the claim this needs `LockDiscipline`, for the two marks
  `ExecutedIsRunning`, for the others that a fresh row is the one that was read.
  Each update is then an action of `JobLifecycle`, and a stale commit is `Lose`.

`JobPipelineProofs`, about the pipeline

* `ImplementsAIJobQueue`: `QueueKept`. Every step of the pipeline is a step of the
  queue or a stutter of it; the hand-over is an enqueue by the worker. All that is
  proved of the queue then holds here, and is used below.
* `PipelineTypeCorrect`: `PipelineTypeOK`, with `StepInv`: what the place of a
  worker in its handler says of the tables (`Knows`). It rests on `Kept`: no step
  takes an analysis, a resume or a file away, or changes a route.
* `SubmittableHasDocument`, `RowsHavePdf`: `SubmittableIffDocument` and
  `PdfBeforeRow`, inductive together with the fact that a resume has an analysis
  (`Documents`); without it an analysis could be scored behind its resumes.
* `SuccessHasResume`, `HandoverBeforeSuccess`: `SucceededHasResume` and
  `EvaluateHandsOver`, both without an exception for lost updates. The inductive
  invariant is `Outcomes`: success is established by the handler, carried by the
  worker, then by the session that marks the job, and then by the row (`Outcome`,
  `Produced`). Between hand-over and commit the tailor job may still be an
  insert of the worker's own session. By `AttemptsInv` of the queue no
  row goes away (`Grown`), so what was handed over stays.
* `OneDraftOnly`: `OneDraft`. `DraftInv` adds that an execution which has not stored,
  or is about to mark a failure, finds no reported draft (`Unstored`), that a running
  one still has an attempt to spend on a draft (`Held`), that drafts are numbered
  as they are minted (`Numbered`), and that a requeue has read no succeeded job
  (`Requeues`, by `SuccessHasResume`: a requeue is read only while there is no
  resume). The store then is that of the one execution of its job, by
  `ExecutionInv` of the queue.

`ScrapeRunsProofs`

* `TypeCorrect`, and `Shared` with it: a task has each of its runs once and no run
  has two tasks, which is the first half of `Worked`.
* `RunsHaveTasks`, `OutcomeTellsStored`, `LifeOfARun`: `Worked`,
  `StoredIffSucceeded` and `RunLifecycle`, from one invariant `Known` about runs
  none of whose updates was lost. `Tells` is what the row says, `Knows` what a
  task relies on between two of its reads: it makes each commit either follow an
  edge of the life cycle or lose an update.

`ListingsProofs`

* `GuardrailsHold`, about the estimates alone: a batch that is let through keeps its
  limits of items and tokens. Its price is rounded before it is compared, so it
  may exceed the cost limit by half a millionth of a dollar and no more
  (`RoundedPrice`).
* `TypeCorrect`: `TypeOK`, within `Shape`, which adds what a batch at each of its
  places has read (`AtWork`).
* `LinkCurrent`: `LinkIsCurrent`. It needs `Scored`: a batch that is about to link an
  analysis has it stored. No step changes a stored analysis (`AnalysesKept`), and
  `LinkMoves` says of every step that a link stays with its text, agrees with the
  new text, or has its listing in `crossed`.
* `TailoringIsAccounted`: `TailoringAccounted`, from `Accounted`, which says the same of
  what a batch `Owes` by its place. A step that stores a score owes it, and
  what a batch owes it goes on owing, queues, refuses or gives up (`Settles`).
* `ScrapeIsCapped`: `CapAfterScrape`, from `Quota`. What a batch may queue is at most the
  cap (`AllowedWithin`, by `CheckBatchGuardrails` or by the cut of the list), and
  after a scrape every job it has queued is one of these (`Counted`); the sets are
  finite and grow by one at a time. No run checks this one: the cap is violated by
  the other kinds of batches.

`ProfilesProofs`

* `TypeCorrect`: `TypeOK`, within `Shape`: what a request has read, locked and still to
  do at each place of its operation (`Place`).
* `UploadsKept`: `UploadKept`, from `Uploads`: a request that stores the path of a file
  has written it before. Only sessions that hold locks are ever in a deadlock
  (`AbortLocks`), so none breaks an upload off after its first commit.
* `DefaultIsOne`: `OneDefault`. The strengthening `Clears` is about the UPDATE of
  `_set_only_default`: a request that makes its profile the default has locked, or
  has still to lock, every other profile that is not its rival. It rests on
  `Births`: a profile that is being created has no row yet, and no UPDATE has
  taken it up.
* `BaselineIsKept`, `EvidenceIsOwned`: `BaselineKept` and `EvidenceOwned`, from
  `Sources`: what a tailoring has at hand between its reads is still the profile of
  its analysis, and evidence of that profile, or of a deleted one.
* `AloneIsKept`: the action property `AloneKeepsPromise`, from `Alone`: while no writer
  overlaps a request, the row it read is the row, and it has locked, or has still
  to lock, every other profile.

`RateLimiterProofs`

* `TypeCorrect`: `TypeOK`, inductive as it is.
* `HonestRetryAfter`: `RetryAfterHonest`, inductive relative to `TypeOK`: what is told
  is at least what is left and less than a second more (`Rounded`), and
  pruning neither opens nor closes a window (`KeptWindows`).
* `TwiceTheLimit`: `TwiceLimit`. The invariant `Entries` says of the admissions of a
  bucket that those of one window follow each other, at most a limit of them, and
  that a later window starts a whole window after (`Spaced`), and that an open
  window has counted its own (`Packed`). Of twice the limit and one more, the first
  and the last are then two windows apart (`SpacedTwice`).
* `ImplementsFixedWindow`: every step of the limiter is a step of `FixedWindow`
  or a stutter, under the mapping that forgets closed windows.

`TrackerProofs`

* `TypeCorrect`: `TypeOK`, with lemmas about the look-ups: a maximum of a bounded
  set exists (`MaxIsGreatest`, from the well-foundedness of `<`), what
  `FindExisting` and `LatestResume` return.
* `StatusIsKept`: `StatusKept`, since a commit writes only columns that differ.
* `SentResumeIsKept`: `SentResumeKept`, from `ResumeAsked`: an open request differs
  from the resume it read only if it names one or read none.
* `OneApplicationOnly`: `OneApplication`, from `AllLooked`: an open insert has seen
  all older applications of its listing but those that a PATCH gave to it since,
  and a request that names no link leaves the listing as it read it.
* `LinksAlwaysAgree`: `LinksAgree`, from `LinksKnown`. The analyses an application
  shows, and those the open requests that name no link would make it show, are
  one analysis, that of its listing, save those a listing has left; the same of
  the row of an open insert. Applications that a PATCH or a POST of several links
  has touched are left out (`Relinked`). It needs `AllLooked`: an update that found its
  application by the listing keeps it there.

`LLMCallsProofs`

* `AuditIsTrue`, `FilesAreAccounted`, `StoredResultIsReported`: `AuditTrue`,
  `FilesAccounted` and `StoredIsReported`, from one invariant `Accounted`: what a
  call has left behind at each of its places (`Progress`), what its verdict says
  of its rows (`Verdict`), and of its files (`Files`).
* `TypeCorrect`: `TypeOK`, from the same and the fact that the step of a call is
  fixed when it starts (`StepIsFixed`), so that its files stay of its kind.
* `StoredIsClean`: `StoredClean`. `AcceptedIsClean` shows of every answer that
  both contracts accept that its normal form is clean, and `CleanInHand` that
  nobody touches the value from there to the table.

`EvaluatePageProofs`

* `TypeCorrect`, `OneIntervalOnly`: `TypeOK` and `OneInterval`, which is inductive
  as it stands: a timer is only ever started in place of the one that runs.
* `SavedIsWhereEdited`: `SavedWhereEdited`, from `EditorCurrent`: until the resume
  is switched, editor and revisions on their way agree with it.
* `TailoringIsWatched`: `TailoringWatched`, from `PollsKnown` (a poll is about the
  evaluation of its timer), `DraftsKnown` (what a poll has read stays true) and
  `Displays` (while a description is posted nothing is polled, and a timer is
  about the result that is displayed).

Every invariant and every action property that a run checks has a theorem. Only
model-checked are the properties under fairness (`Settles`, `CancelHonoured`,
`RunsSettle`, `PageSettles`), which are out of the prover's reach.

## Plan

Done: queue, pipeline, scrape runs, listings with their guardrails, profiles,
tracker, LLM calls with their contracts, the evaluate page and the rate limiter,
with the theorems above. Left, in this order:

1. The findings as theorems of the cases in which the promise does hold: a cancel is
   answered unless it was committed over an outcome, an analysed listing is
   deleted only when it was analysed after the check.
2. The loops of the three scrapers: no page twice, and no page left out when the
   site changes between two requests.

## Not modelled

* The scrapers: one sequential pass over pages without shared state. `ScrapeRuns`
  takes what they return, or that they raise, as an outcome of `Fetch`.
* The ranking of proof points by keywords: text processing. `Profiles` keeps what
  it must not do, which is to use the evidence of another profile.
* Rendering (PDF, HTML), parsing of uploads and of scraped pages, prompt texts,
  the canonical form of a description, logging, response envelopes, configuration,
  authentication: input and output without state that others read.
* Opportunities, lists, health and debug endpoints, and the pages that show the
  answer of one request: they change nothing.
* The offline harnesses, migrations, shell scripts and the commands that run one
  service call alone: nothing runs beside them.

A failure of the database in an API handler leaves its session without effect;
in the safety runs that is a session that never commits.
